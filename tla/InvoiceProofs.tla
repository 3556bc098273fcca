---------------------------- MODULE InvoiceProofs -----------------------------
(***************************************************************************)
(* What is proved of the validations and decisions of invoices, for any    *)
(* number of documents, normalizations, attempts and lines.                *)
(*                                                                         *)
(* Of two decided documents that carry one invoice, at least one went to   *)
(* a human.  Let v and w be finished searches from the two current rows.   *)
(* If w's row was completed by the time v started, v has found it, since   *)
(* a current row is the latest visible one.  Otherwise w started after v   *)
(* did, so after v's row was committed, and has found that.                *)
(*                                                                         *)
(* What is said of amounts follows from what the rules compare, since a    *)
(* verdict's findings are the rules' on its source's invoice for ever      *)
(* (Reproducible), by induction over the lines that are summed.            *)
(***************************************************************************)
EXTENDS InvoiceProperties, SequenceLemmas

-----------------------------------------------------------------------------
(* The inductive invariant *)

\* The findings are the rules' on the source's invoice as it is stored, and
\* the acceptance follows from them.
Reproducible(d, val) ==
  val.findings # Null =>
    /\ val.findings = RunRules(Context(d, SourceInvoice(d, val), val.matches))
    /\ val.outcome = "ACCEPTED" => \A rule \in val.findings : ~TriggersReview(rule)

VerdictSound(d, val) ==
  /\ Grounded(d, val) /\ SawThePast(d, val) /\ MatchesLive(d, val)
  /\ Reproducible(d, val)

\* SearchIInv, and that every verdict is Reproducible.
VerdictIInv ==
  /\ SearchTypeOK
  /\ StampsInOrder
  /\ \A d \in Documents : \A v \in DOMAIN vals[d] : VerdictSound(d, vals[d][v])
  /\ SearchesAgree

-----------------------------------------------------------------------------
(* The operators *)

LEMMA SameInvoiceSymmetric ==
  ASSUME NEW a \in Invoices, NEW b \in Invoices, SameInvoice(a, b)
  PROVE  SameInvoice(b, a)
<1>1. a.total_amount \in Int \cup {Null} /\ b.total_amount \in Int \cup {Null}
  BY SearchAssumption DEF NormalizedInvoice, Amount
<1> QED
  BY <1>1 DEF SameInvoice, SameVendor, Abs, RECONCILIATION_TOLERANCE, Cent

LEMMA LatestIsMax ==
  ASSUME NEW n \in Nat, NEW S \in SUBSET (1 .. n), S # {}
  PROVE  Latest(S) \in S /\ \A k \in S : k <= Latest(S)
<1>1. \E m \in S : \A k \in S : k <= m
  BY MaxExists
<1> QED
  BY <1>1 DEF Latest

LEMMA LatestUnique ==
  ASSUME NEW n \in Nat, NEW S \in SUBSET (1 .. n), NEW m \in S, \A k \in S : k <= m
  PROVE  Latest(S) = m
<1>1. Latest(S) \in S /\ \A k \in S : k <= Latest(S)
  BY LatestIsMax
<1>2. PICK x \in S : x = Latest(S) /\ m <= x
  BY <1>1
<1>3. x \in Nat /\ m \in Nat /\ x <= m
  OBVIOUS
<1> QED
  BY <1>2, <1>3

\* A finding for every duplicate found, and it holds the invoice.
LEMMA DuplicatesAreFindings ==
  ASSUME NEW d, NEW inv, NEW matches, matches # {}
  PROVE  "probable_duplicate_invoice" \in RunRules(Context(d, inv, matches))
<1>1. Context(d, inv, matches).matches = matches
  BY DEF Context
<1>2. "probable_duplicate_invoice" \in ValidationRule
  BY DEF ValidationRule
<1>3. Fires("probable_duplicate_invoice", Context(d, inv, matches))
  BY <1>1 DEF Fires, ProbableDuplicateInvoice
<1> QED
  BY <1>2, <1>3 DEF RunRules

LEMMA DuplicatesAreHeld ==
  ASSUME NEW findings, "probable_duplicate_invoice" \in findings, NEW manual
  PROVE  Decide(findings, manual) = "NEEDS_REVIEW"
  BY DEF Decide, TriggersReview, NonGating

-----------------------------------------------------------------------------
(* Types *)

LEMMA RowTypes ==
  ASSUME SearchTypeOK, NEW d \in Documents
  PROVE  /\ norms[d] \in Seq(NormalizationRow) /\ vals[d] \in Seq(Attempt)
         /\ Len(norms[d]) \in Nat /\ DOMAIN norms[d] = 1 .. Len(norms[d])
         /\ Len(vals[d]) \in Nat /\ DOMAIN vals[d] = 1 .. Len(vals[d])
         /\ Committed(d) \in SUBSET (1 .. Len(norms[d]))
         /\ \A n \in DOMAIN norms[d] : norms[d][n] \in NormalizationRow
         /\ \A v \in DOMAIN vals[d] : vals[d][v] \in Attempt
<1>1. norms[d] \in Seq(NormalizationRow) /\ vals[d] \in Seq(Attempt)
  BY DEF SearchTypeOK
<1> QED
  BY <1>1 DEF Committed

LEMMA StampFacts ==
  Never \in Int /\ Never \notin Stamp /\ Stamp \subseteq Nat
  BY SearchAssumption DEF Never, Stamp

\* The stamps of a committed row.
LEMMA CommittedFacts ==
  ASSUME SearchTypeOK, StampsInOrder, NEW d \in Documents, NEW n \in Committed(d)
  PROVE  /\ n \in DOMAIN norms[d] /\ n \in Nat
         /\ norms[d][n].invoice \in Invoices
         /\ norms[d][n].completed_at \in Stamp /\ norms[d][n].committed_at \in Stamp
         /\ norms[d][n].completed_at <= norms[d][n].committed_at
         /\ norms[d][n].committed_at <= now
         /\ exts[d] # Null /\ exts[d].completed_at <= norms[d][n].completed_at
         /\ exts[d].completed_at \in Stamp
<1>1. n \in DOMAIN norms[d] /\ norms[d][n] \in NormalizationRow /\ n \in Nat
  BY RowTypes DEF Committed
<1>2. norms[d][n].committed_at \in Stamp
  BY <1>1 DEF Committed, NormalizationRow
<1> QED
  BY <1>1, <1>2 DEF StampsInOrder, NormalizationRow, SearchTypeOK

-----------------------------------------------------------------------------
(* Steps that move the normalizations *)

\* Committed rows stay as they are; a row that becomes committed is newer
\* than they are, and it is committed now.
NormsStep ==
  /\ norms' \in [Documents -> Seq(NormalizationRow)]
  /\ \A d \in Documents :
       /\ \A n \in Committed(d) : n \in Committed(d)' /\ norms'[d][n] = norms[d][n]
       /\ \A n \in Committed(d)' \ Committed(d) :
            /\ norms'[d][n].committed_at = now
            /\ \A k \in Committed(d) : k < n

\* What a verdict was derived from stays.
LEMMA StaysReproducible ==
  ASSUME NEW d, NEW val, Reproducible(d, val), exts'[d] = exts[d],
         norms'[d][val.source] = norms[d][val.source]
  PROVE  Reproducible(d, val)'
<1>1. Context(d, SourceInvoice(d, val), val.matches)'
      = Context(d, SourceInvoice(d, val), val.matches)
  BY DEF Context, SourceInvoice
<1> QED
  BY <1>1 DEF Reproducible

LEMMA SoundAfterNorms ==
  ASSUME VerdictIInv, NormsStep, UNCHANGED <<now, exts, vals>>,
         NEW d \in Documents, NEW v \in DOMAIN vals[d]
  PROVE  VerdictSound(d, vals[d][v])'
<1> DEFINE val == vals[d][v]
<1>1. VerdictSound(d, val) /\ val \in Attempt /\ val.started_at <= now /\ val.started_at \in Nat
      /\ now \in Nat /\ val.source \in Committed(d)
  <2>1. VerdictSound(d, val) /\ now \in Stamp
    BY DEF VerdictIInv, SearchTypeOK
  <2>2. val \in Attempt
    BY RowTypes DEF VerdictIInv
  <2>3. val.started_at \in Stamp
    BY <2>2 DEF Attempt
  <2>4. val.started_at <= now /\ val.source \in Committed(d)
    BY <2>1 DEF VerdictSound, Grounded
  <2> QED
    BY <2>1, <2>2, <2>3, <2>4, StampFacts
<1>2. val.source \in Committed(d)' /\ norms'[d][val.source] = norms[d][val.source]
  BY <1>1 DEF NormsStep
<1>3. Grounded(d, val)'
  BY <1>1, <1>2 DEF VerdictSound, Grounded
<1>4. SawThePast(d, val)'
  <2> SUFFICES ASSUME NEW e \in Documents \ {d}, NEW m \in Committed(e)',
                      val.findings # Null, IsCurrent(e, m)',
                      norms'[e][m].committed_at < val.started_at,
                      SameInvoice(norms[d][val.source].invoice, norms'[e][m].invoice)
               PROVE  val.matches # {}
    BY <1>2 DEF SawThePast, SourceInvoice
  <2>1. m \in Committed(e)
    BY <1>1 DEF NormsStep
  <2>2. norms'[e][m] = norms[e][m] /\ IsCurrent(e, m)
    BY <2>1 DEF NormsStep, IsCurrent
  <2> QED
    BY <1>1, <2>1, <2>2 DEF VerdictSound, SawThePast, SourceInvoice
<1>5. MatchesLive(d, val)'
  <2> SUFFICES ASSUME NEW c \in val.matches
               PROVE  /\ c.document # d
                      /\ c.normalization \in Visible(c.document, val.started_at)'
                      /\ \A n \in Committed(c.document)' : n > c.normalization =>
                           norms'[c.document][n].committed_at >= val.started_at
    BY DEF MatchesLive
  <2>1. c.document \in Documents /\ c.document # d
        /\ c.normalization \in Visible(c.document, val.started_at)
        /\ \A n \in Committed(c.document) : n > c.normalization =>
             norms[c.document][n].committed_at >= val.started_at
    BY <1>1 DEF VerdictSound, MatchesLive, Attempt, Candidate
  <2>2. c.normalization \in Visible(c.document, val.started_at)'
    BY <2>1 DEF Visible, NormsStep
  <2>3. ASSUME NEW n \in Committed(c.document)', n > c.normalization
        PROVE  norms'[c.document][n].committed_at >= val.started_at
    BY <1>1, <2>1, <2>3 DEF NormsStep
  <2> QED
    BY <2>1, <2>2, <2>3
<1>6. Reproducible(d, val)'
  BY <1>1, <1>2, StaysReproducible DEF VerdictSound
<1> QED
  BY <1>3, <1>4, <1>5, <1>6 DEF VerdictSound

LEMMA AgreeAfterNorms ==
  ASSUME VerdictIInv, NormsStep, UNCHANGED vals
  PROVE  SearchesAgree'
<1> SUFFICES ASSUME NEW d \in Documents, NEW e \in Documents, d # e,
                    NEW v \in DOMAIN vals[d], NEW w \in DOMAIN vals[e]
             PROVE  OneSawTheOther(d, vals[d][v], e, vals[e][w])'
  BY DEF SearchesAgree
<1>1. OneSawTheOther(d, vals[d][v], e, vals[e][w])
      /\ vals[d][v].source \in Committed(d) /\ vals[e][w].source \in Committed(e)
  BY DEF VerdictIInv, SearchesAgree, VerdictSound, Grounded
<1>2. ASSUME NEW x \in Documents, NEW n \in Committed(x)
      PROVE  norms'[x][n] = norms[x][n] /\ (IsCurrent(x, n)' => IsCurrent(x, n))
  BY DEF NormsStep, IsCurrent
<1> QED
  BY <1>1, <1>2 DEF OneSawTheOther, SourceInvoice

LEMMA NormsStepKeeps ==
  ASSUME VerdictIInv, NormsStep, StampsInOrder', UNCHANGED <<now, exts, vals>>
  PROVE  VerdictIInv'
<1>1. SearchTypeOK'
  BY DEF VerdictIInv, SearchTypeOK, NormsStep
<1> QED
  BY <1>1, SoundAfterNorms, AgreeAfterNorms DEF VerdictIInv

\* t replaces the rows of d: the last one may be new, or newly committed.
NextRows(d, t) ==
  /\ \A n \in Committed(d) : n \in DOMAIN t /\ t[n] = norms[d][n]
  /\ \A n \in DOMAIN t :
       /\ n < Len(t) => n \in Committed(d)
       /\ \/ n \in DOMAIN norms[d] /\ t[n] = norms[d][n]
          \/ /\ \A k \in Committed(d) : k < n
             /\ t[n].completed_at <= now
             /\ t[n].committed_at \in {now, Never}
             /\ exts[d] # Null /\ exts[d].completed_at <= t[n].completed_at

LEMMA OneDocumentsNorms ==
  ASSUME VerdictIInv, NEW d \in Documents, NEW t \in Seq(NormalizationRow),
         norms' = [norms EXCEPT ![d] = t], now' = now, exts' = exts, NextRows(d, t)
  PROVE  NormsStep /\ StampsInOrder'
<1>1. norms \in [Documents -> Seq(NormalizationRow)] /\ norms' \in [Documents -> Seq(NormalizationRow)]
      /\ norms'[d] = t /\ \A e \in Documents \ {d} : norms'[e] = norms[e]
  BY DEF VerdictIInv, SearchTypeOK
<1>2. now \in Stamp /\ now # Never /\ StampsInOrder
  BY StampFacts DEF VerdictIInv, SearchTypeOK
<1>3. \A n \in Committed(d) : n \in Committed(d)' /\ t[n] = norms[d][n]
  BY <1>1 DEF Committed, NextRows
<1>4. ASSUME NEW n \in Committed(d)', n \notin Committed(d)
      PROVE  norms'[d][n].committed_at = now /\ \A k \in Committed(d) : k < n
  BY <1>1, <1>4 DEF Committed, NextRows
<1>5. \A e \in Documents \ {d} : Committed(e)' = Committed(e)
  BY <1>1 DEF Committed
<1>6. NormsStep
  BY <1>1, <1>3, <1>4, <1>5 DEF NormsStep
<1>7. ASSUME NEW n \in DOMAIN t
      PROVE  /\ t[n].completed_at <= now
             /\ n \in Committed(d)' => /\ t[n].completed_at <= t[n].committed_at
                                       /\ t[n].committed_at <= now
             /\ n < Len(t) => n \in Committed(d)'
             /\ exts[d] # Null /\ exts[d].completed_at <= t[n].completed_at
  <2>1. CASE n \in DOMAIN norms[d] /\ t[n] = norms[d][n]
    BY <1>1, <1>2, <1>3, <2>1 DEF StampsInOrder, Committed, NextRows
  <2>2. CASE ~(n \in DOMAIN norms[d] /\ t[n] = norms[d][n])
    <3>1. t[n].completed_at <= now /\ t[n].committed_at \in {now, Never}
          /\ exts[d] # Null /\ exts[d].completed_at <= t[n].completed_at
      BY <2>2 DEF NextRows
    <3>2. n \in Committed(d)' => t[n].committed_at = now
      BY <1>1, <3>1 DEF Committed
    <3>3. now \in Nat /\ now <= now
      BY <1>2, StampFacts
    <3> QED
      BY <1>3, <3>1, <3>2, <3>3 DEF NextRows
  <2> QED
    BY <2>1, <2>2
<1>8. StampsInOrder'
  BY <1>1, <1>2, <1>5, <1>7 DEF StampsInOrder
<1> QED
  BY <1>6, <1>8

\* Normalize and Project.
LEMMA StampedKeeps ==
  ASSUME VerdictIInv, NEW d \in Documents, NEW inv \in Invoices, Stamped(d, inv),
         exts[d] # Null, Committed(d) = DOMAIN norms[d]
  PROVE  VerdictIInv'
<1>1. /\ now \in Stamp /\ now \in Nat /\ exts[d].completed_at <= now
      /\ norms[d] \in Seq(NormalizationRow) /\ norms \in [Documents -> Seq(NormalizationRow)]
      /\ Committed(d) \subseteq Nat
  BY RowTypes, StampFacts DEF VerdictIInv, SearchTypeOK, StampsInOrder
<1>2. PICK row \in NormalizationRow :
        /\ norms' = [norms EXCEPT ![d] = Append(norms[d], row)]
        /\ row.completed_at = now /\ row.committed_at = Never
  <2> DEFINE new == Normalization(inv)
  <2>1. new \in NormalizationRow /\ new.completed_at = now /\ new.committed_at = Never
    BY <1>1 DEF Normalization, NormalizationRow
  <2>2. norms' = [norms EXCEPT ![d] = Append(norms[d], new)]
    BY <1>1 DEF Stamped
  <2> QED
    BY <2>1, <2>2
<1>3. PICK t \in Seq(NormalizationRow) :
        /\ norms' = [norms EXCEPT ![d] = t]
        /\ DOMAIN norms[d] = 1 .. Len(norms[d]) /\ Len(norms[d]) \in Nat
        /\ DOMAIN t = 1 .. Len(norms[d]) + 1 /\ Len(t) = Len(norms[d]) + 1
        /\ \A n \in DOMAIN norms[d] : t[n] = norms[d][n]
        /\ t[Len(norms[d]) + 1] = row
  <2> DEFINE u == Append(norms[d], row)
  <2>1. /\ u \in Seq(NormalizationRow) /\ norms' = [norms EXCEPT ![d] = u]
        /\ DOMAIN norms[d] = 1 .. Len(norms[d]) /\ Len(norms[d]) \in Nat
        /\ DOMAIN u = 1 .. Len(norms[d]) + 1
        /\ \A n \in DOMAIN norms[d] : u[n] = norms[d][n]
        /\ u[Len(norms[d]) + 1] = row
    BY <1>1, <1>2, AppendFacts
  <2>2. Len(u) = Len(norms[d]) + 1
    BY <1>1
  <2> QED
    BY <2>1, <2>2
<1>4. NormsStep /\ StampsInOrder'
  <2>1. ASSUME NEW n \in DOMAIN t, n \notin DOMAIN norms[d]
        PROVE  (\A k \in Committed(d) : k < n) /\ t[n] = row
    BY <1>3, <2>1
  <2>2. now <= now
    BY <1>1
  <2>3. \A n \in DOMAIN t : n < Len(t) => n \in Committed(d)
    BY <1>3
  <2>4. NextRows(d, t)
    BY <1>1, <1>2, <1>3, <2>1, <2>2, <2>3 DEF NextRows
  <2>5. now' = now /\ exts' = exts
    BY DEF Stamped
  <2> QED
    BY <1>3, <2>4, <2>5, OneDocumentsNorms
<1> QED
  BY <1>4, NormsStepKeeps DEF Stamped

LEMMA CommitKeeps ==
  ASSUME VerdictIInv, NEW d \in Documents, CommitNormalization(d)
  PROVE  VerdictIInv'
<1>1. /\ now \in Stamp /\ now \in Nat /\ StampsInOrder /\ Never \notin Stamp
      /\ norms[d] \in Seq(NormalizationRow) /\ norms \in [Documents -> Seq(NormalizationRow)]
      /\ Len(norms[d]) \in Nat /\ DOMAIN norms[d] = 1 .. Len(norms[d])
      /\ Committed(d) \subseteq DOMAIN norms[d]
  BY RowTypes, StampFacts DEF VerdictIInv, SearchTypeOK
<1>2. \E n \in DOMAIN norms[d] : n \notin Committed(d)
  BY <1>1 DEF CommitNormalization, InFlight
<1>3. Len(norms[d]) \in DOMAIN norms[d] /\ Len(norms[d]) \notin Committed(d)
  BY <1>1, <1>2 DEF StampsInOrder
<1>4. PICK row \in NormalizationRow :
        /\ norms' = [norms EXCEPT ![d] = [norms[d] EXCEPT ![Len(norms[d])] = row]]
        /\ row.completed_at = norms[d][Len(norms[d])].completed_at /\ row.committed_at = now
  <2> DEFINE new == [norms[d][Len(norms[d])] EXCEPT !.committed_at = now]
  <2>1. norms[d][Len(norms[d])] \in NormalizationRow
    BY <1>1, <1>3
  <2>2. /\ new \in NormalizationRow /\ new.committed_at = now
        /\ new.completed_at = norms[d][Len(norms[d])].completed_at
    BY <1>1, <2>1 DEF NormalizationRow
  <2>3. norms' = [norms EXCEPT ![d] = [norms[d] EXCEPT ![Len(norms[d])] = new]]
    BY <1>1 DEF CommitNormalization
  <2> QED
    BY <2>2, <2>3
<1>5. PICK t \in Seq(NormalizationRow) :
        /\ norms' = [norms EXCEPT ![d] = t]
        /\ DOMAIN t = DOMAIN norms[d] /\ Len(t) = Len(norms[d])
        /\ t[Len(norms[d])] = row
        /\ \A n \in DOMAIN t : n # Len(norms[d]) => t[n] = norms[d][n]
  <2> DEFINE u == [norms[d] EXCEPT ![Len(norms[d])] = row]
  <2>1. /\ u \in Seq(NormalizationRow) /\ DOMAIN u = DOMAIN norms[d]
        /\ \A n \in DOMAIN norms[d] : u[n] = IF n = Len(norms[d]) THEN row ELSE norms[d][n]
    BY <1>1, <1>3, ExceptFacts
  <2>2. Len(u) = Len(norms[d])
    BY <1>1, <2>1
  <2> QED
    BY <1>3, <1>4, <2>1, <2>2
<1>6. NormsStep /\ StampsInOrder'
  <2>1. now <= now
    BY <1>1
  <2>2. \A k \in Committed(d) : k < Len(norms[d])
    BY <1>1, <1>3
  <2>3. \A n \in DOMAIN t : n < Len(t) => n \in Committed(d)
    BY <1>1, <1>5 DEF StampsInOrder
  <2>4. /\ row.completed_at <= now /\ exts[d] # Null
        /\ exts[d].completed_at <= row.completed_at
    BY <1>1, <1>3, <1>4 DEF StampsInOrder
  <2>5. NextRows(d, t)
    <3>1. \A n \in Committed(d) : n \in DOMAIN t /\ n # Len(norms[d])
      BY <1>1, <1>3, <1>5
    <3>2. \A n \in DOMAIN t : n = Len(norms[d]) \/ (n \in DOMAIN norms[d] /\ t[n] = norms[d][n])
      BY <1>5
    <3> QED
      BY <1>4, <1>5, <2>2, <2>3, <2>4, <3>1, <3>2 DEF NextRows
  <2>6. now' = now /\ exts' = exts
    BY DEF CommitNormalization
  <2> QED
    BY <1>5, <2>5, <2>6, OneDocumentsNorms
<1> QED
  BY <1>6, NormsStepKeeps DEF CommitNormalization

\* Only an uncommitted row goes.
LEMMA RaisesKeeps ==
  ASSUME VerdictIInv, NEW d \in Documents, NormalizationRaises(d)
  PROVE  VerdictIInv'
<1>1. /\ StampsInOrder
      /\ norms[d] \in Seq(NormalizationRow)
      /\ Len(norms[d]) \in Nat /\ DOMAIN norms[d] = 1 .. Len(norms[d])
      /\ Committed(d) \subseteq DOMAIN norms[d]
  BY RowTypes DEF VerdictIInv
<1>2. \E n \in DOMAIN norms[d] : n \notin Committed(d)
  BY <1>1 DEF NormalizationRaises, InFlight
<1>3. Len(norms[d]) \in DOMAIN norms[d] /\ Len(norms[d]) \notin Committed(d)
  BY <1>1, <1>2 DEF StampsInOrder
<1>4. PICK t \in Seq(NormalizationRow) :
        /\ norms' = [norms EXCEPT ![d] = t]
        /\ DOMAIN t = 1 .. Len(norms[d]) - 1 /\ Len(t) = Len(norms[d]) - 1
        /\ \A n \in DOMAIN t : t[n] = norms[d][n]
  <2> DEFINE u == SubSeq(norms[d], 1, Len(norms[d]) - 1)
  <2>1. /\ u \in Seq(NormalizationRow) /\ Len(u) = Len(norms[d]) - 1
        /\ \A n \in 1 .. Len(norms[d]) - 1 : u[n] = norms[d][n]
    BY <1>1, <1>3
  <2>2. DOMAIN u = 1 .. Len(norms[d]) - 1
    BY <2>1
  <2>3. norms' = [norms EXCEPT ![d] = u]
    BY DEF NormalizationRaises
  <2> QED
    BY <2>1, <2>2, <2>3
<1>5. NormsStep /\ StampsInOrder'
  <2>1. \A n \in Committed(d) : n \in DOMAIN t /\ t[n] = norms[d][n]
    BY <1>1, <1>3, <1>4
  <2>2. \A n \in DOMAIN t : n \in DOMAIN norms[d] /\ t[n] = norms[d][n]
    BY <1>1, <1>4
  <2>3. \A n \in DOMAIN t : n < Len(t) => n \in Committed(d)
    BY <1>1, <1>4 DEF StampsInOrder
  <2>4. NextRows(d, t)
    BY <2>1, <2>2, <2>3 DEF NextRows
  <2>5. now' = now /\ exts' = exts
    BY DEF NormalizationRaises
  <2> QED
    BY <1>4, <2>4, <2>5, OneDocumentsNorms
<1> QED
  BY <1>5, NormsStepKeeps DEF NormalizationRaises

-----------------------------------------------------------------------------
(* Steps that move the validations *)

\* One attempt of d is now val: a new one, or one that changes.
ValsStep(d, val) ==
  /\ vals' \in [Documents -> Seq(Attempt)]
  /\ \A e \in Documents : \A v \in DOMAIN vals'[e] :
       \/ v \in DOMAIN vals[e] /\ vals'[e][v] = vals[e][v]
       \/ e = d /\ vals'[e][v] = val

\* Neither side of two searches matters more.
LEMMA OneSawTheOtherSymmetric ==
  ASSUME VerdictIInv, NEW d \in Documents, NEW e \in Documents,
         NEW v, NEW w, v.source \in Committed(d), w.source \in Committed(e),
         OneSawTheOther(d, v, e, w)
  PROVE  OneSawTheOther(e, w, d, v)
<1>1. SourceInvoice(d, v) \in Invoices /\ SourceInvoice(e, w) \in Invoices
  BY CommittedFacts DEF VerdictIInv, SourceInvoice
<1> QED
  BY <1>1, SameInvoiceSymmetric DEF OneSawTheOther

LEMMA ValsStepKeeps ==
  ASSUME VerdictIInv, UNCHANGED <<now, exts, norms>>, NEW d \in Documents, NEW val,
         ValsStep(d, val), VerdictSound(d, val),
         \A e \in Documents \ {d} : \A w \in DOMAIN vals[e] :
           OneSawTheOther(d, val, e, vals[e][w])
  PROVE  VerdictIInv'
<1>1. SearchTypeOK' /\ StampsInOrder'
  BY DEF VerdictIInv, SearchTypeOK, StampsInOrder, Committed, ValsStep
<1>2. ASSUME NEW e \in Documents, NEW v \in DOMAIN vals'[e]
      PROVE  VerdictSound(e, vals[e][v])'
  <2>1. VerdictSound(e, vals'[e][v])
    BY DEF ValsStep, VerdictIInv
  <2>2. PICK x : x = vals'[e][v]
    OBVIOUS
  <2>3. Grounded(e, x)' /\ SawThePast(e, x)' /\ MatchesLive(e, x)'
    BY <2>1, <2>2 DEF VerdictSound, Grounded, SawThePast, MatchesLive, SourceInvoice,
       IsCurrent, Committed, Visible
  <2>4. Reproducible(e, x)'
    BY <2>1, <2>2, StaysReproducible DEF VerdictSound
  <2> QED
    BY <2>2, <2>3, <2>4 DEF VerdictSound
<1>3. ASSUME NEW e \in Documents, NEW f \in Documents, e # f,
             NEW v \in DOMAIN vals'[e], NEW w \in DOMAIN vals'[f]
      PROVE  OneSawTheOther(e, vals'[e][v], f, vals'[f][w])
  <2>1. CASE e = d
    <3>1. w \in DOMAIN vals[f] /\ vals'[f][w] = vals[f][w]
      BY <1>3, <2>1 DEF ValsStep
    <3>2. \/ v \in DOMAIN vals[e] /\ vals'[e][v] = vals[e][v]
          \/ vals'[e][v] = val
      BY DEF ValsStep
    <3> QED
      BY <1>3, <2>1, <3>1, <3>2 DEF VerdictIInv, SearchesAgree
  <2>2. CASE f = d
    <3>1. v \in DOMAIN vals[e] /\ vals'[e][v] = vals[e][v]
      BY <1>3, <2>2 DEF ValsStep
    <3>2. CASE w \in DOMAIN vals[f] /\ vals'[f][w] = vals[f][w]
      BY <1>3, <3>1, <3>2 DEF VerdictIInv, SearchesAgree
    <3>3. CASE vals'[f][w] = val
      <4>1. OneSawTheOther(d, val, e, vals[e][v])
        BY <1>3, <2>2, <3>1
      <4>2. val.source \in Committed(d) /\ vals[e][v].source \in Committed(e)
        BY <3>1 DEF VerdictIInv, VerdictSound, Grounded
      <4> QED
        BY <2>2, <3>1, <3>3, <4>1, <4>2, OneSawTheOtherSymmetric
    <3> QED
      BY <3>2, <3>3 DEF ValsStep
  <2>3. CASE e # d /\ f # d
    BY <1>3, <2>3 DEF ValsStep, VerdictIInv, SearchesAgree
  <2> QED
    BY <2>1, <2>2, <2>3
<1>4. SearchesAgree'
  <2> SUFFICES ASSUME NEW e \in Documents, NEW f \in Documents, e # f,
                      NEW v \in DOMAIN vals'[e], NEW w \in DOMAIN vals'[f]
               PROVE  OneSawTheOther(e, vals[e][v], f, vals[f][w])'
    BY DEF SearchesAgree
  <2>1. PICK x, y : x = vals'[e][v] /\ y = vals'[f][w]
    OBVIOUS
  <2>2. OneSawTheOther(e, x, f, y)
    BY <1>3, <2>1
  <2>3. OneSawTheOther(e, x, f, y)'
    BY <2>2 DEF OneSawTheOther, SourceInvoice, IsCurrent, Committed
  <2> QED
    BY <2>1, <2>3
<1> QED
  BY <1>1, <1>2, <1>4 DEF VerdictIInv

LEMMA StartKeeps ==
  ASSUME VerdictIInv, NEW d \in Documents, NEW n \in DOMAIN norms[d], StartValidation(d, n)
  PROVE  VerdictIInv'
<1>1. /\ now \in Stamp /\ now \in Nat /\ n \in Committed(d) /\ n \in Nat
      /\ norms[d][n].committed_at <= now /\ now <= now
      /\ vals \in [Documents -> Seq(Attempt)] /\ vals[d] \in Seq(Attempt)
  BY RowTypes, StampFacts, CommittedFacts DEF VerdictIInv, SearchTypeOK, StartValidation
<1>2. PICK val \in Attempt :
        /\ vals' = [vals EXCEPT ![d] = Append(vals[d], val)]
        /\ val.source = n /\ val.started_at = now /\ val.status = "PROCESSING"
        /\ val.matches = {} /\ val.findings = Null /\ val.outcome = Null
  <2> DEFINE new == NewValidation(n)
  <2>1. /\ new \in Attempt
        /\ new.source = n /\ new.started_at = now /\ new.status = "PROCESSING"
        /\ new.matches = {} /\ new.findings = Null /\ new.outcome = Null
    BY <1>1 DEF NewValidation, Attempt
  <2>2. vals' = [vals EXCEPT ![d] = Append(vals[d], new)]
    BY <1>1 DEF StartValidation
  <2> QED
    BY <2>1, <2>2
<1>3. ValsStep(d, val)
  <2>1. /\ Append(vals[d], val) \in Seq(Attempt)
        /\ \A v \in DOMAIN Append(vals[d], val) :
             \/ v \in DOMAIN vals[d] /\ Append(vals[d], val)[v] = vals[d][v]
             \/ Append(vals[d], val)[v] = val
    BY <1>1, AppendFacts
  <2> QED
    BY <1>1, <1>2, <2>1 DEF ValsStep
<1>4. VerdictSound(d, val)
  BY <1>1, <1>2 DEF VerdictSound, Grounded, SawThePast, MatchesLive, Reproducible
<1>5. \A e \in Documents : \A w : OneSawTheOther(d, val, e, w)
  BY <1>2 DEF OneSawTheOther
<1> QED
  BY <1>3, <1>4, <1>5, ValsStepKeeps DEF StartValidation

\* Rewriting attempt v of d.
LEMMA Rewritten ==
  ASSUME VerdictIInv, NEW d \in Documents, NEW v \in DOMAIN vals[d], NEW val \in Attempt,
         vals' = [vals EXCEPT ![d] = [vals[d] EXCEPT ![v] = val]]
  PROVE  ValsStep(d, val)
<1>1. vals \in [Documents -> Seq(Attempt)] /\ vals[d] \in Seq(Attempt)
  BY RowTypes DEF VerdictIInv, SearchTypeOK
<1>2. /\ [vals[d] EXCEPT ![v] = val] \in Seq(Attempt)
      /\ DOMAIN [vals[d] EXCEPT ![v] = val] = DOMAIN vals[d]
      /\ \A u \in DOMAIN vals[d] :
           [vals[d] EXCEPT ![v] = val][u] = IF u = v THEN val ELSE vals[d][u]
  BY <1>1, ExceptFacts
<1> QED
  BY <1>1, <1>2 DEF ValsStep

\* What is known of an attempt before it is rewritten.
LEMMA AttemptFacts ==
  ASSUME VerdictIInv, NEW d \in Documents, NEW v \in DOMAIN vals[d]
  PROVE  /\ vals[d][v] \in Attempt /\ VerdictSound(d, vals[d][v])
         /\ vals \in [Documents -> Seq(Attempt)] /\ vals[d] \in Seq(Attempt)
         /\ \A e \in Documents \ {d} : \A w \in DOMAIN vals[e] :
              OneSawTheOther(d, vals[d][v], e, vals[e][w])
<1>1. SearchTypeOK
  BY DEF VerdictIInv
<1> QED
  BY <1>1, RowTypes DEF VerdictIInv, SearchesAgree, SearchTypeOK

LEMMA CompleteKeeps ==
  ASSUME VerdictIInv, NEW d \in Documents, NEW v \in DOMAIN vals[d], CompleteValidation(d, v)
  PROVE  VerdictIInv'
<1> DEFINE old == vals[d][v]
<1>1. old \in Attempt /\ VerdictSound(d, old) /\ old.findings # Null
      /\ \A e \in Documents \ {d} : \A w \in DOMAIN vals[e] :
           OneSawTheOther(d, old, e, vals[e][w])
  BY AttemptFacts DEF CompleteValidation
<1>2. PICK val \in Attempt :
        /\ vals' = [vals EXCEPT ![d] = [vals[d] EXCEPT ![v] = val]]
        /\ val.source = old.source /\ val.started_at = old.started_at
        /\ val.status = "COMPLETED" /\ val.matches = old.matches
        /\ val.findings = old.findings /\ val.outcome = old.outcome
  <2> DEFINE new == [old EXCEPT !.status = "COMPLETED"]
  <2>1. /\ new \in Attempt
        /\ new.source = old.source /\ new.started_at = old.started_at
        /\ new.status = "COMPLETED" /\ new.matches = old.matches
        /\ new.findings = old.findings /\ new.outcome = old.outcome
    BY <1>1 DEF Attempt
  <2>2. vals' = [vals EXCEPT ![d] = [vals[d] EXCEPT ![v] = new]]
    BY AttemptFacts DEF CompleteValidation
  <2> QED
    BY <2>1, <2>2
<1>3. ValsStep(d, val)
  BY <1>2, Rewritten
<1>4. VerdictSound(d, val)
  BY <1>1, <1>2 DEF VerdictSound, Grounded, SawThePast, MatchesLive, Reproducible,
     SourceInvoice
<1>5. \A e \in Documents \ {d} : \A w \in DOMAIN vals[e] :
        OneSawTheOther(d, val, e, vals[e][w])
  BY <1>1, <1>2 DEF OneSawTheOther, SourceInvoice
<1> QED
  BY <1>3, <1>4, <1>5, ValsStepKeeps DEF CompleteValidation

\* A failed attempt has no result.
LEMMA FailsKeeps ==
  ASSUME VerdictIInv, NEW d \in Documents, NEW v \in DOMAIN vals[d], ValidationFails(d, v)
  PROVE  VerdictIInv'
<1> DEFINE old == vals[d][v]
<1>1. old \in Attempt /\ VerdictSound(d, old) /\ old.status = "PROCESSING"
  BY AttemptFacts DEF ValidationFails
<1>2. PICK val \in Attempt :
        /\ vals' = [vals EXCEPT ![d] = [vals[d] EXCEPT ![v] = val]]
        /\ val.source = old.source /\ val.started_at = old.started_at
        /\ val.status = "FAILED" /\ val.matches = {}
        /\ val.findings = Null /\ val.outcome = old.outcome
  <2> DEFINE new == [old EXCEPT !.status = "FAILED", !.findings = Null, !.matches = {}]
  <2>1. /\ new \in Attempt
        /\ new.source = old.source /\ new.started_at = old.started_at
        /\ new.status = "FAILED" /\ new.matches = {}
        /\ new.findings = Null /\ new.outcome = old.outcome
    BY <1>1 DEF Attempt
  <2>2. vals' = [vals EXCEPT ![d] = [vals[d] EXCEPT ![v] = new]]
    BY AttemptFacts DEF ValidationFails
  <2> QED
    BY <2>1, <2>2
<1>3. ValsStep(d, val)
  BY <1>2, Rewritten
<1>4. VerdictSound(d, val)
  BY <1>1, <1>2 DEF VerdictSound, Grounded, SawThePast, MatchesLive, Reproducible
<1>5. \A e \in Documents \ {d} : \A w : OneSawTheOther(d, val, e, w)
  BY <1>2 DEF OneSawTheOther
<1> QED
  BY <1>3, <1>4, <1>5, ValsStepKeeps DEF ValidationFails

LEMMA DecideKeeps ==
  ASSUME VerdictIInv, NEW d \in Documents, NEW v \in DOMAIN vals[d], NEW manual \in BOOLEAN,
         DecideInvoice(d, v, manual)
  PROVE  VerdictIInv'
<1> DEFINE old == vals[d][v]
<1>1. old \in Attempt /\ VerdictSound(d, old) /\ old.status = "COMPLETED"
      /\ \A e \in Documents \ {d} : \A w \in DOMAIN vals[e] :
           OneSawTheOther(d, old, e, vals[e][w])
  BY AttemptFacts DEF DecideInvoice
<1>2. PICK val \in Attempt :
        /\ vals' = [vals EXCEPT ![d] = [vals[d] EXCEPT ![v] = val]]
        /\ val.source = old.source /\ val.started_at = old.started_at
        /\ val.status = old.status /\ val.matches = old.matches
        /\ val.findings = old.findings /\ val.outcome = Decide(old.findings, manual)
  <2> DEFINE new == [old EXCEPT !.outcome = Decide(old.findings, manual)]
  <2>1. Decide(old.findings, manual) \in {"ACCEPTED", "NEEDS_REVIEW"}
    BY DEF Decide
  <2>2. /\ new \in Attempt
        /\ new.source = old.source /\ new.started_at = old.started_at
        /\ new.status = old.status /\ new.matches = old.matches
        /\ new.findings = old.findings /\ new.outcome = Decide(old.findings, manual)
    BY <1>1, <2>1 DEF Attempt
  <2>3. vals' = [vals EXCEPT ![d] = [vals[d] EXCEPT ![v] = new]]
    BY AttemptFacts DEF DecideInvoice
  <2> QED
    BY <2>2, <2>3
<1>3. ValsStep(d, val)
  BY <1>2, Rewritten
<1>4. "probable_duplicate_invoice" \in old.findings => val.outcome = "NEEDS_REVIEW"
  BY <1>2, DuplicatesAreHeld
<1>5. VerdictSound(d, val)
  <2>1. Reproducible(d, val)
    BY <1>1, <1>2, SearchAssumption DEF VerdictSound, Reproducible, SourceInvoice, Decide
  <2> QED
    BY <1>1, <1>2, <1>4, <2>1 DEF VerdictSound, Grounded, SawThePast, MatchesLive, SourceInvoice
<1>6. \A e \in Documents \ {d} : \A w \in DOMAIN vals[e] :
        OneSawTheOther(d, val, e, vals[e][w])
  BY <1>1, <1>2 DEF OneSawTheOther, SourceInvoice
<1> QED
  BY <1>3, <1>5, <1>6, ValsStepKeeps DEF DecideInvoice

-----------------------------------------------------------------------------
(* The search itself *)

\* The candidates of a search are the latest visible rows.
LEMMA CandidateFacts ==
  ASSUME VerdictIInv, NEW d \in Documents, NEW as_of \in Stamp,
         NEW c \in DuplicateCandidates(d, as_of)
  PROVE  /\ c \in Candidate /\ c.document # d
         /\ c.normalization \in Visible(c.document, as_of)
         /\ \A n \in Committed(c.document) :
              n > c.normalization => norms[c.document][n].committed_at >= as_of
<1>1. PICK e \in Documents \ {d} :
        /\ Visible(e, as_of) # {}
        /\ c = [document |-> e, normalization |-> Latest(Visible(e, as_of))]
  BY DEF DuplicateCandidates
<1>2. /\ Visible(e, as_of) \in SUBSET (1 .. Len(norms[e])) /\ Len(norms[e]) \in Nat
      /\ SearchTypeOK /\ StampsInOrder
  BY RowTypes DEF Visible, VerdictIInv
<1>3. PICK m \in Visible(e, as_of) :
        m = Latest(Visible(e, as_of)) /\ \A k \in Visible(e, as_of) : k <= m
  BY <1>1, <1>2, LatestIsMax
<1>4. c.document = e /\ c.normalization = m /\ m \in Nat /\ c \in Candidate
  BY <1>1, <1>2, <1>3 DEF Candidate
<1>5. ASSUME NEW n \in Committed(e), n > m
      PROVE  norms[e][n].committed_at >= as_of
  <2>1. n \notin Visible(e, as_of)
    BY <1>2, <1>3, <1>4, <1>5
  <2>2. /\ norms[e][n].completed_at \in Nat /\ norms[e][n].committed_at \in Nat
        /\ norms[e][n].completed_at <= norms[e][n].committed_at /\ as_of \in Nat
    BY <1>2, CommittedFacts, StampFacts
  <2> QED
    BY <2>1, <2>2 DEF Visible
<1> QED
  BY <1>1, <1>3, <1>4, <1>5

\* A current row that was completed in time is a candidate.
LEMMA CurrentRowIsCandidate ==
  ASSUME VerdictIInv, NEW d \in Documents, NEW as_of \in Stamp, NEW e \in Documents \ {d},
         NEW m \in Committed(e), IsCurrent(e, m), norms[e][m].completed_at <= as_of
  PROVE  [document |-> e, normalization |-> m] \in DuplicateCandidates(d, as_of)
<1>1. /\ Visible(e, as_of) \in SUBSET (1 .. Len(norms[e])) /\ Len(norms[e]) \in Nat
      /\ SearchTypeOK /\ StampsInOrder
  BY RowTypes DEF Visible, VerdictIInv
<1>2. m \in Visible(e, as_of) /\ \A k \in Visible(e, as_of) : k <= m
  BY DEF Visible, IsCurrent
<1>3. Latest(Visible(e, as_of)) = m
  BY <1>1, <1>2, LatestUnique
<1>4. /\ exts[e] # Null /\ exts[e].completed_at <= norms[e][m].completed_at
      /\ exts[e].completed_at \in Nat /\ norms[e][m].completed_at \in Nat /\ as_of \in Nat
  BY <1>1, CommittedFacts, StampFacts
<1>5. exts[e].completed_at <= as_of
  BY <1>4
<1> QED
  BY <1>2, <1>3, <1>4, <1>5 DEF DuplicateCandidates

\* A copy whose current row was completed in time is found.
LEMMA EvaluateKeeps ==
  ASSUME VerdictIInv, NEW d \in Documents, NEW v \in DOMAIN vals[d], Evaluate(d, v)
  PROVE  VerdictIInv'
<1> DEFINE old == vals[d][v]
           found == {c \in DuplicateCandidates(d, old.started_at) :
              SameInvoice(InvoiceOf(d, v), norms[c.document][c.normalization].invoice)}
<1>1. /\ old \in Attempt /\ VerdictSound(d, old) /\ old.status = "PROCESSING"
      /\ old.started_at \in Stamp /\ old.started_at \in Nat
      /\ old.source \in Committed(d) /\ InvoiceOf(d, v) = SourceInvoice(d, old)
      /\ SearchTypeOK /\ StampsInOrder
  BY AttemptFacts, StampFacts
     DEF Evaluate, Attempt, VerdictSound, Grounded, InvoiceOf, SourceInvoice, VerdictIInv
<1>2. PICK findings \in SUBSET ValidationRule :
        findings = RunRules(Context(d, InvoiceOf(d, v), found))
  BY DEF RunRules
<1>3. found \in SUBSET Candidate
  BY <1>1, CandidateFacts
<1>4. PICK val \in Attempt :
        /\ vals' = [vals EXCEPT ![d] = [vals[d] EXCEPT ![v] = val]]
        /\ val.source = old.source /\ val.started_at = old.started_at
        /\ val.status = "PROCESSING" /\ val.matches = found
        /\ val.findings = findings /\ val.outcome = old.outcome
  <2> DEFINE new == [old EXCEPT !.matches = found, !.findings = findings]
  <2>1. vals' = [vals EXCEPT ![d] = [vals[d] EXCEPT ![v] = new]]
    BY <1>2, AttemptFacts DEF Evaluate
  <2> HIDE DEF found
  <2>2. /\ new \in Attempt
        /\ new.source = old.source /\ new.started_at = old.started_at
        /\ new.status = "PROCESSING" /\ new.matches = found
        /\ new.findings = findings /\ new.outcome = old.outcome
    BY <1>1, <1>2, <1>3 DEF Attempt
  <2> QED
    BY <2>1, <2>2
<1>5. ValsStep(d, val)
  BY <1>4, Rewritten
<1>6. ASSUME NEW e \in Documents \ {d}, NEW m \in Committed(e), IsCurrent(e, m),
             norms[e][m].completed_at <= val.started_at,
             SameInvoice(SourceInvoice(d, val), norms[e][m].invoice)
      PROVE  val.matches # {}
  <2>1. [document |-> e, normalization |-> m] \in DuplicateCandidates(d, old.started_at)
    BY <1>1, <1>4, <1>6, CurrentRowIsCandidate
  <2>2. [document |-> e, normalization |-> m] \in found
    BY <1>1, <1>4, <1>6, <2>1 DEF SourceInvoice
  <2> QED
    BY <1>4, <2>2
<1>7. VerdictSound(d, val)
  <2>1. found # {} => "probable_duplicate_invoice" \in findings
    BY <1>2, DuplicatesAreFindings
  <2>2. Grounded(d, val)
    BY <1>1, <1>4, <2>1 DEF VerdictSound, Grounded
  <2>3. SawThePast(d, val)
    <3> SUFFICES ASSUME NEW e \in Documents \ {d}, NEW m \in Committed(e), IsCurrent(e, m),
                        norms[e][m].committed_at < val.started_at,
                        SameInvoice(SourceInvoice(d, val), norms[e][m].invoice)
                 PROVE  val.matches # {}
      BY DEF SawThePast
    <3>1. /\ norms[e][m].completed_at \in Nat /\ norms[e][m].committed_at \in Nat
          /\ norms[e][m].completed_at <= norms[e][m].committed_at
      BY <1>1, CommittedFacts, StampFacts
    <3>2. norms[e][m].completed_at <= val.started_at
      BY <1>1, <1>4, <3>1
    <3> QED
      BY <1>6, <3>2
  <2>4. MatchesLive(d, val)
    BY <1>1, <1>4, CandidateFacts DEF MatchesLive
  <2>5. Reproducible(d, val)
    <3>1. val.outcome # "ACCEPTED"
      BY <1>1, <1>4, SearchAssumption DEF VerdictSound, Grounded
    <3>2. SourceInvoice(d, val) = InvoiceOf(d, v)
      BY <1>1, <1>4 DEF SourceInvoice
    <3> QED
      BY <1>2, <1>4, <3>1, <3>2 DEF Reproducible
  <2> QED
    BY <2>2, <2>3, <2>4, <2>5 DEF VerdictSound
<1>8. ASSUME NEW e \in Documents \ {d}, NEW w \in DOMAIN vals[e]
      PROVE  OneSawTheOther(d, val, e, vals[e][w])
  <2> DEFINE other == vals[e][w]
             m == other.source
  <2> SUFFICES ASSUME IsCurrent(d, val.source), other.findings # Null, IsCurrent(e, m),
                      SameInvoice(SourceInvoice(d, val), SourceInvoice(e, other)),
                      val.matches = {}
               PROVE  other.matches # {}
    BY DEF OneSawTheOther
  <2>1. /\ m \in Committed(e) /\ other.started_at \in Nat
        /\ norms[e][m].committed_at <= other.started_at
        /\ SawThePast(e, other)
    BY AttemptFacts, StampFacts DEF VerdictSound, Grounded, Attempt
  <2>2. ~(norms[e][m].completed_at <= val.started_at)
    BY <1>6, <2>1 DEF SourceInvoice
  <2>3. /\ norms[e][m].completed_at \in Nat /\ norms[e][m].committed_at \in Nat
        /\ norms[e][m].completed_at <= norms[e][m].committed_at
    BY <1>1, <2>1, CommittedFacts, StampFacts
  <2>4. /\ norms[d][val.source].committed_at \in Nat
        /\ norms[d][val.source].committed_at <= val.started_at
    BY <1>1, <1>4, <1>7, CommittedFacts, StampFacts DEF VerdictSound, Grounded
  <2>5. norms[d][val.source].committed_at < other.started_at
    BY <1>1, <1>4, <2>1, <2>2, <2>3, <2>4
  <2>6. SourceInvoice(d, val) \in Invoices /\ SourceInvoice(e, other) \in Invoices
    BY <1>1, <1>4, <2>1, CommittedFacts DEF SourceInvoice
  <2>7. SameInvoice(SourceInvoice(e, other), norms[d][val.source].invoice)
    BY <2>6, SameInvoiceSymmetric DEF SourceInvoice
  <2> QED
    BY <1>1, <1>4, <2>1, <2>5, <2>7 DEF SawThePast
<1> QED
  BY <1>5, <1>7, <1>8, ValsStepKeeps DEF Evaluate

-----------------------------------------------------------------------------

LEMMA InitSound ==
  Init => VerdictIInv
<1> SUFFICES ASSUME Init PROVE VerdictIInv
  OBVIOUS
<1>1. 0 \in Stamp
  BY SearchAssumption DEF Stamp
<1>2. /\ \A d \in Documents : norms[d] = <<>> /\ vals[d] = <<>> /\ exts[d] = Null
      /\ SearchTypeOK
  BY <1>1 DEF Init, SearchTypeOK
<1> QED
  BY <1>2 DEF VerdictIInv, StampsInOrder, SearchesAgree

\* Tick, Extract and stuttering leave the rows of normalizations and
\* validations alone.
LEMMA TimePasses ==
  ASSUME VerdictIInv, UNCHANGED <<norms, vals>>, SearchTypeOK', now <= now',
         \A d \in Documents :
           /\ exts[d] # Null => exts'[d] = exts[d]
           /\ exts'[d] # Null => exts'[d].completed_at <= now'
  PROVE  VerdictIInv'
<1>1. now \in Nat /\ now' \in Nat /\ SearchTypeOK /\ StampsInOrder
  BY StampFacts DEF VerdictIInv, SearchTypeOK
<1>2. \A d \in Documents : Committed(d)' = Committed(d)
  BY DEF Committed
<1>3. ASSUME NEW d \in Documents, NEW n \in DOMAIN norms[d]
      PROVE  /\ norms[d][n].completed_at <= now'
             /\ n \in Committed(d) => norms[d][n].committed_at <= now'
  <2>1. norms[d][n].completed_at \in Nat /\ norms[d][n].completed_at <= now
    BY <1>1, RowTypes, StampFacts DEF StampsInOrder, NormalizationRow
  <2>2. n \in Committed(d) => norms[d][n].committed_at \in Nat /\ norms[d][n].committed_at <= now
    BY <1>1, CommittedFacts, StampFacts
  <2> QED
    BY <1>1, <2>1, <2>2
<1>4. StampsInOrder'
  BY <1>1, <1>2, <1>3 DEF StampsInOrder
<1>5. ASSUME NEW d \in Documents, NEW v \in DOMAIN vals[d]
      PROVE  VerdictSound(d, vals[d][v])'
  <2>1. VerdictSound(d, vals[d][v])
    BY DEF VerdictIInv
  <2>2. vals[d][v].started_at \in Nat
    BY AttemptFacts, StampFacts DEF Attempt
  <2>3. Grounded(d, vals[d][v])'
    BY <1>1, <1>2, <2>1, <2>2 DEF VerdictSound, Grounded
  <2>4. SawThePast(d, vals[d][v])' /\ MatchesLive(d, vals[d][v])'
    BY <2>1 DEF VerdictSound, SawThePast, MatchesLive, SourceInvoice, IsCurrent, Committed, Visible
  <2>5. PICK val : val = vals[d][v]
    OBVIOUS
  <2>6. exts'[d] = exts[d]
    BY <1>1, <2>1, CommittedFacts DEF VerdictSound, Grounded
  <2>7. Reproducible(d, val)'
    BY <2>1, <2>5, <2>6, StaysReproducible DEF VerdictSound
  <2> QED
    BY <2>3, <2>4, <2>5, <2>7 DEF VerdictSound
<1>6. SearchesAgree'
  <2> SUFFICES ASSUME NEW d \in Documents, NEW e \in Documents, d # e,
                      NEW v \in DOMAIN vals[d], NEW w \in DOMAIN vals[e]
               PROVE  OneSawTheOther(d, vals[d][v], e, vals[e][w])'
    BY DEF SearchesAgree
  <2>1. OneSawTheOther(d, vals[d][v], e, vals[e][w])
    BY DEF VerdictIInv, SearchesAgree
  <2> QED
    BY <2>1 DEF OneSawTheOther, SourceInvoice, IsCurrent, Committed
<1> QED
  BY <1>4, <1>5, <1>6 DEF VerdictIInv

LEMMA TickKeeps ==
  ASSUME VerdictIInv, Tick
  PROVE  VerdictIInv'
<1>1. now \in Nat /\ now' \in Stamp /\ now <= now' /\ now' \in Nat
  BY SearchAssumption, StampFacts DEF VerdictIInv, SearchTypeOK, Tick, Stamp
<1>2. SearchTypeOK'
  BY <1>1 DEF Tick, VerdictIInv, SearchTypeOK
<1>3. ASSUME NEW d \in Documents, exts[d] # Null
      PROVE  exts[d].completed_at <= now'
  <2>1. exts[d].completed_at \in Nat /\ exts[d].completed_at <= now
    BY <1>3, StampFacts DEF VerdictIInv, SearchTypeOK, StampsInOrder
  <2> QED
    BY <1>1, <2>1
<1> QED
  BY <1>1, <1>2, <1>3, TimePasses DEF Tick

LEMMA ExtractKeeps ==
  ASSUME VerdictIInv, NEW d \in Documents, NEW confidence \in Confidences,
         Extract(d, confidence)
  PROVE  VerdictIInv'
<1>1. now \in Nat /\ now \in Stamp /\ now' = now /\ now <= now'
  BY StampFacts DEF VerdictIInv, SearchTypeOK, Extract
<1>2. SearchTypeOK'
  BY <1>1 DEF Extract, VerdictIInv, SearchTypeOK
<1>3. /\ exts'[d] = [completed_at |-> now, confidence |-> confidence] /\ exts[d] = Null
      /\ \A e \in Documents \ {d} : exts'[e] = exts[e]
  BY DEF Extract, VerdictIInv, SearchTypeOK
<1> QED
  BY <1>1, <1>2, <1>3, TimePasses DEF Extract, VerdictIInv, StampsInOrder

\* One step of each actor.
LEMMA SearchStepKeeps ==
  ASSUME VerdictIInv, Next
  PROVE  VerdictIInv'
<1>1. CASE Tick
  BY <1>1, TickKeeps
<1>2. ASSUME NEW d \in Documents, NEW inv \in Invoices, Normalize(d, inv) \/ Project(d, inv)
      PROVE  VerdictIInv'
  <2>1. CASE Normalize(d, inv)
    <3>1. Committed(d) = DOMAIN norms[d]
      BY <2>1 DEF Normalize, Committed
    <3> QED
      BY <2>1, <3>1, StampedKeeps DEF Normalize
  <2>2. CASE Project(d, inv)
    <3>1. PICK v \in DOMAIN vals[d] : TRUE
      BY <2>2 DEF Project
    <3>2. vals[d][v].source \in Committed(d) /\ SearchTypeOK /\ StampsInOrder
      BY AttemptFacts DEF VerdictSound, Grounded, VerdictIInv
    <3>3. exts[d] # Null
      BY <3>2, CommittedFacts
    <3> QED
      BY <2>2, <3>3, StampedKeeps DEF Project, InFlight
  <2> QED
    BY <1>2, <2>1, <2>2
<1>3. ASSUME NEW d \in Documents, NEW v \in DOMAIN vals[d],
             \/ Evaluate(d, v) \/ CompleteValidation(d, v) \/ ValidationFails(d, v)
             \/ \E manual \in BOOLEAN : DecideInvoice(d, v, manual)
      PROVE  VerdictIInv'
  BY <1>3, EvaluateKeeps, CompleteKeeps, FailsKeeps, DecideKeeps
<1> QED
  BY <1>1, <1>2, <1>3, ExtractKeeps, CommitKeeps, RaisesKeeps, StartKeeps DEF Next

LEMMA SearchStutterKeeps ==
  ASSUME VerdictIInv, UNCHANGED vars
  PROVE  VerdictIInv'
<1>1. now \in Nat /\ now <= now' /\ SearchTypeOK'
  BY StampFacts DEF VerdictIInv, SearchTypeOK, vars
<1> QED
  BY <1>1, TimePasses DEF vars, VerdictIInv, StampsInOrder

LEMMA VerdictInvariant ==
  Spec => []VerdictIInv
<1>1. VerdictIInv /\ [Next]_vars => VerdictIInv'
  BY SearchStepKeeps, SearchStutterKeeps
<1> QED
  BY InitSound, <1>1, PTL DEF Spec

\* The invariant of the searches: what each has seen of the others, however
\* their reads and commits interleave.
THEOREM SearchInvariant ==
  Spec => []SearchIInv
<1>1. VerdictIInv => SearchIInv
  BY DEF VerdictIInv, VerdictSound, SearchIInv, SearchSound
<1> QED
  BY <1>1, VerdictInvariant, PTL

\* A match is a finished invoice of another document that no correction had
\* replaced when the search began.
THEOREM MatchesNeverStale ==
  Spec => []MatchesAreLive
<1>1. VerdictIInv => MatchesAreLive
  BY DEF VerdictIInv, VerdictSound, MatchesAreLive
<1> QED
  BY <1>1, VerdictInvariant, PTL

\* Of two decided documents with one invoice, at least one went to a human.
THEOREM DuplicatesNeverBothAccepted ==
  Spec => []DuplicatesAreReviewed
<1>1. VerdictIInv => DuplicatesAreReviewed
  <2> SUFFICES ASSUME VerdictIInv, NEW d \in Documents, NEW e \in Documents, d # e,
                      Decided(d), Decided(e),
                      SameInvoice(CurrentInvoice(d), CurrentInvoice(e))
               PROVE  "NEEDS_REVIEW" \in CurrentOutcomes(d) \cup CurrentOutcomes(e)
    BY DEF DuplicatesAreReviewed
  <2>1. PICK v \in DecidedAttempts(d) : TRUE
    BY DEF Decided
  <2>2. PICK w \in DecidedAttempts(e) : TRUE
    BY DEF Decided
  <2>3. ASSUME NEW x \in Documents, Decided(x)
        PROVE  IsCurrent(x, Current(x))
    <3>1. Committed(x) \in SUBSET (1 .. Len(norms[x])) /\ Len(norms[x]) \in Nat
      BY RowTypes DEF VerdictIInv
    <3> QED
      BY <2>3, <3>1, LatestIsMax DEF Decided, IsCurrent, Current
  <2>4. /\ v \in DOMAIN vals[d] /\ vals[d][v].source = Current(d) /\ vals[d][v].outcome # Null
        /\ w \in DOMAIN vals[e] /\ vals[e][w].source = Current(e) /\ vals[e][w].outcome # Null
    BY DEF DecidedAttempts
  <2>5. /\ vals[d][v].findings # Null
        /\ vals[d][v].matches # {} => vals[d][v].outcome = "NEEDS_REVIEW"
        /\ vals[e][w].findings # Null
        /\ vals[e][w].matches # {} => vals[e][w].outcome = "NEEDS_REVIEW"
    BY <2>4, AttemptFacts DEF VerdictSound, Grounded
  <2>6. vals[d][v].matches # {} \/ vals[e][w].matches # {}
    <3>1. OneSawTheOther(d, vals[d][v], e, vals[e][w])
      BY <2>4, AttemptFacts
    <3> QED
      BY <2>3, <2>4, <2>5, <3>1 DEF OneSawTheOther, SourceInvoice, CurrentInvoice
  <2> QED
    BY <2>4, <2>5, <2>6 DEF CurrentOutcomes
<1> QED
  BY <1>1, VerdictInvariant, PTL

-----------------------------------------------------------------------------
(* Amounts *)

LEMMA AmountFacts ==
  ASSUME NEW a \in Amount
  PROVE  /\ a # Null => a \in Int
         /\ a \in Int => a # Null
  BY SearchAssumption DEF Amount

\* An invoice's lines.
LEMMA LineFacts ==
  ASSUME NEW inv \in NormalizedInvoice
  PROVE  /\ Lines(inv) = 1 .. Len(inv.line_items) /\ Len(inv.line_items) \in Nat
         /\ IsFiniteSet(Lines(inv)) /\ Cardinality(Lines(inv)) = Len(inv.line_items)
         /\ \A i \in Lines(inv) : inv.line_items[i] \in NormalizedLineItem
<1>1. inv.line_items \in Seq(NormalizedLineItem)
  BY DEF NormalizedInvoice
<1>2. Lines(inv) = 1 .. Len(inv.line_items) /\ Len(inv.line_items) \in Nat
      /\ \A i \in Lines(inv) : inv.line_items[i] \in NormalizedLineItem
  BY <1>1 DEF Lines
<1>3. IsFiniteSet(1 .. Len(inv.line_items))
      /\ Cardinality(1 .. Len(inv.line_items)) = Len(inv.line_items)
  <2>1. PICK n \in Nat : n = Len(inv.line_items)
    BY <1>2
  <2>2. IsFiniteSet(1 .. n) /\ Cardinality(1 .. n) = IF 1 > n THEN 0 ELSE n - 1 + 1
    BY FS_Interval
  <2>3. Cardinality(1 .. n) = n
    BY <2>2
  <2> QED
    BY <2>1, <2>2, <2>3
<1> QED
  BY <1>2, <1>3

\* Which condition each rule's name stands for.
LEMMA FiresFacts ==
  ASSUME NEW ctx
  PROVE  /\ Fires("missing_required_field", ctx) <=> MissingRequiredField(ctx)
         /\ Fires("normalization_error", ctx) <=> NormalizationErrors(ctx)
         /\ Fires("due_date_before_invoice_date", ctx) <=> DueDateBeforeInvoiceDate(ctx)
         /\ Fires("due_date_far_after_invoice_date", ctx) <=> DueDateFarAfterInvoiceDate(ctx)
         /\ Fires("invoice_date_in_future", ctx) <=> InvoiceDateInFuture(ctx)
         /\ Fires("invoice_date_implausibly_old", ctx) <=> InvoiceDateImplausiblyOld(ctx)
         /\ Fires("totals_do_not_reconcile", ctx) <=> TotalsDoNotReconcile(ctx)
         /\ Fires("line_item_amount_mismatch", ctx) <=> LineItemAmountMismatch(ctx)
         /\ Fires("line_items_do_not_sum", ctx) <=> LineItemsDoNotSum(ctx)
         /\ Fires("line_item_sum_not_checked", ctx) <=> LineItemSumNotChecked(ctx)
         /\ Fires("low_confidence_critical_field", ctx) <=> LowConfidenceCriticalField(ctx)
         /\ Fires("critical_field_confidence_unavailable", ctx) <=> CriticalFieldConfidenceUnavailable(ctx)
         /\ Fires("probable_duplicate_invoice", ctx) <=> ProbableDuplicateInvoice(ctx)
         /\ Fires("high_value_invoice", ctx) <=> HighValueInvoice(ctx)
         /\ Fires("no_line_items", ctx) <=> NoLineItems(ctx)
<1>1. Fires("missing_required_field", ctx) <=> MissingRequiredField(ctx)
  BY Zenon DEF Fires
<1>2. Fires("normalization_error", ctx) <=> NormalizationErrors(ctx)
  BY Zenon DEF Fires
<1>3. Fires("due_date_before_invoice_date", ctx) <=> DueDateBeforeInvoiceDate(ctx)
  BY Zenon DEF Fires
<1>4. Fires("due_date_far_after_invoice_date", ctx) <=> DueDateFarAfterInvoiceDate(ctx)
  BY Zenon DEF Fires
<1>5. Fires("invoice_date_in_future", ctx) <=> InvoiceDateInFuture(ctx)
  BY Zenon DEF Fires
<1>6. Fires("invoice_date_implausibly_old", ctx) <=> InvoiceDateImplausiblyOld(ctx)
  BY Zenon DEF Fires
<1>7. Fires("totals_do_not_reconcile", ctx) <=> TotalsDoNotReconcile(ctx)
  BY Zenon DEF Fires
<1>8. Fires("line_item_amount_mismatch", ctx) <=> LineItemAmountMismatch(ctx)
  BY Zenon DEF Fires
<1>9. Fires("line_items_do_not_sum", ctx) <=> LineItemsDoNotSum(ctx)
  BY Zenon DEF Fires
<1>10. Fires("line_item_sum_not_checked", ctx) <=> LineItemSumNotChecked(ctx)
  BY Zenon DEF Fires
<1>11. Fires("low_confidence_critical_field", ctx) <=> LowConfidenceCriticalField(ctx)
  BY Zenon DEF Fires
<1>12. Fires("critical_field_confidence_unavailable", ctx) <=> CriticalFieldConfidenceUnavailable(ctx)
  BY Zenon DEF Fires
<1>13. Fires("probable_duplicate_invoice", ctx) <=> ProbableDuplicateInvoice(ctx)
  BY Zenon DEF Fires
<1>14. Fires("high_value_invoice", ctx) <=> HighValueInvoice(ctx)
  BY Zenon DEF Fires
<1>15. Fires("no_line_items", ctx) <=> NoLineItems(ctx)
  BY Zenon DEF Fires
<1> QED
  BY <1>1, <1>2, <1>3, <1>4, <1>5, <1>6, <1>7, <1>8, <1>9, <1>10, <1>11, <1>12, <1>13, <1>14, <1>15

\* The rules that the theorems on amounts are about.
LEMMA RuleFacts ==
  ASSUME NEW ctx
  PROVE  /\ "missing_required_field" \in RunRules(ctx) <=> MissingRequiredField(ctx)
         /\ "totals_do_not_reconcile" \in RunRules(ctx) <=> TotalsDoNotReconcile(ctx)
         /\ "line_item_amount_mismatch" \in RunRules(ctx) <=> LineItemAmountMismatch(ctx)
         /\ "line_items_do_not_sum" \in RunRules(ctx) <=> LineItemsDoNotSum(ctx)
  BY FiresFacts DEF RunRules, ValidationRule

LEMMA LineSumIsInt ==
  ASSUME NEW inv \in NormalizedInvoice, LineTotalsKnown(inv)
  PROVE  LineSum(inv) \in Int
<1> DEFINE w == [i \in Lines(inv) |-> inv.line_items[i].line_total]
<1>1. w \in [Lines(inv) -> Int]
  <2>1. ASSUME NEW i \in Lines(inv)
        PROVE  inv.line_items[i].line_total \in Int
    BY LineFacts, AmountFacts DEF NormalizedLineItem, LineTotalsKnown
  <2> QED
    BY <2>1
<1>2. IsFiniteSet(Lines(inv))
  BY LineFacts
<1> HIDE DEF w
<1>3. SumFunction(w) \in Int
  BY <1>1, <1>2, SumIsInt
<1> QED
  BY <1>3 DEF w, LineSum

\* An invoice whose total is stated, whose totals reconcile and whose lines sum.
LEMMA ReconciledAddsUp ==
  ASSUME NEW inv \in NormalizedInvoice, NEW ctx, ctx.invoice = inv,
         ~MissingRequiredField(ctx), ~TotalsDoNotReconcile(ctx), ~LineItemsDoNotSum(ctx),
         Lines(inv) # {}, LineTotalsKnown(inv)
  PROVE  LinesAddUp(inv)
<1>1. inv.total_amount # Null
  BY DEF MissingRequiredField, Present, CRITICAL_FIELDS
<1>2. inv.total_amount \in Int /\ inv.tax_amount \in Amount /\ inv.subtotal \in Amount
  BY <1>1, AmountFacts DEF NormalizedInvoice
<1>3. PICK n \in Nat : n = Len(inv.line_items) /\ n > 0
  BY LineFacts
<1>4. PICK sum \in Int : sum = LineSum(inv)
  BY LineSumIsInt
<1>5. PICK total \in Int : total = inv.total_amount
  BY <1>2
<1>6. PICK tax \in Int : tax = OrZero(inv.tax_amount)
  BY <1>2, AmountFacts DEF OrZero
<1>7. LineSumTolerance(n) = 10 * n
  BY <1>3 DEF LineSumTolerance, Cent, RECONCILIATION_TOLERANCE
<1>8. ASSUME inv.subtotal # Null PROVE LinesAddUp(inv)
  <2>1. PICK sub \in Int : sub = inv.subtotal
    BY <1>2, <1>8, AmountFacts
  <2>2. LineSumTarget(inv) = sub
    BY <1>8, <2>1 DEF LineSumTarget
  <2>3. sub # Null
    BY <1>8, <2>1
  <2>4. Abs(sum - sub) <= 10 * n
    BY <1>3, <1>4, <1>7, <2>2, <2>3 DEF LineItemsDoNotSum, Off, Abs
  <2>5. CASE inv.tax_amount = Null
    BY <1>3, <1>4, <1>8, <2>1, <2>4, <2>5 DEF LinesAddUp, Cent
  <2>6. CASE inv.tax_amount # Null
    <3>1. inv.tax_amount = tax
      BY <1>6, <2>6 DEF OrZero
    <3>2. Abs(sub + tax - total) <= 10
      BY <1>1, <1>5, <1>8, <2>1, <2>6, <3>1
         DEF TotalsDoNotReconcile, Off, Abs, RECONCILIATION_TOLERANCE, Cent
    <3>3. Abs(sum + tax - total) <= 10 * (n + 1)
      BY <2>4, <3>2 DEF Abs
    <3> QED
      BY <1>3, <1>4, <1>5, <1>6, <3>3 DEF LinesAddUp, Cent
  <2> QED
    BY <2>5, <2>6
<1>9. ASSUME inv.subtotal = Null PROVE LinesAddUp(inv)
  <2>1. LineSumTarget(inv) = total - tax
    <3>1. CASE inv.tax_amount = Null
      <4>1. tax = 0
        BY <1>6, <3>1 DEF OrZero
      <4>2. LineSumTarget(inv) = total
        BY <1>5, <1>9, <3>1 DEF LineSumTarget
      <4> QED
        BY <4>1, <4>2
    <3>2. CASE inv.tax_amount # Null
      <4>1. tax = inv.tax_amount
        BY <1>6, <3>2 DEF OrZero
      <4> QED
        BY <1>1, <1>5, <1>9, <3>2, <4>1 DEF LineSumTarget
    <3> QED
      BY <3>1, <3>2
  <2>2. total - tax # Null
    BY SearchAssumption
  <2>3. Abs(sum - (total - tax)) <= 10 * n
    BY <1>3, <1>4, <1>7, <2>1, <2>2 DEF LineItemsDoNotSum, Off, Abs
  <2>4. Abs(sum + tax - total) <= 10 * (n + 1)
    BY <2>3 DEF Abs
  <2> QED
    BY <1>3, <1>4, <1>5, <1>6, <2>4 DEF LinesAddUp, Cent
<1> QED
  BY <1>8, <1>9

LEMMA InvoiceFacts ==
  ASSUME VerdictIInv, NEW d \in Documents, NEW v \in DOMAIN vals[d]
  PROVE  /\ InvoiceOf(d, v) = SourceInvoice(d, vals[d][v])
         /\ InvoiceOf(d, v) \in NormalizedInvoice
         /\ Grounded(d, vals[d][v]) /\ Reproducible(d, vals[d][v])
<1>1. Grounded(d, vals[d][v]) /\ Reproducible(d, vals[d][v]) /\ SearchTypeOK /\ StampsInOrder
  BY DEF VerdictIInv, VerdictSound
<1>2. InvoiceOf(d, v) \in Invoices
  BY <1>1, CommittedFacts DEF Grounded, InvoiceOf
<1> QED
  BY <1>1, <1>2, SearchAssumption DEF InvoiceOf, SourceInvoice

\* An accepted invoice's lines and totals were compared, as far as they are
\* there to be compared, and agree.
THEOREM AcceptedAddsUp ==
  Spec => []AcceptedInvoiceAddsUp
<1>1. ASSUME VerdictIInv, NEW d \in Documents, NEW v \in DOMAIN vals[d],
             vals[d][v].outcome = "ACCEPTED", NEW inv, inv = InvoiceOf(d, v)
      PROVE  /\ Lines(inv) # {} /\ LineTotalsKnown(inv) => LinesAddUp(inv)
             /\ TotalsAddUp(inv)
  <2>1. inv \in NormalizedInvoice
    BY <1>1, InvoiceFacts
  <2>2. PICK ctx : ctx = Context(d, inv, vals[d][v].matches)
    OBVIOUS
  <2>3. ctx.invoice = inv
    BY <2>2 DEF Context
  <2>4. vals[d][v].findings = RunRules(ctx) /\ \A rule \in RunRules(ctx) : ~TriggersReview(rule)
    BY <1>1, <2>2, InvoiceFacts, SearchAssumption DEF Grounded, Reproducible
  <2>5. ~MissingRequiredField(ctx) /\ ~TotalsDoNotReconcile(ctx) /\ ~LineItemsDoNotSum(ctx)
    BY <2>4, RuleFacts DEF TriggersReview, NonGating
  <2>6. inv.total_amount # Null
    BY <2>3, <2>5 DEF MissingRequiredField, Present, CRITICAL_FIELDS
  <2>7. TotalsAddUp(inv)
    BY <2>1, <2>3, <2>5, <2>6, AmountFacts
       DEF TotalsAddUp, TotalsDoNotReconcile, NormalizedInvoice, Off, Abs,
           RECONCILIATION_TOLERANCE, Cent
  <2> QED
    BY <2>1, <2>3, <2>5, <2>7, ReconciledAddsUp
<1>2. VerdictIInv => AcceptedInvoiceAddsUp
  BY <1>1 DEF AcceptedInvoiceAddsUp
<1> QED
  BY <1>2, VerdictInvariant, PTL

-----------------------------------------------------------------------------
(* Rounding *)

LEMMA RoundIsClose ==
  ASSUME NEW a \in Int
  PROVE  Round(a) \in Int /\ Round(a) - a \in -5 .. 5
<1>1. (a + 5) \div 10 \in Int /\ 10 * ((a + 5) \div 10) <= a + 5
      /\ a + 5 < 10 * ((a + 5) \div 10) + 10
  OBVIOUS
<1>2. Round(a) = ((a + 5) \div 10) * 10
  BY DEF Round, Cent
<1>3. PICK q \in Int : q = (a + 5) \div 10
  BY <1>1
<1> QED
  BY <1>1, <1>2, <1>3

LEMMA RoundedLine ==
  ASSUME NEW inv \in NormalizedInvoice, Rounded(inv), NEW i \in Lines(inv)
  PROVE  /\ Exact(inv, i) \in Int /\ inv.line_items[i].line_total \in Int
         /\ inv.line_items[i].line_total - Exact(inv, i) \in -5 .. 5
         /\ Exact(inv, i) = inv.line_items[i].quantity * inv.line_items[i].unit_price
<1>1. inv.line_items[i] \in NormalizedLineItem
  BY LineFacts
<1>2. inv.line_items[i].quantity \in Int /\ inv.line_items[i].unit_price \in Int
  BY <1>1, AmountFacts DEF Rounded, NormalizedLineItem
<1>3. PICK q \in Int, p \in Int : q = inv.line_items[i].quantity /\ p = inv.line_items[i].unit_price
  BY <1>2
<1>4. Exact(inv, i) = q * p
  BY <1>3 DEF Exact
<1>5. PICK qp \in Int : qp = q * p
  BY <1>3
<1>6. Round(qp) \in Int /\ Round(qp) - qp \in -5 .. 5
  BY RoundIsClose
<1>7. inv.line_items[i].line_total = Round(qp)
  BY <1>4, <1>5 DEF Rounded
<1> QED
  BY <1>3, <1>4, <1>5, <1>6, <1>7

\* The lines' sum strays from the exact one by half a cent for each line.
LEMMA RoundedSum ==
  ASSUME NEW inv \in NormalizedInvoice, Rounded(inv)
  PROVE  /\ LineSum(inv) \in Int /\ ExactSum(inv) \in Int
         /\ LineSum(inv) - ExactSum(inv) \in -(5 * Len(inv.line_items)) .. 5 * Len(inv.line_items)
<1> DEFINE printed == [i \in Lines(inv) |-> inv.line_items[i].line_total]
           exact == [i \in Lines(inv) |-> Exact(inv, i)]
<1>1. printed \in [Lines(inv) -> Int] /\ exact \in [Lines(inv) -> Int]
  BY RoundedLine
<1>2. \A i \in Lines(inv) : printed[i] - exact[i] \in -5 .. 5
  BY RoundedLine
<1>3. IsFiniteSet(Lines(inv)) /\ Cardinality(Lines(inv)) = Len(inv.line_items)
  BY LineFacts
<1>4. LineSum(inv) = SumFunction(printed) /\ ExactSum(inv) = SumFunction(exact)
  BY DEF LineSum, ExactSum
<1> HIDE DEF printed, exact
<1>5. SumFunction(printed) \in Int /\ SumFunction(exact) \in Int
  BY <1>1, <1>3, SumIsInt
<1>6. SumFunction(printed) - SumFunction(exact)
        \in -(5 * Cardinality(Lines(inv))) .. 5 * Cardinality(Lines(inv))
  BY <1>1, <1>2, <1>3, SumsStayClose
<1> QED
  BY <1>3, <1>4, <1>5, <1>6

LEMMA RoundingFiresNothing ==
  ASSUME NEW inv \in NormalizedInvoice, Rounded(inv), NEW ctx, ctx.invoice = inv
  PROVE  ~TotalsDoNotReconcile(ctx) /\ ~LineItemAmountMismatch(ctx) /\ ~LineItemsDoNotSum(ctx)
<1>1. PICK n \in Nat : n = Len(inv.line_items) /\ n > 0
  BY LineFacts DEF Rounded
<1>2. PICK sum \in Int : sum = LineSum(inv)
  BY RoundedSum
<1>3. PICK exact \in Int : exact = ExactSum(inv) /\ sum - exact \in -(5 * n) .. 5 * n
  BY <1>1, <1>2, RoundedSum
<1>4. PICK sub \in Int : sub = Round(exact) /\ sub - exact \in -5 .. 5
  BY RoundIsClose
<1>5. /\ inv.subtotal \in {Null, sub} /\ inv.total_amount = sub + OrZero(inv.tax_amount)
      /\ inv.tax_amount \in Amount
  BY <1>3, <1>4 DEF Rounded, NormalizedInvoice
<1>6. sub # Null
  BY SearchAssumption
<1>7. ~TotalsDoNotReconcile(ctx)
  <2> SUFFICES ASSUME inv.subtotal # Null, inv.tax_amount # Null
               PROVE  ~Off(inv.subtotal + inv.tax_amount, inv.total_amount, RECONCILIATION_TOLERANCE)
    BY DEF TotalsDoNotReconcile
  <2>1. PICK tax \in Int : tax = inv.tax_amount
    BY <1>5, AmountFacts
  <2>2. inv.subtotal = sub /\ inv.total_amount = sub + tax
    BY <1>5, <2>1 DEF OrZero
  <2>3. Abs((sub + tax) - (sub + tax)) = 0
    BY DEF Abs
  <2> QED
    BY <2>1, <2>2, <2>3 DEF Off, RECONCILIATION_TOLERANCE, Cent
<1>8. ~LineItemAmountMismatch(ctx)
  <2> SUFFICES ASSUME NEW i \in Lines(inv)
               PROVE  ~Off(inv.line_items[i].quantity * inv.line_items[i].unit_price,
                           inv.line_items[i].line_total, RECONCILIATION_TOLERANCE)
    BY DEF LineItemAmountMismatch
  <2>1. PICK e \in Int, t \in Int :
          /\ e = inv.line_items[i].quantity * inv.line_items[i].unit_price
          /\ t = inv.line_items[i].line_total /\ t - e \in -5 .. 5
    BY RoundedLine
  <2>2. Abs(e - t) <= 10
    BY <2>1 DEF Abs
  <2> QED
    BY <2>1, <2>2 DEF Off, RECONCILIATION_TOLERANCE, Cent, Abs
<1>9. ~LineItemsDoNotSum(ctx)
  <2>1. LineSumTarget(inv) # Null => LineSumTarget(inv) = sub
    <3>1. CASE inv.subtotal # Null
      BY <1>5, <3>1 DEF LineSumTarget
    <3>2. CASE inv.subtotal = Null /\ inv.tax_amount # Null
      <4>1. PICK tax \in Int : tax = inv.tax_amount /\ inv.total_amount = sub + tax
        BY <1>5, <3>2, AmountFacts DEF OrZero
      <4>2. sub + tax # Null /\ (sub + tax) - tax = sub
        BY SearchAssumption
      <4> QED
        BY <3>2, <4>1, <4>2 DEF LineSumTarget
    <3>3. CASE inv.subtotal = Null /\ inv.tax_amount = Null
      <4>1. inv.total_amount = sub
        BY <1>5, <3>3 DEF OrZero
      <4> QED
        BY <1>6, <3>3, <4>1 DEF LineSumTarget
    <3> QED
      BY <3>1, <3>2, <3>3
  <2>2. LineSumTolerance(n) = 10 * n
    BY <1>1 DEF LineSumTolerance, Cent, RECONCILIATION_TOLERANCE
  <2>3. Abs(sum - sub) <= 10 * n
    <3>1. -(5 * n) <= sum - exact /\ sum - exact <= 5 * n
      BY <1>1, <1>3
    <3>2. -5 <= sub - exact /\ sub - exact <= 5 /\ 5 * n >= 5
      BY <1>1, <1>4
    <3>3. -(10 * n) <= sum - sub /\ sum - sub <= 10 * n
      BY <3>1, <3>2
    <3> QED
      BY <3>3 DEF Abs
  <2>4. Abs(sum - sub) \in Int
    BY DEF Abs
  <2> QED
    BY <1>1, <1>2, <2>1, <2>2, <2>3, <2>4 DEF LineItemsDoNotSum, Off
<1> QED
  BY <1>7, <1>8, <1>9

\* An honest vendor's rounding is never taken for a mistake.
THEOREM RoundingTolerated ==
  Spec => []RoundingIsTolerated
<1>1. ASSUME VerdictIInv, NEW d \in Documents, NEW v \in DOMAIN vals[d],
             Evaluated(d, v), Rounded(InvoiceOf(d, v))
      PROVE  vals[d][v].findings \cap
               {"totals_do_not_reconcile", "line_item_amount_mismatch", "line_items_do_not_sum"} = {}
  <2>1. PICK inv \in NormalizedInvoice : inv = InvoiceOf(d, v)
    BY <1>1, InvoiceFacts
  <2>2. PICK ctx : ctx = Context(d, inv, vals[d][v].matches)
    OBVIOUS
  <2>3. ctx.invoice = inv
    BY <2>2 DEF Context
  <2>4. vals[d][v].findings = RunRules(ctx)
    BY <1>1, <2>1, <2>2, InvoiceFacts DEF Reproducible, Evaluated
  <2>5. ~TotalsDoNotReconcile(ctx) /\ ~LineItemAmountMismatch(ctx) /\ ~LineItemsDoNotSum(ctx)
    BY <1>1, <2>1, <2>3, RoundingFiresNothing
  <2>6. /\ "totals_do_not_reconcile" \notin RunRules(ctx)
        /\ "line_item_amount_mismatch" \notin RunRules(ctx)
        /\ "line_items_do_not_sum" \notin RunRules(ctx)
    BY <2>5, RuleFacts
  <2> QED
    BY <2>4, <2>6
<1>2. VerdictIInv => RoundingIsTolerated
  BY <1>1 DEF RoundingIsTolerated
<1> QED
  BY <1>2, VerdictInvariant, PTL

-----------------------------------------------------------------------------
(* Credit notes *)

LEMMA NegatedFacts ==
  ASSUME NEW a \in Amount
  PROVE  /\ Negated(a) \in Amount
         /\ a = Null <=> Negated(a) = Null
         /\ a # Null => a \in Int /\ Negated(a) \in Int /\ Negated(a) = 0 - a
<1>1. CASE a = Null
  BY <1>1 DEF Negated, Amount
<1>2. CASE a # Null
  <2>1. a \in Int /\ Negated(a) = 0 - a /\ 0 - a \in Int
    BY <1>2 DEF Negated, Amount
  <2> QED
    BY <1>2, <2>1, SearchAssumption DEF Amount
<1> QED
  BY <1>1, <1>2

\* Two lines, and two invoices, that differ in the signs of their amounts only.
MirroredLine(item, neg) ==
  /\ item.quantity \in Amount /\ item.unit_price \in Amount /\ item.line_total \in Amount
  /\ neg.quantity = item.quantity
  /\ neg.unit_price = Negated(item.unit_price)
  /\ neg.line_total = Negated(item.line_total)

Mirrored(inv, neg) ==
  /\ inv.subtotal \in Amount /\ inv.tax_amount \in Amount /\ inv.total_amount \in Amount
  /\ neg.subtotal = Negated(inv.subtotal) /\ neg.tax_amount = Negated(inv.tax_amount)
  /\ neg.total_amount = Negated(inv.total_amount)
  /\ \A f \in {"invoice_number", "invoice_date", "vendor_name", "currency"} : neg[f] = inv[f]
  /\ neg.invoice_date = inv.invoice_date /\ neg.due_date = inv.due_date
  /\ neg.currency = inv.currency /\ neg.errors = inv.errors
  /\ Lines(neg) = Lines(inv) /\ IsFiniteSet(Lines(inv))
  /\ Len(neg.line_items) = Len(inv.line_items) /\ Len(inv.line_items) \in Nat
  /\ \A i \in Lines(inv) : MirroredLine(inv.line_items[i], neg.line_items[i])

LEMMA CreditNoteMirrors ==
  ASSUME NEW inv \in NormalizedInvoice
  PROVE  Mirrored(inv, CreditNote(inv))
<1> DEFINE items == [i \in Lines(inv) |-> NegatedLine(inv.line_items[i])]
           neg == CreditNote(inv)
<1>1. neg = [inv EXCEPT !.subtotal = Negated(inv.subtotal), !.tax_amount = Negated(inv.tax_amount),
                        !.total_amount = Negated(inv.total_amount), !.line_items = items]
  BY DEF CreditNote
<1>2. Lines(inv) = 1 .. Len(inv.line_items) /\ Len(inv.line_items) \in Nat
      /\ DOMAIN items = Lines(inv) /\ IsFiniteSet(Lines(inv))
  BY LineFacts
<1>3. ASSUME NEW i \in Lines(inv)
      PROVE  MirroredLine(inv.line_items[i], items[i])
  <2>1. PICK item \in NormalizedLineItem : item = inv.line_items[i]
    BY LineFacts
  <2>2. items[i] = NegatedLine(item)
    BY <2>1
  <2> HIDE DEF items
  <2> QED
    BY <2>1, <2>2 DEF MirroredLine, NegatedLine, NormalizedLineItem
<1> HIDE DEF items
<1>4. Len(items) = Len(inv.line_items)
  BY <1>2
<1>5. /\ neg.subtotal = Negated(inv.subtotal) /\ neg.tax_amount = Negated(inv.tax_amount)
      /\ neg.total_amount = Negated(inv.total_amount) /\ neg.line_items = items
      /\ neg.invoice_number = inv.invoice_number /\ neg.vendor_name = inv.vendor_name
      /\ neg.invoice_date = inv.invoice_date /\ neg.due_date = inv.due_date
      /\ neg.currency = inv.currency /\ neg.errors = inv.errors
  <2> HIDE DEF neg
  <2> QED
    BY <1>1 DEF NormalizedInvoice
<1>8. inv.subtotal \in Amount /\ inv.tax_amount \in Amount /\ inv.total_amount \in Amount
  BY DEF NormalizedInvoice
<1> HIDE DEF neg
<1>6. Lines(neg) = Lines(inv)
  <2>1. Lines(neg) = DOMAIN items
    BY <1>5 DEF Lines
  <2> QED
    BY <1>2, <2>1
<1>7. Mirrored(inv, neg)
  BY <1>2, <1>3, <1>4, <1>5, <1>6, <1>8 DEF Mirrored
<1> QED
  BY <1>7 DEF neg

LEMMA MirroredPresent ==
  ASSUME NEW inv, NEW neg, Mirrored(inv, neg)
  PROVE  Present(neg) = Present(inv)
<1>1. inv.total_amount = Null <=> neg.total_amount = Null
  BY NegatedFacts DEF Mirrored
<1>2. \A f \in {"invoice_number", "invoice_date", "vendor_name", "currency"} : neg[f] = inv[f]
  BY DEF Mirrored
<1> QED
  BY <1>1, <1>2 DEF Present, CRITICAL_FIELDS

LEMMA OffIsSymmetric ==
  ASSUME NEW a \in Int, NEW b \in Int, NEW tolerance \in Int
  PROVE  Off(0 - a, 0 - b, tolerance) <=> Off(a, b, tolerance)
  BY DEF Off, Abs

\* The lines' sum and what it is compared with.
LEMMA MirroredSums ==
  ASSUME NEW inv, NEW neg, Mirrored(inv, neg)
  PROVE  /\ LineTotalsKnown(neg) <=> LineTotalsKnown(inv)
         /\ LineTotalsKnown(inv) => LineSum(inv) \in Int /\ LineSum(neg) = 0 - LineSum(inv)
         /\ LineSumTarget(inv) \in Amount /\ LineSumTarget(neg) = Negated(LineSumTarget(inv))
<1>1. \A i \in Lines(inv) : /\ inv.line_items[i].line_total \in Amount
                            /\ neg.line_items[i].line_total = Negated(inv.line_items[i].line_total)
  BY DEF Mirrored, MirroredLine
<1>2. Lines(neg) = Lines(inv)
  BY DEF Mirrored
<1>3. LineTotalsKnown(neg) <=> LineTotalsKnown(inv)
  BY <1>1, <1>2, NegatedFacts DEF LineTotalsKnown
<1>4. ASSUME LineTotalsKnown(inv)
      PROVE  LineSum(inv) \in Int /\ LineSum(neg) = 0 - LineSum(inv)
  <2> DEFINE w == [i \in Lines(inv) |-> inv.line_items[i].line_total]
             u == [i \in Lines(neg) |-> neg.line_items[i].line_total]
  <2>1. \A i \in Lines(inv) : /\ w[i] \in Int /\ u[i] \in Int /\ u[i] = 0 - w[i]
    BY <1>1, <1>2, <1>4, NegatedFacts DEF LineTotalsKnown
  <2>2. w \in [Lines(inv) -> Int] /\ u \in [Lines(inv) -> Int]
    BY <1>2, <2>1
  <2>3. IsFiniteSet(Lines(inv))
    BY DEF Mirrored
  <2>4. LineSum(inv) = SumFunction(w) /\ LineSum(neg) = SumFunction(u)
    BY DEF LineSum
  <2> HIDE DEF w, u
  <2>5. SumFunction(w) \in Int
    BY <2>2, <2>3, SumIsInt
  <2>6. SumFunction(u) = 0 - SumFunction(w)
    BY <2>1, <2>2, <2>3, SumNegates
  <2> QED
    BY <2>4, <2>5, <2>6
<1>5. LineSumTarget(inv) \in Amount /\ LineSumTarget(neg) = Negated(LineSumTarget(inv))
  <2>1. /\ inv.subtotal \in Amount /\ inv.tax_amount \in Amount /\ inv.total_amount \in Amount
        /\ neg.subtotal = Negated(inv.subtotal) /\ neg.tax_amount = Negated(inv.tax_amount)
        /\ neg.total_amount = Negated(inv.total_amount)
    BY DEF Mirrored
  <2>2. CASE inv.subtotal # Null
    BY <2>1, <2>2, NegatedFacts DEF LineSumTarget
  <2>3. CASE inv.subtotal = Null /\ inv.total_amount # Null /\ inv.tax_amount # Null
    <3>1. PICK total \in Int : total = inv.total_amount /\ neg.total_amount = 0 - total
      BY <2>1, <2>3, NegatedFacts
    <3>2. PICK tax \in Int : tax = inv.tax_amount /\ neg.tax_amount = 0 - tax
      BY <2>1, <2>3, NegatedFacts
    <3>3. neg.subtotal = Null /\ neg.total_amount # Null /\ neg.tax_amount # Null
      BY <2>1, <2>3, NegatedFacts
    <3>4. LineSumTarget(inv) = total - tax /\ LineSumTarget(neg) = (0 - total) - (0 - tax)
      BY <2>3, <3>1, <3>2, <3>3 DEF LineSumTarget
    <3>5. total - tax # Null /\ Negated(total - tax) = 0 - (total - tax)
      BY SearchAssumption DEF Negated
    <3> QED
      BY <3>4, <3>5 DEF Amount
  <2>4. CASE inv.subtotal = Null /\ (inv.total_amount = Null \/ inv.tax_amount = Null)
    <3>1. neg.subtotal = Null /\ (neg.total_amount = Null \/ neg.tax_amount = Null)
      BY <2>1, <2>4, NegatedFacts
    <3>2. LineSumTarget(inv) = inv.total_amount /\ LineSumTarget(neg) = neg.total_amount
      BY <2>4, <3>1 DEF LineSumTarget
    <3> QED
      BY <2>1, <3>2
  <2> QED
    BY <2>2, <2>3, <2>4
<1> QED
  BY <1>3, <1>4, <1>5

MirroredContext(ctx, neg) ==
  /\ Mirrored(ctx.invoice, neg.invoice)
  /\ neg.run_date = ctx.run_date /\ neg.confidence = ctx.confidence /\ neg.matches = ctx.matches

\* The rules that compare amounts, ...
LEMMA MirroredAmounts ==
  ASSUME NEW ctx, NEW neg, MirroredContext(ctx, neg)
  PROVE  /\ TotalsDoNotReconcile(neg) <=> TotalsDoNotReconcile(ctx)
         /\ LineItemAmountMismatch(neg) <=> LineItemAmountMismatch(ctx)
         /\ LineItemsDoNotSum(neg) <=> LineItemsDoNotSum(ctx)
         /\ HighValueInvoice(neg) <=> HighValueInvoice(ctx)
<1> DEFINE inv == ctx.invoice
           inn == neg.invoice
<1>1. Mirrored(inv, inn)
  BY DEF MirroredContext
<1>2. /\ inv.subtotal \in Amount /\ inv.tax_amount \in Amount /\ inv.total_amount \in Amount
      /\ inn.subtotal = Negated(inv.subtotal) /\ inn.tax_amount = Negated(inv.tax_amount)
      /\ inn.total_amount = Negated(inv.total_amount) /\ inn.currency = inv.currency
      /\ Lines(inn) = Lines(inv) /\ Len(inn.line_items) = Len(inv.line_items)
      /\ Len(inv.line_items) \in Nat
  BY <1>1 DEF Mirrored
<1>3. TotalsDoNotReconcile(neg) <=> TotalsDoNotReconcile(ctx)
  <2>1. Null \in {inv.subtotal, inv.tax_amount, inv.total_amount}
          <=> Null \in {inn.subtotal, inn.tax_amount, inn.total_amount}
    BY <1>2, NegatedFacts
  <2>2. ASSUME Null \notin {inv.subtotal, inv.tax_amount, inv.total_amount}
        PROVE  Off(inn.subtotal + inn.tax_amount, inn.total_amount, RECONCILIATION_TOLERANCE)
                 <=> Off(inv.subtotal + inv.tax_amount, inv.total_amount, RECONCILIATION_TOLERANCE)
    <3>1. PICK sub \in Int : sub = inv.subtotal /\ inn.subtotal = 0 - sub
      BY <1>2, <2>2, NegatedFacts
    <3>2. PICK tax \in Int : tax = inv.tax_amount /\ inn.tax_amount = 0 - tax
      BY <1>2, <2>2, NegatedFacts
    <3>3. PICK total \in Int : total = inv.total_amount /\ inn.total_amount = 0 - total
      BY <1>2, <2>2, NegatedFacts
    <3>4. (0 - sub) + (0 - tax) = 0 - (sub + tax)
      OBVIOUS
    <3>5. Off(0 - (sub + tax), 0 - total, 10) <=> Off(sub + tax, total, 10)
      BY OffIsSymmetric
    <3> QED
      BY <3>1, <3>2, <3>3, <3>4, <3>5 DEF RECONCILIATION_TOLERANCE, Cent
  <2> QED
    BY <2>1, <2>2 DEF TotalsDoNotReconcile
<1>4. LineItemAmountMismatch(neg) <=> LineItemAmountMismatch(ctx)
  <2>1. ASSUME NEW i \in Lines(inv)
        PROVE  (/\ Null \notin {inn.line_items[i].quantity, inn.line_items[i].unit_price,
                                inn.line_items[i].line_total}
                /\ Off(inn.line_items[i].quantity * inn.line_items[i].unit_price,
                       inn.line_items[i].line_total, RECONCILIATION_TOLERANCE))
               <=>
               (/\ Null \notin {inv.line_items[i].quantity, inv.line_items[i].unit_price,
                                inv.line_items[i].line_total}
                /\ Off(inv.line_items[i].quantity * inv.line_items[i].unit_price,
                       inv.line_items[i].line_total, RECONCILIATION_TOLERANCE))
    <3>1. PICK item, note : /\ item = inv.line_items[i] /\ note = inn.line_items[i]
                            /\ MirroredLine(item, note)
      BY <1>1 DEF Mirrored
    <3>2. Null \in {item.quantity, item.unit_price, item.line_total}
            <=> Null \in {note.quantity, note.unit_price, note.line_total}
      BY <3>1, NegatedFacts DEF MirroredLine
    <3>3. ASSUME Null \notin {item.quantity, item.unit_price, item.line_total}
          PROVE  Off(note.quantity * note.unit_price, note.line_total, RECONCILIATION_TOLERANCE)
                   <=> Off(item.quantity * item.unit_price, item.line_total, RECONCILIATION_TOLERANCE)
      <4>1. PICK q \in Int : q = item.quantity /\ note.quantity = q
        BY <3>1, <3>3, NegatedFacts DEF MirroredLine
      <4>2. PICK p \in Int : p = item.unit_price /\ note.unit_price = 0 - p
        BY <3>1, <3>3, NegatedFacts DEF MirroredLine
      <4>3. PICK t \in Int : t = item.line_total /\ note.line_total = 0 - t
        BY <3>1, <3>3, NegatedFacts DEF MirroredLine
      <4>4. PICK qp \in Int : qp = q * p
        OBVIOUS
      <4>5. q * (0 - p) = 0 - qp
        BY <4>4
      <4>6. Off(0 - qp, 0 - t, 10) <=> Off(qp, t, 10)
        BY OffIsSymmetric
      <4> QED
        BY <4>1, <4>2, <4>3, <4>4, <4>5, <4>6 DEF RECONCILIATION_TOLERANCE, Cent
    <3> QED
      BY <3>1, <3>2, <3>3
  <2> QED
    BY <1>2, <2>1 DEF LineItemAmountMismatch
<1>5. LineItemsDoNotSum(neg) <=> LineItemsDoNotSum(ctx)
  <2>1. /\ LineTotalsKnown(inn) <=> LineTotalsKnown(inv)
        /\ LineTotalsKnown(inv) => LineSum(inv) \in Int /\ LineSum(inn) = 0 - LineSum(inv)
        /\ LineSumTarget(inv) \in Amount /\ LineSumTarget(inn) = Negated(LineSumTarget(inv))
    BY <1>1, MirroredSums
  <2>2. LineSumTarget(inv) = Null <=> LineSumTarget(inn) = Null
    BY <2>1, NegatedFacts
  <2>3. ASSUME LineTotalsKnown(inv), LineSumTarget(inv) # Null
        PROVE  Off(LineSum(inn), LineSumTarget(inn), LineSumTolerance(Len(inn.line_items)))
                 <=> Off(LineSum(inv), LineSumTarget(inv), LineSumTolerance(Len(inv.line_items)))
    <3>1. PICK sum \in Int : sum = LineSum(inv) /\ LineSum(inn) = 0 - sum
      BY <2>1, <2>3
    <3>2. PICK target \in Int : target = LineSumTarget(inv) /\ LineSumTarget(inn) = 0 - target
      BY <2>1, <2>3, NegatedFacts
    <3>3. PICK tolerance \in Int : tolerance = LineSumTolerance(Len(inv.line_items))
      BY <1>2 DEF LineSumTolerance, Cent, RECONCILIATION_TOLERANCE
    <3>4. Off(0 - sum, 0 - target, tolerance) <=> Off(sum, target, tolerance)
      BY OffIsSymmetric
    <3> QED
      BY <1>2, <3>1, <3>2, <3>3, <3>4
  <2> QED
    BY <1>2, <2>1, <2>2, <2>3 DEF LineItemsDoNotSum
<1>6. HighValueInvoice(neg) <=> HighValueInvoice(ctx)
  <2>1. CASE inv.total_amount = Null
    BY <1>2, <2>1, NegatedFacts DEF HighValueInvoice
  <2>2. CASE inv.total_amount # Null
    <3>1. PICK total \in Int : total = inv.total_amount /\ inn.total_amount = 0 - total
      BY <1>2, <2>2, NegatedFacts
    <3>2. Abs(0 - total) = Abs(total) /\ inn.total_amount # Null
      BY <1>2, <2>2, NegatedFacts DEF Abs
    <3> QED
      BY <1>2, <2>2, <3>1, <3>2 DEF HighValueInvoice
  <2> QED
    BY <2>1, <2>2
<1> QED
  BY <1>3, <1>4, <1>5, <1>6

\* ... and the others, which read no amount's sign.
LEMMA MirroredOthers ==
  ASSUME NEW ctx, NEW neg, MirroredContext(ctx, neg)
  PROVE  /\ MissingRequiredField(neg) <=> MissingRequiredField(ctx)
         /\ NormalizationErrors(neg) <=> NormalizationErrors(ctx)
         /\ DueDateBeforeInvoiceDate(neg) <=> DueDateBeforeInvoiceDate(ctx)
         /\ DueDateFarAfterInvoiceDate(neg) <=> DueDateFarAfterInvoiceDate(ctx)
         /\ InvoiceDateInFuture(neg) <=> InvoiceDateInFuture(ctx)
         /\ InvoiceDateImplausiblyOld(neg) <=> InvoiceDateImplausiblyOld(ctx)
         /\ LineItemSumNotChecked(neg) <=> LineItemSumNotChecked(ctx)
         /\ LowConfidenceCriticalField(neg) <=> LowConfidenceCriticalField(ctx)
         /\ CriticalFieldConfidenceUnavailable(neg) <=> CriticalFieldConfidenceUnavailable(ctx)
         /\ ProbableDuplicateInvoice(neg) <=> ProbableDuplicateInvoice(ctx)
         /\ NoLineItems(neg) <=> NoLineItems(ctx)
<1>1. /\ Present(neg.invoice) = Present(ctx.invoice)
      /\ LineTotalsKnown(neg.invoice) <=> LineTotalsKnown(ctx.invoice)
  BY MirroredPresent, MirroredSums DEF MirroredContext
<1>2. /\ neg.run_date = ctx.run_date /\ neg.confidence = ctx.confidence
      /\ neg.matches = ctx.matches
  BY DEF MirroredContext
<1>3. /\ neg.invoice.invoice_date = ctx.invoice.invoice_date
      /\ neg.invoice.due_date = ctx.invoice.due_date
      /\ neg.invoice.errors = ctx.invoice.errors /\ Lines(neg.invoice) = Lines(ctx.invoice)
  BY DEF MirroredContext, Mirrored
<1>4. /\ MissingRequiredField(neg) <=> MissingRequiredField(ctx)
      /\ NormalizationErrors(neg) <=> NormalizationErrors(ctx)
      /\ LineItemSumNotChecked(neg) <=> LineItemSumNotChecked(ctx)
      /\ ProbableDuplicateInvoice(neg) <=> ProbableDuplicateInvoice(ctx)
      /\ NoLineItems(neg) <=> NoLineItems(ctx)
  BY <1>1, <1>2, <1>3 DEF MissingRequiredField, NormalizationErrors, LineItemSumNotChecked,
     ProbableDuplicateInvoice, NoLineItems
<1>5. /\ DatesKnown(neg.invoice) <=> DatesKnown(ctx.invoice)
      /\ PaymentTerm(neg.invoice) = PaymentTerm(ctx.invoice)
  BY <1>3 DEF DatesKnown, PaymentTerm
<1>6. /\ DueDateBeforeInvoiceDate(neg) <=> DueDateBeforeInvoiceDate(ctx)
      /\ DueDateFarAfterInvoiceDate(neg) <=> DueDateFarAfterInvoiceDate(ctx)
  BY <1>5 DEF DueDateBeforeInvoiceDate, DueDateFarAfterInvoiceDate
<1>7. /\ InvoiceDateInFuture(neg) <=> InvoiceDateInFuture(ctx)
      /\ InvoiceDateImplausiblyOld(neg) <=> InvoiceDateImplausiblyOld(ctx)
  BY <1>2, <1>3 DEF InvoiceDateInFuture, InvoiceDateImplausiblyOld
<1>8. /\ LowConfidenceCriticalField(neg) <=> LowConfidenceCriticalField(ctx)
      /\ CriticalFieldConfidenceUnavailable(neg) <=> CriticalFieldConfidenceUnavailable(ctx)
  BY <1>1, <1>2 DEF LowConfidenceCriticalField, CriticalFieldConfidenceUnavailable
<1> QED
  BY <1>4, <1>6, <1>7, <1>8

LEMMA MirroredFindings ==
  ASSUME NEW ctx, NEW neg, MirroredContext(ctx, neg)
  PROVE  RunRules(neg) = RunRules(ctx)
<1>1. ASSUME NEW rule \in ValidationRule
      PROVE  Fires(rule, neg) <=> Fires(rule, ctx)
  BY FiresFacts, MirroredAmounts, MirroredOthers DEF ValidationRule
<1> QED
  BY <1>1 DEF RunRules

\* No rule treats a credit note otherwise than the invoice it takes back.
THEOREM CreditNotesTreatedAlike ==
  Spec => []CreditNoteIsTreatedAlike
<1>1. ASSUME VerdictIInv, NEW d \in Documents, NEW v \in DOMAIN vals[d], Evaluated(d, v)
      PROVE  vals[d][v].findings =
               RunRules(Context(d, CreditNote(InvoiceOf(d, v)), vals[d][v].matches))
  <2>1. PICK inv \in NormalizedInvoice : inv = InvoiceOf(d, v)
    BY <1>1, InvoiceFacts
  <2>2. PICK ctx : ctx = Context(d, inv, vals[d][v].matches)
    OBVIOUS
  <2>3. PICK neg : neg = Context(d, CreditNote(inv), vals[d][v].matches)
    OBVIOUS
  <2>4. MirroredContext(ctx, neg)
    BY <2>2, <2>3, CreditNoteMirrors DEF MirroredContext, Context
  <2>5. vals[d][v].findings = RunRules(ctx)
    BY <1>1, <2>1, <2>2, InvoiceFacts DEF Reproducible, Evaluated
  <2> QED
    BY <2>1, <2>3, <2>4, <2>5, MirroredFindings
<1>2. VerdictIInv => CreditNoteIsTreatedAlike
  BY <1>1 DEF CreditNoteIsTreatedAlike
<1> QED
  BY <1>2, VerdictInvariant, PTL

=============================================================================
