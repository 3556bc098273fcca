------------------------- MODULE InvoiceProperties -------------------------
(***************************************************************************)
(* What LedgerDrop promises of the validations and decisions of invoices:  *)
(* of several documents that carry one invoice, and of what an invoice's   *)
(* amounts must be for it to be accepted.                                  *)
(***************************************************************************)
EXTENDS DuplicateSearch

(* Duplicates *)

\* However their requests interleave, and whatever corrections replaced what:
\* of two documents that carry one invoice and are both decided, at least
\* one was sent to a human.
DuplicatesAreReviewed ==
  \A d, e \in Documents :
    (d # e /\ Decided(d) /\ Decided(e) /\ SameInvoice(CurrentInvoice(d), CurrentInvoice(e)))
      => "NEEDS_REVIEW" \in CurrentOutcomes(d) \cup CurrentOutcomes(e)

MatchesLive(d, val) ==
  \A c \in val.matches :
    /\ c.document # d
    /\ c.normalization \in Visible(c.document, val.started_at)
    /\ \A n \in Committed(c.document) :
         n > c.normalization => norms[c.document][n].committed_at >= val.started_at

\* A match is another document's invoice, finished by the time the attempt
\* started, and not one that a correction had replaced by then.
MatchesAreLive ==
  \A d \in Documents : \A v \in DOMAIN vals[d] : MatchesLive(d, vals[d][v])

-----------------------------------------------------------------------------
(* Amounts *)

Evaluated(d, v) == vals[d][v].findings # Null

Round(amount) == ((amount + Cent \div 2) \div Cent) * Cent
OrZero(amount) == IF amount = Null THEN 0 ELSE amount

Exact(inv, i) == inv.line_items[i].quantity * inv.line_items[i].unit_price
ExactSum(inv) == SumFunction([i \in Lines(inv) |-> Exact(inv, i)])

\* The vendor computed with exact amounts, and rounded each that it printed.
Rounded(inv) ==
  /\ \A i \in Lines(inv) :
       /\ Null \notin {inv.line_items[i].quantity, inv.line_items[i].unit_price}
       /\ inv.line_items[i].line_total = Round(Exact(inv, i))
  /\ Lines(inv) # {}
  /\ inv.subtotal \in {Null, Round(ExactSum(inv))}
  /\ inv.total_amount = Round(ExactSum(inv)) + OrZero(inv.tax_amount)

\* The rounding of an honest invoice is never taken for a mistake, however
\* many lines it has and whichever of its totals it prints.
RoundingIsTolerated ==
  \A d \in Documents : \A v \in DOMAIN vals[d] :
    Evaluated(d, v) /\ Rounded(InvoiceOf(d, v)) =>
    vals[d][v].findings \cap
      {"totals_do_not_reconcile", "line_item_amount_mismatch", "line_items_do_not_sum"} = {}

\* The lines lead to the total, an absent tax counting as none: to a cent for
\* each line and one for the total.  Where a subtotal is printed without a tax
\* the lines lead to it, and nothing is compared with the total.
LinesAddUp(inv) ==
  LET sum == LineSum(inv)
      lines == Len(inv.line_items) IN
  \/ Abs(sum + OrZero(inv.tax_amount) - inv.total_amount) <= Cent * (lines + 1)
  \/ /\ inv.subtotal # Null /\ inv.tax_amount = Null
     /\ Abs(sum - inv.subtotal) <= Cent * lines

TotalsAddUp(inv) ==
  Null \notin {inv.subtotal, inv.tax_amount} =>
    Abs(inv.subtotal + inv.tax_amount - inv.total_amount) <= Cent

\* An accepted invoice adds up, whichever of its subtotal, tax and line totals
\* are absent: its lines if each has a total, its totals if it has all three.
AcceptedInvoiceAddsUp ==
  \A d \in Documents : \A v \in DOMAIN vals[d] :
    vals[d][v].outcome = "ACCEPTED" =>
      LET inv == InvoiceOf(d, v) IN
      /\ Lines(inv) # {} /\ LineTotalsKnown(inv) => LinesAddUp(inv)
      /\ TotalsAddUp(inv)

Negated(amount) == IF amount = Null THEN Null ELSE 0 - amount
NegatedLine(item) == [item EXCEPT !.unit_price = Negated(@), !.line_total = Negated(@)]
CreditNote(inv) ==
  [inv EXCEPT !.subtotal = Negated(@), !.tax_amount = Negated(@), !.total_amount = Negated(@),
     !.line_items = [i \in Lines(inv) |-> NegatedLine(inv.line_items[i])]]

\* docs/stage-5-validation.md: negative amounts flow through every rule; no
\* rule flags a value solely for being negative, and none lets it off.
CreditNoteIsTreatedAlike ==
  \A d \in Documents : \A v \in DOMAIN vals[d] : Evaluated(d, v) =>
    vals[d][v].findings =
      RunRules(Context(d, CreditNote(InvoiceOf(d, v)), vals[d][v].matches))

SourceInvoice(d, val) == norms[d][val.source].invoice

-----------------------------------------------------------------------------
(* The inductive invariant behind DuplicatesAreReviewed and MatchesAreLive *)

Candidate == [document : Documents, normalization : Nat]

Attempt == [source : Nat, started_at : Stamp,
            status : {"PROCESSING", "COMPLETED", "FAILED"},
            matches : SUBSET Candidate,
            findings : (SUBSET ValidationRule) \cup {Null},
            outcome : {Null, "ACCEPTED", "NEEDS_REVIEW"}]
NormalizationRow == [invoice : Invoices, completed_at : Stamp, committed_at : Stamp \cup {Never}]

SearchTypeOK ==
  /\ now \in Stamp
  /\ exts \in [Documents -> {Null} \cup [completed_at : Stamp, confidence : Confidences]]
  /\ norms \in [Documents -> Seq(NormalizationRow)]
  /\ vals \in [Documents -> Seq(Attempt)]

IsCurrent(d, n) == n \in Committed(d) /\ \A k \in Committed(d) : k <= n

\* A row is stamped before it is committed, only the last one is not yet
\* committed, and the extraction came first.
StampsInOrder ==
  \A d \in Documents :
    /\ exts[d] # Null => exts[d].completed_at <= now
    /\ \A n \in DOMAIN norms[d] :
         /\ norms[d][n].completed_at <= now
         /\ n \in Committed(d) => /\ norms[d][n].completed_at <= norms[d][n].committed_at
                                  /\ norms[d][n].committed_at <= now
         /\ n < Len(norms[d]) => n \in Committed(d)
         /\ exts[d] # Null /\ exts[d].completed_at <= norms[d][n].completed_at

\* A validation started once its source was committed, and its decision
\* knows of its matches.
Grounded(d, val) ==
  /\ val.source \in Committed(d)
  /\ norms[d][val.source].committed_at <= val.started_at
  /\ val.started_at <= now
  /\ val.status = "COMPLETED" => val.findings # Null
  /\ val.outcome # Null => val.status = "COMPLETED"
  /\ val.findings # Null /\ val.matches # {} =>
       /\ "probable_duplicate_invoice" \in val.findings
       /\ val.outcome # Null => val.outcome = "NEEDS_REVIEW"

\* A finished search has found what another document had committed before it
\* started and has not replaced since.
SawThePast(d, val) ==
  \A e \in Documents \ {d} : \A m \in Committed(e) :
    (/\ val.findings # Null /\ norms[e][m].committed_at < val.started_at
     /\ IsCurrent(e, m)
     /\ SameInvoice(SourceInvoice(d, val), norms[e][m].invoice)) => val.matches # {}

\* Of two finished searches from the current rows of two copies, one has
\* found the other copy: the one that was started last.
OneSawTheOther(d, v, e, w) ==
  (/\ v.findings # Null /\ w.findings # Null
   /\ IsCurrent(d, v.source) /\ IsCurrent(e, w.source)
   /\ SameInvoice(SourceInvoice(d, v), SourceInvoice(e, w)))
     => v.matches # {} \/ w.matches # {}

SearchesAgree ==
  \A d \in Documents, e \in Documents :
    d # e => \A v \in DOMAIN vals[d], w \in DOMAIN vals[e] :
               OneSawTheOther(d, vals[d][v], e, vals[e][w])

SearchSound(d, val) == Grounded(d, val) /\ SawThePast(d, val) /\ MatchesLive(d, val)

SearchIInv ==
  /\ SearchTypeOK
  /\ StampsInOrder
  /\ \A d \in Documents : \A v \in DOMAIN vals[d] : SearchSound(d, vals[d][v])
  /\ SearchesAgree

=============================================================================
