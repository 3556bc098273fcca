-------------------------- MODULE ValidationRules --------------------------
(***************************************************************************)
(* The Stage 5 rules over one normalized invoice, with the policy they     *)
(* apply.  Amounts are integers, in thousandths of a major unit; a date is *)
(* <<year, month, day>>; a confidence is a percentage.  Findings are the   *)
(* rules that fired: severity, field and wording decide nothing later.     *)
(***************************************************************************)
EXTENDS Integers, Sequences, FiniteSets, Functions

CONSTANT Null   \* an absent value

CRITICAL_FIELDS == {"invoice_number", "invoice_date", "vendor_name", "currency",
                    "total_amount"}

Cent                          == 10
RECONCILIATION_TOLERANCE      == Cent
DUE_DATE_MAX_GAP_DAYS         == 365
INVOICE_DATE_MAX_AGE_YEARS    == 10
CRITICAL_FIELD_CONFIDENCE_MIN == 70

\* Mutant: the tolerance does not grow with the number of lines.
FlatTolerance(n) == Cent
LineSumTolerance(n) == IF Cent * n > RECONCILIATION_TOLERANCE
                       THEN Cent * n ELSE RECONCILIATION_TOLERANCE

HighValueThreshold(currency) ==
  1000 * (IF currency = "JPY" THEN 1500000 ELSE 10000)

-----------------------------------------------------------------------------
(* What the rules read: a value that could not be normalized is absent *)

Text   == STRING \cup {Null}
Amount == Int \cup {Null}
Date   == (Nat \X (1..12) \X (1..31)) \cup {Null}

NormalizedLineItem == [quantity : Amount, unit_price : Amount, line_total : Amount]

NormalizedInvoice ==
  [invoice_number : Text, vendor_tax_id : Text, vendor_name : Text, currency : Text,
   invoice_date : Date, due_date : Date,
   subtotal : Amount, tax_amount : Amount, total_amount : Amount,
   line_items : Seq(NormalizedLineItem), errors : SUBSET STRING]

-----------------------------------------------------------------------------
(* Dates *)

IsLeap(year) == year % 4 = 0 /\ (year % 100 # 0 \/ year % 400 = 0)

\* The day's number in the proleptic Gregorian calendar.
Ordinal(date) ==
  LET y == date[1] - 1
      before == <<0, 31, 59, 90, 120, 151, 181, 212, 243, 273, 304, 334>>
  IN 365 * y + y \div 4 - y \div 100 + y \div 400 + before[date[2]] + date[3]
     + (IF date[2] > 2 /\ IsLeap(date[1]) THEN 1 ELSE 0)

\* The same day ten years earlier; 28 February for 29 February.
EarliestPlausibleInvoiceDate(run_date) ==
  LET year == run_date[1] - INVOICE_DATE_MAX_AGE_YEARS
  IN IF run_date[2] = 2 /\ run_date[3] = 29 /\ ~IsLeap(year)
     THEN <<year, 2, 28>> ELSE <<year, run_date[2], run_date[3]>>

-----------------------------------------------------------------------------
(* The duplicate key *)

Abs(n) == IF n < 0 THEN 0 - n ELSE n

\* Mutant: the vendor's name is compared only if this invoice has no tax id.
TaxIdFirst(inv, cand) ==
  IF inv.vendor_tax_id # Null
  THEN inv.vendor_tax_id = cand.vendor_tax_id
  ELSE inv.vendor_name # Null /\ inv.vendor_name = cand.vendor_name

SameVendor(inv, cand) ==
  IF inv.vendor_tax_id # Null /\ cand.vendor_tax_id # Null
  THEN inv.vendor_tax_id = cand.vendor_tax_id
  ELSE /\ inv.vendor_name # Null /\ cand.vendor_name # Null
       /\ inv.vendor_name = cand.vendor_name

SameInvoice(inv, cand) ==
  /\ Null \notin {inv.invoice_number, inv.currency, inv.total_amount, cand.total_amount}
  /\ SameVendor(inv, cand)
  /\ cand.invoice_number = inv.invoice_number
  /\ cand.currency = inv.currency
  /\ Abs(inv.total_amount - cand.total_amount) <= RECONCILIATION_TOLERANCE

-----------------------------------------------------------------------------
(* One operator per rule: whether it fires.  ctx: the invoice, the run's    *)
(* date, the source extraction's confidences and the duplicates found.      *)

Off(a, b, tolerance) == Abs(a - b) > tolerance
Present(inv) == {f \in CRITICAL_FIELDS : inv[f] # Null}
Lines(inv)   == DOMAIN inv.line_items

MissingRequiredField(ctx) == Present(ctx.invoice) # CRITICAL_FIELDS

NormalizationErrors(ctx) == ctx.invoice.errors # {}

DatesKnown(inv) == Null \notin {inv.invoice_date, inv.due_date}
PaymentTerm(inv) == Ordinal(inv.due_date) - Ordinal(inv.invoice_date)

DueDateBeforeInvoiceDate(ctx) ==
  DatesKnown(ctx.invoice) /\ PaymentTerm(ctx.invoice) < 0

DueDateFarAfterInvoiceDate(ctx) ==
  DatesKnown(ctx.invoice) /\ PaymentTerm(ctx.invoice) > DUE_DATE_MAX_GAP_DAYS

InvoiceDateInFuture(ctx) ==
  /\ ctx.invoice.invoice_date # Null
  /\ Ordinal(ctx.invoice.invoice_date) > Ordinal(ctx.run_date)

InvoiceDateImplausiblyOld(ctx) ==
  /\ ctx.invoice.invoice_date # Null
  /\ Ordinal(ctx.invoice.invoice_date) < Ordinal(EarliestPlausibleInvoiceDate(ctx.run_date))

TotalsDoNotReconcile(ctx) ==
  LET inv == ctx.invoice IN
  /\ Null \notin {inv.subtotal, inv.tax_amount, inv.total_amount}
  /\ Off(inv.subtotal + inv.tax_amount, inv.total_amount, RECONCILIATION_TOLERANCE)

LineItemAmountMismatch(ctx) ==
  \E i \in Lines(ctx.invoice) :
    LET item == ctx.invoice.line_items[i] IN
    /\ Null \notin {item.quantity, item.unit_price, item.line_total}
    /\ Off(item.quantity * item.unit_price, item.line_total, RECONCILIATION_TOLERANCE)

LineTotalsKnown(inv) == \A i \in Lines(inv) : inv.line_items[i].line_total # Null
LineSum(inv) == SumFunction([i \in Lines(inv) |-> inv.line_items[i].line_total])

\* Mutant: without a subtotal the lines are compared only if the tax is known.
TargetNeedsTax(inv) ==
  CASE inv.subtotal # Null -> inv.subtotal
    [] inv.subtotal = Null /\ Null \notin {inv.total_amount, inv.tax_amount} ->
         inv.total_amount - inv.tax_amount
    [] OTHER -> Null

\* The subtotal, or else what the total leaves of it.
LineSumTarget(inv) ==
  CASE inv.subtotal # Null -> inv.subtotal
    [] inv.subtotal = Null /\ Null \notin {inv.total_amount, inv.tax_amount} ->
         inv.total_amount - inv.tax_amount
    [] OTHER -> inv.total_amount

LineItemsDoNotSum(ctx) ==
  LET inv == ctx.invoice IN
  /\ Lines(inv) # {} /\ LineTotalsKnown(inv) /\ LineSumTarget(inv) # Null
  /\ Off(LineSum(inv), LineSumTarget(inv), LineSumTolerance(Len(inv.line_items)))

LineItemSumNotChecked(ctx) == ~LineTotalsKnown(ctx.invoice)

LowConfidenceCriticalField(ctx) ==
  \E f \in Present(ctx.invoice) :
    ctx.confidence[f] # Null /\ ctx.confidence[f] < CRITICAL_FIELD_CONFIDENCE_MIN

CriticalFieldConfidenceUnavailable(ctx) ==
  \E f \in Present(ctx.invoice) : ctx.confidence[f] = Null

ProbableDuplicateInvoice(ctx) == ctx.matches # {}

\* Mutant: a large credit note is not flagged.
SignedHighValue(ctx) ==
  LET inv == ctx.invoice IN
  /\ Null \notin {inv.total_amount, inv.currency}
  /\ inv.total_amount >= HighValueThreshold(inv.currency)

HighValueInvoice(ctx) ==
  LET inv == ctx.invoice IN
  /\ Null \notin {inv.total_amount, inv.currency}
  /\ Abs(inv.total_amount) >= HighValueThreshold(inv.currency)

NoLineItems(ctx) == Lines(ctx.invoice) = {}

Fires(rule, ctx) ==
  CASE rule = "missing_required_field"          -> MissingRequiredField(ctx)
    [] rule = "normalization_error"             -> NormalizationErrors(ctx)
    [] rule = "due_date_before_invoice_date"    -> DueDateBeforeInvoiceDate(ctx)
    [] rule = "due_date_far_after_invoice_date" -> DueDateFarAfterInvoiceDate(ctx)
    [] rule = "invoice_date_in_future"          -> InvoiceDateInFuture(ctx)
    [] rule = "invoice_date_implausibly_old"    -> InvoiceDateImplausiblyOld(ctx)
    [] rule = "totals_do_not_reconcile"         -> TotalsDoNotReconcile(ctx)
    [] rule = "line_item_amount_mismatch"       -> LineItemAmountMismatch(ctx)
    [] rule = "line_items_do_not_sum"           -> LineItemsDoNotSum(ctx)
    [] rule = "line_item_sum_not_checked"       -> LineItemSumNotChecked(ctx)
    [] rule = "low_confidence_critical_field"   -> LowConfidenceCriticalField(ctx)
    [] rule = "critical_field_confidence_unavailable" ->
         CriticalFieldConfidenceUnavailable(ctx)
    [] rule = "probable_duplicate_invoice"      -> ProbableDuplicateInvoice(ctx)
    [] rule = "high_value_invoice"              -> HighValueInvoice(ctx)
    [] rule = "no_line_items"                   -> NoLineItems(ctx)

ValidationRule ==
  {"missing_required_field", "normalization_error", "due_date_before_invoice_date",
   "due_date_far_after_invoice_date", "invoice_date_in_future",
   "invoice_date_implausibly_old", "totals_do_not_reconcile", "line_item_amount_mismatch",
   "line_items_do_not_sum", "line_item_sum_not_checked", "low_confidence_critical_field",
   "critical_field_confidence_unavailable", "probable_duplicate_invoice",
   "high_value_invoice", "no_line_items"}

RunRules(ctx) == {rule \in ValidationRule : Fires(rule, ctx)}

=============================================================================
