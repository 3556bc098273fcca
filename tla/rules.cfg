SPECIFICATION Spec
CONSTANTS
  Null = Null
  Documents = {d1}
  Invoices <- MCAllInvoices
  Confidences <- MCConfidences
  RunDate <- MCRunDate
  MaxTime = 0
  MaxNormalizations = 1
  MaxValidations = 1
INVARIANT RoundingIsTolerated
INVARIANT AcceptedInvoiceAddsUp
INVARIANT CreditNoteIsTreatedAlike
\* Every bound may be used up.
CHECK_DEADLOCK FALSE
