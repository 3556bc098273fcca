----------------------------- MODULE MCInvoices -----------------------------
(***************************************************************************)
(* Instances of DuplicateSearch for TLC.                                   *)
(***************************************************************************)
EXTENDS InvoiceProperties, TLC

MCRunDate == <<2024, 2, 29>>

Confident    == [f \in CRITICAL_FIELDS |-> 95]
MCConfident  == {Confident}

Base == [invoice_number |-> "n1", vendor_tax_id |-> "t1", vendor_name |-> "v1",
         currency |-> "EUR", invoice_date |-> MCRunDate, due_date |-> Null,
         subtotal |-> Null, tax_amount |-> Null, total_amount |-> 10000,
         line_items |-> <<>>, errors |-> {}]

\* Two invoices, and a copy of the first that was read without the tax id
\* and a cent off.
MCCopies ==
  {Base,
   [Base EXCEPT !.vendor_tax_id = Null, !.total_amount = 10010],
   [Base EXCEPT !.invoice_number = "n2"]}

DocumentSymmetry == Permutations(Documents)

-----------------------------------------------------------------------------
(* Invoices of up to four lines, rounded by their vendor or with one of the *)
(* amounts off or missing                                                   *)

Off1(amount, by) == IF by = Null THEN Null ELSE amount + by

Items(n, quantity, price, by) ==
  [i \in 1..n |-> [quantity |-> quantity, unit_price |-> price,
                   line_total |-> Off1(Round(quantity * price), IF i = 1 THEN by ELSE 0)]]

MCAmounts ==
  {LET sum == Round(n * quantity * price) IN
   [Base EXCEPT !.line_items = Items(n, quantity, price, line_by),
      !.subtotal = Off1(sum, sub_by), !.tax_amount = tax,
      !.total_amount = Off1(sum + OrZero(tax), total_by)] :
     n \in {0, 1, 2, 4}, quantity \in {1, 3}, price \in {1004, 1005}, line_by \in {0, 20, Null},
     sub_by \in {0, 40, Null}, tax \in {30, Null}, total_by \in {0, -30, 30, 10000000, Null}}

MCOtherFields ==
  {[Base EXCEPT !.invoice_date = date, !.due_date = due, !.currency = currency, !.errors = errors] :
     date \in {<<2014, 2, 27>>, <<2014, 2, 28>>, MCRunDate, <<2024, 3, 1>>, Null},
     due \in {<<2024, 2, 28>>, <<2025, 2, 28>>, <<2025, 3, 1>>, Null},
     currency \in {"EUR", "JPY", Null}, errors \in {{}, {"due_date"}}}

MCAllInvoices == MCAmounts \cup {inv \in MCOtherFields : inv.errors # {} => inv.due_date = Null}
MCConfidences == {Confident, [Confident EXCEPT !["total_amount"] = 69, !["invoice_date"] = Null]}

=============================================================================
