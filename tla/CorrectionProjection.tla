------------------------ MODULE CorrectionProjection ------------------------
(***************************************************************************)
(* What a whole invoice becomes: the normalization engine, the rows it is  *)
(* kept in, and the merge of a reviewer's submission over it               *)
(* (normalization/engine.py, normalization_persistence.py,                 *)
(* correction/projection.py).                                              *)
(*                                                                         *)
(* An invoice is its number of lines and what stands at each of its paths: *)
(* <<0, name>> for a scalar, <<i, leaf>> for line i.  That is a raw value  *)
(* in an extraction or a submission, a result in a normalized invoice.     *)
(***************************************************************************)
EXTENDS Normalizers, FiniteSets

SCALAR_NORMALIZERS ==
  [invoice_number |-> "text", invoice_date |-> "date", due_date |-> "date",
   vendor_name |-> "text", vendor_tax_id |-> "text", customer_name |-> "text",
   currency |-> "currency",
   subtotal |-> "number", tax_amount |-> "number", total_amount |-> "number"]

LINE_ITEM_NORMALIZERS ==
  [description |-> "text", quantity |-> "number", unit_price |-> "number",
   line_total |-> "number"]

Paths(lines) == ({0} \X DOMAIN SCALAR_NORMALIZERS)
                  \union ((1..lines) \X DOMAIN LINE_ITEM_NORMALIZERS)

Kind(path) == IF path[1] = 0 THEN SCALAR_NORMALIZERS[path[2]]
                             ELSE LINE_ITEM_NORMALIZERS[path[2]]

Normalize(path, raw) ==
  CASE Kind(path) = "text"     -> normalize_text(raw)
    [] Kind(path) = "date"     -> normalize_date(raw)
    [] Kind(path) = "currency" -> normalize_currency(raw)
    [] Kind(path) = "number"   -> normalize_decimal(raw)

\* What may stand at a path: the text (an extraction's numbers are Decimals),
\* and the result.
Raws(path) ==
  CASE Kind(path) = "text"     -> WordTexts
    [] Kind(path) = "date"     -> DateTexts
    [] Kind(path) = "currency" -> CurrencyTexts
    [] Kind(path) = "number"   -> NumberTexts \cup Decimals

Values(path) ==
  CASE Kind(path) = "text"     -> Words
    [] Kind(path) = "date"     -> Dates
    [] Kind(path) = "currency" -> Currencies
    [] Kind(path) = "number"   -> Decimals

normalize_invoice(raw) ==
  [lines |-> raw.lines,
   at    |-> [p \in Paths(raw.lines) |-> Normalize(p, raw.at[p])]]

-----------------------------------------------------------------------------
(* The rows of a normalization attempt: its scalar columns, a row per line  *)
(* with a position counted from zero, a row per field error                 *)

\* Mutant: positions counted from one.
ColumnsFromOne(invoice) ==
  [scalars |-> [name \in DOMAIN SCALAR_NORMALIZERS |-> invoice.at[<<0, name>>].value],
   line_items |->
     {[position |-> i,
       leaves   |-> [leaf \in DOMAIN LINE_ITEM_NORMALIZERS |-> invoice.at[<<i, leaf>>].value]] :
      i \in 1..invoice.lines},
   errors |-> {[field_path |-> p, code |-> invoice.at[p].error] :
               p \in {q \in Paths(invoice.lines) : invoice.at[q].error # Null}}]

normalized_invoice_to_columns(invoice) ==
  [scalars |-> [name \in DOMAIN SCALAR_NORMALIZERS |-> invoice.at[<<0, name>>].value],
   line_items |->
     {[position |-> i - 1,
       leaves   |-> [leaf \in DOMAIN LINE_ITEM_NORMALIZERS |-> invoice.at[<<i, leaf>>].value]] :
      i \in 1..invoice.lines},
   errors |-> {[field_path |-> p, code |-> invoice.at[p].error] :
               p \in {q \in Paths(invoice.lines) : invoice.at[q].error # Null}}]

normalized_invoice_from_rows(rows) ==
  LET lines == Cardinality(rows.line_items)
      RowAt(position) == CHOOSE r \in rows.line_items : r.position = position
      ValueAt(p) == IF p[1] = 0 THEN rows.scalars[p[2]] ELSE RowAt(p[1] - 1).leaves[p[2]]
      ErrorAt(p) == {e.code : e \in {r \in rows.errors : r.field_path = p}} IN
  [lines |-> lines,
   at |-> [p \in Paths(lines) |->
             [value |-> ValueAt(p),
              error |-> IF ErrorAt(p) = {} THEN Null ELSE CHOOSE code \in ErrorAt(p) : TRUE]]]

\* What NormalizedInvoice validates when it is built and again when it is
\* read: an error names a path the invoice has, and leaves no value there.
IsNormalizedInvoice(rows) ==
  /\ {r.position : r \in rows.line_items} = 0..(Cardinality(rows.line_items) - 1)
  /\ \A e \in rows.errors :
       /\ e.code \in NormalizationErrorCode
       /\ e.field_path \in Paths(Cardinality(rows.line_items))
       /\ normalized_invoice_from_rows(rows).at[e.field_path].value = Null

-----------------------------------------------------------------------------
(* merge_correction *)

\* Decimals are compared as numbers, so a change of scale alone is none.
values_equal(path, left, right) ==
  IF Kind(path) = "number" /\ Null \notin {left, right}
  THEN SameDecimal(left, right) ELSE left = right

SameResult(path, left, right) ==
  values_equal(path, left.value, right.value) /\ left.error = right.error

Entry(operation, path, previous, result) ==
  [operation |-> operation, field_path |-> path, previous |-> previous,
   value |-> result.value, error |-> result.error]

\* What CorrectionFieldEntry and InvoiceCorrection validate: an entry with an
\* error has no value, a line is added or removed as a whole, and no path
\* has two entries.
IsInvoiceCorrection(entries) ==
  /\ \A e \in entries :
       /\ e.error # Null \/ e.operation = "REMOVE_LINE_ITEM" => e.value = Null
       /\ Len(e.field_path) = IF e.operation = "SET_FIELD" THEN 2 ELSE 1
  /\ \A e, f \in entries : e.field_path = f.field_path => e = f

\* Mutant: a change of a field's error alone is not recorded.
ValueEntries(base, merged) ==
  {Entry("SET_FIELD", p,
         IF p \in Paths(base.lines) THEN base.at[p].value ELSE Null, merged.at[p]) :
   p \in {q \in Paths(merged.lines) :
            IF q \in Paths(base.lines)
            THEN ~values_equal(q, base.at[q].value, merged.at[q].value)
            ELSE merged.at[q].value # Null}}

SetEntries(base, merged) ==
  {Entry("SET_FIELD", p,
         IF p \in Paths(base.lines) THEN base.at[p].value ELSE Null, merged.at[p]) :
   p \in {q \in Paths(merged.lines) :
            IF q \in Paths(base.lines) THEN ~SameResult(q, base.at[q], merged.at[q])
                                       ELSE merged.at[q] # ABSENT}}

AddEntries(base, merged) ==
  {Entry("ADD_LINE_ITEM", <<i>>, Null, ABSENT) : i \in (base.lines + 1)..merged.lines}

RemoveEntries(base, merged) ==
  {Entry("REMOVE_LINE_ITEM", <<i>>, Null, ABSENT) : i \in (merged.lines + 1)..base.lines}

\* The whole submission is normalized again; the entries are where that
\* differs from the base.
merge_correction(base, submitted) ==
  LET merged == normalize_invoice(submitted) IN
  [merged  |-> merged,
   entries |-> SetEntries(base, merged) \union AddEntries(base, merged)
                 \union RemoveEntries(base, merged)]
=============================================================================
