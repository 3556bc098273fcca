---------------------------- MODULE ReviewScreen ----------------------------
(***************************************************************************)
(* The fields of one document from its extraction through any number of    *)
(* corrections: the review screen (frontend review-detail.tsx) turns the   *)
(* current chain into a draft, reviewers edit their drafts at the same     *)
(* time, and a submitted draft becomes the next normalized invoice         *)
(* (CorrectionService._execute, here in one step; its transactions are     *)
(* those of module CorrectionService).                                     *)
(*                                                                         *)
(* What is typed is a writing (module Writers); the code sees the text only. *)
(***************************************************************************)
EXTENDS Writers

CONSTANTS Reviewers,
          Closed,          \* no invoice on a reviewer's screen
          Cases,           \* what a behaviour is about: [extraction, palette, lines]
          MaxEdits, MaxCorrections   \* bounds of the model

\* An invoice of writings: an extraction, or a draft.
IsDraft(draft) ==
  /\ draft.lines \in Nat
  /\ draft = [lines |-> draft.lines, at |-> [p \in Paths(draft.lines) |-> draft.at[p]]]
  /\ \A p \in Paths(draft.lines) : IsRead(p, draft.at[p].text)

IsCase(invoice, palette, lines) ==
  /\ IsDraft(invoice)
  /\ \A p \in Paths(invoice.lines) : IsMeant(p, invoice.at[p])
  /\ \A typed \in palette :
       IsRead(typed.path, typed.writing.text) /\ IsMeant(typed.path, typed.writing)
  /\ lines \in Nat

ASSUME ScreenAssumption ==
  /\ MaxEdits \in Nat /\ MaxCorrections \in Nat
  /\ \A c \in Cases : IsCase(c.extraction, c.palette, c.lines)

VARIABLES
  extraction,   \* the extraction, each raw value with what the vendor meant
  typing,       \* what reviewers do in this behaviour: the writings they type,
                \* with their paths, and the most lines they make
  history,      \* the rows of the normalizations, oldest first
  log,          \* the corrections: the draft submitted, the normalization it
                \* was made from, and the entries recorded
  screen        \* reviewer -> what the review page holds

vars == <<extraction, typing, history, log, screen>>

RawOf(invoice) ==
  [lines |-> invoice.lines, at |-> [p \in DOMAIN invoice.at |-> invoice.at[p].text]]

Invoice(k) == normalized_invoice_from_rows(history[k])

-----------------------------------------------------------------------------
(* The draft *)

\* A value as the API returns it and an input shows it.
Shown(path, value) ==
  IF value \in Decimals THEN str_decimal(value)
  ELSE IF value \in Dates THEN str_date(value)
  ELSE value

Larger(m, n) == IF m > n THEN m ELSE n

\* What was normalized, or else what was extracted, or else nothing.
invoiceDraftFromChain(invoice) ==
  LET normalized(p) == IF p \in Paths(invoice.lines) THEN invoice.at[p].value ELSE Null
      extracted(p)  == IF p \in Paths(extraction.lines) THEN extraction.at[p].text ELSE Null
      lines == Larger(extraction.lines, invoice.lines) IN
  [lines |-> lines,
   at |-> [p \in Paths(lines) |->
             Writing(Shown(p, IF normalized(p) # Null THEN normalized(p) ELSE extracted(p)))]]

Page(rows, seen) ==
  [seen |-> seen, edits |-> 0,
   draft |-> invoiceDraftFromChain(normalized_invoice_from_rows(rows))]

-----------------------------------------------------------------------------
(* The reviewers *)

Init ==
  /\ \E c \in Cases :
       extraction = c.extraction /\ typing = [palette |-> c.palette, lines |-> c.lines]
  /\ history = <<normalized_invoice_to_columns(normalize_invoice(RawOf(extraction)))>>
  /\ log = <<>>
  /\ screen = [r \in Reviewers |-> Closed]

\* The page is opened, or loaded again.
Load(r) ==
  /\ screen[r] # Closed => screen[r].seen # Len(history)
  /\ Len(log) < MaxCorrections
  /\ screen' = [screen EXCEPT ![r] = Page(history[Len(history)], Len(history))]
  /\ UNCHANGED <<extraction, typing, history, log>>

EditDraft(r, draft) ==
  /\ screen[r].edits < MaxEdits
  /\ screen' = [screen EXCEPT ![r] = [seen |-> @.seen, edits |-> @.edits + 1, draft |-> draft]]
  /\ UNCHANGED <<extraction, typing, history, log>>

Type(r) ==
  /\ screen[r] # Closed
  /\ \E typed \in typing.palette :
       /\ typed.path \in Paths(screen[r].draft.lines)
       /\ EditDraft(r, [screen[r].draft EXCEPT !.at[typed.path] = typed.writing])

AddLine(r) ==
  /\ screen[r] # Closed
  /\ screen[r].draft.lines < typing.lines
  /\ LET lines == screen[r].draft.lines + 1 IN
     EditDraft(r, [lines |-> lines,
                   at |-> [p \in Paths(lines) |->
                             IF p[1] = lines THEN Writing(Null) ELSE screen[r].draft.at[p]]])

\* The lines after the removed one move up.
RemoveLine(r) ==
  /\ screen[r] # Closed
  /\ \E i \in 1..screen[r].draft.lines :
       LET lines == screen[r].draft.lines - 1 IN
       EditDraft(r, [lines |-> lines,
                     at |-> [p \in Paths(lines) |->
                               screen[r].draft.at[<<IF p[1] < i THEN p[1] ELSE p[1] + 1, p[2]>>]]])

-----------------------------------------------------------------------------
(* POST /documents/{id}/corrections *)

Merge(r) == merge_correction(Invoice(Len(history)), RawOf(screen[r].draft))

\* Mutant: a draft of an older chain is taken for the current one.
AnySource(r) == screen[r].seen \in DOMAIN history

\* ensure_decision_is_current_source: every correction makes a new decision,
\* so the decision a draft names is the current one as long as its
\* normalization is.
IsCurrentSource(r) == screen[r].seen = Len(history)

\* 409 for a draft of an older chain, 422 for one that changes nothing.
Refuse(r) ==
  /\ screen[r] # Closed
  /\ ~IsCurrentSource(r) \/ Merge(r).entries = {}
  /\ UNCHANGED vars

\* The projection is the next normalization.  An accepted invoice leaves the
\* screen, one that still needs review is shown again from the new chain.
Apply(r) ==
  /\ screen[r] # Closed
  /\ Len(log) < MaxCorrections
  /\ IsCurrentSource(r)
  /\ Merge(r).entries # {}
  /\ LET rows == normalized_invoice_to_columns(Merge(r).merged) IN
     /\ history' = Append(history, rows)
     /\ log' = Append(log, [seen |-> screen[r].seen, draft |-> screen[r].draft,
                             entries |-> Merge(r).entries])
     /\ \E page \in {Closed, Page(rows, Len(history) + 1)} :
          screen' = [screen EXCEPT ![r] = page]
  /\ UNCHANGED <<extraction, typing>>

Next ==
  \E r \in Reviewers :
    Load(r) \/ Type(r) \/ AddLine(r) \/ RemoveLine(r) \/ Refuse(r) \/ Apply(r)

Spec == Init /\ [][Next]_vars

-----------------------------------------------------------------------------
(* Properties *)

\* Every normalization kept is a NormalizedInvoice when it is read back: its
\* lines are counted without a gap and a field with an error has no value.
\* Every correction kept is an InvoiceCorrection.
TypeOK ==
  /\ Len(history) = Len(log) + 1
  /\ \A k \in DOMAIN history : IsNormalizedInvoice(history[k])
  /\ \A k \in DOMAIN log : IsInvoiceCorrection(log[k].entries)
  /\ \A r \in Reviewers :
       screen[r] # Closed =>
         /\ screen[r].seen \in DOMAIN history
         /\ screen[r].edits \in 0..MaxEdits
         /\ DOMAIN screen[r].draft.at = Paths(screen[r].draft.lines)

Agree(path, left, right) ==
  left.error = right.error /\ values_equal(path, left.value, right.value)

Replay(invoice, entries) ==
  LET Count(operation) == Cardinality({e \in entries : e.operation = operation})
      SetAt(p) == {e \in entries : e.operation = "SET_FIELD" /\ e.field_path = p}
      lines == invoice.lines + Count("ADD_LINE_ITEM") - Count("REMOVE_LINE_ITEM") IN
  [lines |-> lines,
   at |-> [p \in Paths(lines) |->
             IF SetAt(p) # {} THEN LET e == CHOOSE e \in SetAt(p) : TRUE
                                   IN [value |-> e.value, error |-> e.error]
             ELSE IF p \in Paths(invoice.lines) THEN invoice.at[p] ELSE ABSENT]]

\* The entries of all corrections, applied to what the engine made of the
\* extraction, give the current invoice: lines, values and errors.
AuditLogReplays ==
  LET replayed[k \in DOMAIN history] ==
        IF k = 1 THEN Invoice(1) ELSE Replay(replayed[k - 1], log[k - 1].entries)
      current == Invoice(Len(history)) IN
  /\ replayed[Len(history)].lines = current.lines
  /\ \A p \in Paths(current.lines) : Agree(p, replayed[Len(history)].at[p], current.at[p])

\* The page as it was loaded, before the edits that led to a correction.
ShownTo(c) == invoiceDraftFromChain(Invoice(c.seen))

Untouched(c, path) ==
  /\ path \in Paths(c.draft.lines) \intersect Paths(ShownTo(c).lines)
  /\ c.draft.at[path].text = ShownTo(c).at[path].text

\* A number whose text has an exponent, and text that NFC would still change,
\* do not survive being shown and sent back.
Fragile(path, value) ==
  /\ value # Null
  /\ \/ Kind(path) = "number" /\ str_decimal(value).runs = <<>>
     \/ Kind(path) = "text" /\ value.form = "loose"

\* A field whose text the reviewer left as the page showed it stays what it
\* was, whoever else corrects the invoice, unless it is fragile or an earlier
\* correction left nothing there (then the page shows the extraction again).
UntouchedFieldsKeep ==
  \A k \in DOMAIN log : \A p \in Paths(log[k].draft.lines) :
    Untouched(log[k], p) =>
      LET before == Invoice(k) IN
      IF p \in Paths(before.lines)
      THEN \/ Agree(p, before.at[p], Invoice(k + 1).at[p])
           \/ Fragile(p, before.at[p].value)
           \/ k > 1 /\ before.at[p].value = Null
      ELSE k > 1

\* What the policy reads in its own way although it could be meant otherwise:
\* three digits after one separator, and two numbers that may both be months.
ReadByPolicy(path, text) ==
  \/ /\ Kind(path) = "number" /\ "runs" \in DOMAIN text
     /\ Len(text.seps) = 1 /\ text.runs[1] <= 3 /\ text.runs[2] = 3
  \/ /\ Kind(path) = "date"
     /\ text.form = "num" /\ text.a <= 12 /\ text.b <= 12

\* House writing is read as it was meant; any other is read as it was meant,
\* flagged, or read by the documented policy.
Understood(path, writing, result) ==
  \/ writing.meant = Unknown
  \/ values_equal(path, result.value, writing.meant)
  \/ /\ writing.by # "house"
     /\ result.error # Null \/ ReadByPolicy(path, writing.text)

\* What a vendor printed or a reviewer typed is kept as it was meant or is
\* flagged, from the text to the rows of the normalization and back.
MeaningIsKeptOrFlagged ==
  /\ \A p \in Paths(extraction.lines) :
       Understood(p, extraction.at[p], Invoice(1).at[p])
  /\ \A k \in DOMAIN log : \A p \in Paths(log[k].draft.lines) :
       Understood(p, log[k].draft.at[p], Invoice(k + 1).at[p])

\* docs/stage-8-corrections.md:318-319: "one row per field the reviewer
\* actually changed, never a full copy".
EntriesAreEdits ==
  \A k \in DOMAIN log : \A e \in log[k].entries :
    e.operation = "SET_FIELD" => ~Untouched(log[k], e.field_path)

-----------------------------------------------------------------------------
(* The inductive invariant behind the first four *)

IsSequence(s) == s \in Seq({s[k] : k \in DOMAIN s})

\* What the k-th normalization was made from.
SourceOf(k) == IF k = 1 THEN extraction ELSE log[k - 1].draft

\* What a draft holds was shown, or typed at a path of that kind.
WasTyped(path, writing) ==
  \/ writing.meant = Unknown
  \/ \E typed \in typing.palette : Kind(typed.path) = Kind(path) /\ writing = typed.writing

IsOurDraft(draft) ==
  IsDraft(draft) /\ \A p \in Paths(draft.lines) : WasTyped(p, draft.at[p])

\* Each normalization is kept as the engine made it, from the extraction or
\* from the draft of the correction before it; a correction was made from the
\* normalization before it, and says where it differs.
ChainIsKept ==
  /\ IsSequence(history) /\ IsSequence(log)
  /\ Len(history) = Len(log) + 1
  /\ \A k \in DOMAIN history :
       history[k] = normalized_invoice_to_columns(normalize_invoice(RawOf(SourceOf(k))))
  /\ \A k \in DOMAIN log :
       /\ log[k].seen = k /\ IsOurDraft(log[k].draft)
       /\ log[k].entries = merge_correction(Invoice(k), RawOf(log[k].draft)).entries

\* A page holds a draft, of a chain that exists.
PagesAreDrafts ==
  /\ DOMAIN screen = Reviewers
  /\ \A r \in Reviewers :
       screen[r] # Closed => /\ screen[r].seen \in DOMAIN history
                             /\ screen[r].edits \in 0..MaxEdits
                             /\ IsOurDraft(screen[r].draft)

ScreenIInv ==
  /\ IsCase(extraction, typing.palette, typing.lines)
  /\ ChainIsKept
  /\ PagesAreDrafts
=============================================================================
