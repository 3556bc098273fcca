------------------------------ MODULE MCFields ------------------------------
(***************************************************************************)
(* Instances of ReviewScreen for TLC: one behaviour per way to write an    *)
(* amount or a date, and behaviours in which two reviewers clear, mistype, *)
(* add and remove.                                                         *)
(***************************************************************************)
EXTENDS ReviewScreen, TLC

-----------------------------------------------------------------------------
(* Amounts *)

Magnitudes == {[coef |-> c[1], scale |-> c[2]] :
  c \in {<<123456, 2>>, <<1234, 0>>, <<1234, 3>>, <<1234567, 0>>, <<1234567, 1>>,
         <<125, 1>>, <<5, 7>>, <<0, 2>>}}

AmountWritings ==
  {Amount(d, convention, <<"", "">>, "none", FALSE) :
     d \in Magnitudes, convention \in Conventions}
  \union
  {Amount([coef |-> 123456, scale |-> 2], convention, signs, affix, outside) :
     convention \in {<<".", ",">>, <<",", "">>}, signs \in Signs,
     affix \in {"none", "code", "symbol", "glued"}, outside \in BOOLEAN}

-----------------------------------------------------------------------------
(* Dates *)

Days == {<<2024, 2, 29>>, <<2023, 2, 29>>, <<2023, 4, 31>>, <<2024, 3, 4>>, <<2024, 3, 3>>,
         <<2024, 12, 13>>, <<2024, 1, 31>>, <<2024, 11, 11>>, <<2024, 5, 22>>}

DateWritings ==
  {DateWriting(c[1], c[2], c[3], c[4]) :
     c \in {x \in Days \X DateForms \X {"", "th", "rd", "nd"} \X {"a", "b"} :
              /\ x[3] = "" \/ x[2] = "name" => x[4] = "a"
              /\ x[2] \in {"short", "junk"} => x[3] = ""}}

-----------------------------------------------------------------------------
(* Invoices *)

Nothing == Writing(Null)
Decimal(coef, scale) == Writing([coef |-> coef, scale |-> scale])
Text(word, form) == Writing([word |-> word, form |-> form])
Code(code, three) == Writing([code |-> code, three_letters |-> three])

Blank(lines) == [lines |-> lines, at |-> [p \in Paths(lines) |-> Nothing]]

Printed ==
  [Blank(1) EXCEPT
     !.at[<<0, "vendor_name">>]  = Text("acme", "messy"),
     !.at[<<0, "customer_name">>] = Text("essay", "long"),
     !.at[<<0, "currency">>]     = Code("XXX", TRUE),
     !.at[<<0, "total_amount">>] = Decimal(125, 1),
     !.at[<<1, "line_total">>]   = Decimal(125, 1)]

Dated(writing) == [Blank(0) EXCEPT !.at[<<0, "invoice_date">>] = writing]

Typed(path, writing) == [path |-> path, writing |-> writing]

TOTAL == <<0, "total_amount">>
Plain(coef, scale) ==
  Amount([coef |-> coef, scale |-> scale], <<".", "">>, <<"", "">>, "none", FALSE)
Cleared == [text |-> Null, meant |-> Null, by |-> "house"]

\* Amounts cleared, unreadable, so small that they are shown with an
\* exponent, or changed in scale only; text that cleaning changes twice;
\* currencies the list lacks; lines emptied, added and removed.
Corrections ==
  {[palette |-> {Typed(TOTAL, Cleared), Typed(TOTAL, Plain(130, 0))}, lines |-> 0],
   [palette |-> {Typed(TOTAL, Amount([coef |-> 1305, scale |-> 1], <<",", "">>, <<"", "">>, "none", FALSE)),
                 Typed(TOTAL, Plain(5, 7))}, lines |-> 0],
   [palette |-> {Typed(TOTAL, Plain(1250, 2)), Typed(<<0, "vendor_name">>, Text("acme", "split"))},
    lines |-> 0],
   [palette |-> {Typed(<<0, "currency">>, Code("EUR", TRUE)), Typed(<<0, "currency">>, Code("EU?", FALSE))},
    lines |-> 0],
   [palette |-> {Typed(<<1, "line_total">>, Cleared), Typed(<<2, "description">>, Text("fee", "clean"))},
    lines |-> 2]}

\* An amount is cleared or replaced, and corrections go on.
MCCleared ==
  {[extraction |-> Printed, lines |-> 0,
    palette |-> {Typed(TOTAL, Cleared), Typed(<<0, "currency">>, Code("EUR", TRUE))}]}

MCCases ==
  {[extraction |-> Blank(0), palette |-> {Typed(TOTAL, w)}, lines |-> 0] : w \in AmountWritings}
  \union {[extraction |-> Dated(w), palette |-> {Typed(<<0, "due_date">>, w)}, lines |-> 0] :
            w \in DateWritings}
  \union {[extraction |-> Printed, palette |-> c.palette, lines |-> c.lines] : c \in Corrections}

ReviewerSymmetry == Permutations(Reviewers)
=============================================================================
