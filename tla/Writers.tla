------------------------------ MODULE Writers ------------------------------
(***************************************************************************)
(* What vendors print and reviewers type.  A writing is a text together    *)
(* with what its writer meant by it, and whether it is written the way     *)
(* the normalization policy documents ("house") or another way.            *)
(***************************************************************************)
EXTENDS CorrectionProjection

CONSTANT Unknown   \* what a text meant that nobody wrote, or that is a word

Writing(text) == [text |-> text, meant |-> Unknown, by |-> "house"]

-----------------------------------------------------------------------------
(* Amounts: whatever the digits, a writer groups them by three or not at    *)
(* all and has one sign for the decimal point                               *)

Signs == SIGN_FORMS \cup {<<"", "">>, <<"(", "">>, <<"-", "-">>, <<"+", "-">>}

\* The decimal point and what stands between groups.
Conventions == {<<".", "">>, <<".", ",">>, <<".", "space">>, <<",", "">>, <<",", ".">>, <<",", "space">>}

\* A number of n digits, the first group of 1, 2 or 3.
GroupsOf(n) ==
  LET groups == (n + 2) \div 3 IN
  [i \in 1..groups |-> IF i = 1 THEN n - 3 * (groups - 1) ELSE 3]

AmountText(d, convention, signs, affix, outside) ==
  LET n == Digits[d.coef]
      whole == IF n > d.scale THEN n - d.scale ELSE 1
      runs == IF convention[2] = "" THEN <<whole>> ELSE GroupsOf(whole)
      groups == [i \in 1..(Len(runs) - 1) |-> convention[2]] IN
  [first |-> signs[1], last |-> signs[2], affix |-> affix, outside |-> outside,
   coef |-> d.coef,
   runs |-> IF d.scale = 0 THEN runs ELSE Append(runs, d.scale),
   seps |-> IF d.scale = 0 THEN groups ELSE Append(groups, convention[1])]

Signed(d, text) == [d EXCEPT !.coef = IF Negative(text) THEN - @ ELSE @]

Amount(d, convention, signs, affix, outside) ==
  LET text == AmountText(d, convention, signs, affix, outside) IN
  [text  |-> text,
   meant |-> IF WellSigned(text) THEN Signed(d, text) ELSE Null,
   by    |-> IF convention[1] = "." /\ affix # "glued" /\ ~outside /\ WellSigned(text)
             THEN "house" ELSE "other"]

IsAmount(writing) ==
  LET text == writing.text IN
  \E convention \in Conventions, scale \in {0} \cup {text.runs[i] : i \in DOMAIN text.runs} :
    /\ \A i \in DOMAIN text.seps : text.seps[i] \in {convention[1], convention[2]}
    /\ writing = Amount([coef |-> text.coef, scale |-> scale], convention,
                        <<text.first, text.last>>, text.affix, text.outside)

-----------------------------------------------------------------------------
(* Dates: a year, a month and a day, which may be none of a calendar        *)

DateForms == {"ymd", "num", "name", "us", "short", "junk"}

Meaning(d) == IF IsRealDate(d[1], d[2], d[3])
              THEN [year |-> d[1], month |-> d[2], day |-> d[3]] ELSE Null

MonthFirst(form) == form \in {"ymd", "us"}

\* An ordinal suffix as a writer of the documented forms may attach one.
Fits(d, form, suffix, on) ==
  suffix # "" => suffix = ordinal_suffix(d[3]) /\ (on = "b" <=> MonthFirst(form))

DateText(d, form, suffix, on) ==
  [form |-> IF form = "us" THEN "num" ELSE form, year |-> d[1],
   a |-> IF MonthFirst(form) THEN d[2] ELSE d[3],
   b |-> IF MonthFirst(form) THEN d[3] ELSE d[2],
   suffix |-> suffix, on |-> on]

DateWriting(d, form, suffix, on) ==
  [text  |-> DateText(d, form, suffix, on), meant |-> Meaning(d),
   by    |-> IF form \in {"ymd", "num", "name"} /\ Fits(d, form, suffix, on)
             THEN "house" ELSE "other"]

IsDateWriting(writing) ==
  LET text == writing.text IN
  \E form \in DateForms, d \in {<<text.year, text.a, text.b>>, <<text.year, text.b, text.a>>} :
    /\ d[2] \in 1..12 /\ d[3] \in 1..31
    /\ writing = DateWriting(d, form, text.suffix, text.on)

-----------------------------------------------------------------------------
(* What may be written at a path: nothing, a word or a code of whatever     *)
(* meaning, an amount or a date                                             *)

IsRead(path, text) == text \in Raws(path) \cup {Null}

IsMeant(path, writing) ==
  \/ writing.meant = Unknown
  \/ writing.text = Null /\ writing.meant = Null
  \/ Kind(path) = "number" /\ writing.text \in NumberTexts /\ IsAmount(writing)
  \/ Kind(path) = "date" /\ writing.text \in DateTexts /\ IsDateWriting(writing)
=============================================================================
