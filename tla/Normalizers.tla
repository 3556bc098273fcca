---------------------------- MODULE Normalizers ----------------------------
(***************************************************************************)
(* What one field's text becomes: normalizers.py.  A text is a record of   *)
(* what the code tells apart: the shape of a number's digit runs, the      *)
(* order of a date's parts, the invisible characters of a name.  A blank   *)
(* text is Null, as the request's _blank_to_none makes it.                 *)
(***************************************************************************)
EXTENDS Integers, Sequences

CONSTANTS Null,                     \* an absent value, a blank text
          APPROVED_CURRENCY_CODES

Ok(value)  == [value |-> value, error |-> Null]
Fail(code) == [value |-> Null,  error |-> code]
ABSENT == Ok(Null)

NormalizationErrorCode ==
  {"invalid_date", "invalid_currency", "unknown_currency",
   "invalid_number", "ambiguous_number", "text_too_long"}

-----------------------------------------------------------------------------
(* Text: a word and its form.  "messy" has white space or control           *)
(* characters to clean, "loose" a letter and a combining accent that NFC    *)
(* composes, "split" the two with a zero-width character between them, which *)
(* goes only after NFC has run; "long" is over the field's maximum.         *)

TextForms == {"clean", "messy", "loose", "split", "long"}
WordTexts == [word : STRING, form : TextForms]
Words     == [word : STRING, form : {"clean", "loose"}]

clean_text(text) ==
  [text EXCEPT !.form = CASE @ \in {"messy", "loose"} -> "clean"
                          [] @ = "split" -> "loose"
                          [] OTHER -> @]

normalize_text(raw) ==
  IF raw = Null THEN ABSENT
  ELSE IF clean_text(raw).form = "long" THEN Fail("text_too_long")
  ELSE Ok(clean_text(raw))

-----------------------------------------------------------------------------
(* Currencies: the letters upper-cased, and whether they are three letters  *)

CurrencyTexts == [code : STRING, three_letters : BOOLEAN]
Currencies == [code : APPROVED_CURRENCY_CODES, three_letters : {TRUE}]

normalize_currency(raw) ==
  IF raw = Null THEN ABSENT
  ELSE IF ~raw.three_letters THEN Fail("invalid_currency")
  ELSE IF raw.code \notin APPROVED_CURRENCY_CODES THEN Fail("unknown_currency")
  ELSE Ok(raw)

-----------------------------------------------------------------------------
(* Numbers: the signs at the two ends of the text, what is written next to  *)
(* the digits, whether outside of the sign, and the digits as runs parted   *)
(* by separators; coef is the number that all the digits spell.             *)

Separators == {".", ",", "space"}

NumberTexts ==
  [first : {"", "-", "+", "("}, last : {"", "-", ")"},
   affix : {"none", "code", "symbol", "glued"}, outside : BOOLEAN,
   coef : Nat, runs : Seq(Nat), seps : Seq(Separators)]
Decimals == [coef : Int, scale : Nat]

SIGN_FORMS == {<<"(", ")">>, <<"", "-">>, <<"-", "">>, <<"+", "">>}
WellSigned(s) == <<s.first, s.last>> \in SIGN_FORMS \union {<<"", "">>}
Negative(s) == "-" \in {s.first, s.last} \/ s.first = "("

\* A code is stripped at a word boundary, a symbol at the ends, and both
\* after the sign was looked for.
AffixIsStripped(s) ==
  s.affix # "glued" /\ (s.outside => <<s.first, s.last>> = <<"", "">>)

\* Mutant: a group may have any number of digits.
AnyGroups(s, sep, n) ==
  n > 1 /\ s.runs[1] \in 1..3 /\ \A i \in 2..n : s.seps[i - 1] = sep

\* The first n runs are groups of three (the first may be shorter).
GroupedBy(s, sep, n) ==
  /\ n > 1 /\ s.runs[1] \in 1..3
  /\ \A i \in 2..n : s.runs[i] = 3 /\ s.seps[i - 1] = sep

IsPlain(s) == Len(s.runs) = 1 \/ s.seps = <<".">>
IsGrouped(s, sep) ==
  LET n == Len(s.runs) IN
  \/ GroupedBy(s, sep, n)
  \/ n > 2 /\ GroupedBy(s, sep, n - 1) /\ s.seps[n - 1] = "."
IsDecimalComma(s) ==
  LET n == Len(s.runs) IN
  /\ n > 1 /\ s.seps[n - 1] = ","
  /\ n = 2 \/ GroupedBy(s, ".", n - 1) \/ GroupedBy(s, "space", n - 1)

ParsedDecimal(s) ==
  [coef  |-> IF Negative(s) THEN - s.coef ELSE s.coef,
   scale |-> IF s.seps # <<>> /\ s.seps[Len(s.seps)] = "." THEN s.runs[Len(s.runs)] ELSE 0]

parse_decimal_string(s) ==
  IF ~WellSigned(s) \/ ~AffixIsStripped(s) \/ s.runs = <<>> THEN Fail("invalid_number")
  ELSE IF IsPlain(s) \/ IsGrouped(s, ",") \/ IsGrouped(s, "space") THEN Ok(ParsedDecimal(s))
  ELSE IF IsDecimalComma(s) THEN Fail("ambiguous_number")
  ELSE Fail("invalid_number")

\* An extraction holds Decimals, a correction holds texts.
normalize_decimal(raw) ==
  IF raw = Null THEN ABSENT
  ELSE IF raw \in Decimals THEN Ok(raw)
  ELSE parse_decimal_string(raw)

Pow10[n \in Nat] == IF n = 0 THEN 1 ELSE 10 * Pow10[n - 1]

Digits[n \in Nat] == IF n < 10 THEN 1 ELSE 1 + Digits[n \div 10]

\* str(Decimal): no grouping, and an exponent as soon as there are more than
\* five zeros behind the point.  The exponent leaves no run of digits the
\* parser knows.
str_decimal(d) ==
  LET abs == IF d.coef < 0 THEN - d.coef ELSE d.coef
      digits == Digits[abs]
      whole  == IF digits > d.scale THEN digits - d.scale ELSE 1
      exponent == digits - d.scale <= -6 IN
  [first |-> IF d.coef < 0 THEN "-" ELSE "", last |-> "", affix |-> "none",
   outside |-> FALSE, coef |-> abs,
   runs |-> IF exponent THEN <<>> ELSE IF d.scale = 0 THEN <<whole>> ELSE <<whole, d.scale>>,
   seps |-> IF exponent \/ d.scale = 0 THEN <<>> ELSE <<".">>]

\* Equal as numbers: the longer scale has zeros more.
SameDecimal(d, e) ==
  LET Extends(x, y) == x.coef = y.coef * Pow10[x.scale - y.scale] IN
  IF d.scale >= e.scale THEN Extends(d, e) ELSE Extends(e, d)

-----------------------------------------------------------------------------
(* Dates: the order of the parts, the two parts beside the year as they     *)
(* come (a month's name is its number), and an ordinal suffix on one of     *)
(* them.  "short" has a two-digit year, "junk" is no form the code knows.   *)

DateTexts ==
  [form : {"ymd", "num", "name", "short", "junk"}, year : Nat, a : Nat, b : Nat,
   suffix : {"", "st", "nd", "rd", "th"}, on : {"a", "b"}]

ordinal_suffix(day) ==
  CASE day % 100 \in 11..13 -> "th"
    [] day % 10 = 1 -> "st"
    [] day % 10 = 2 -> "nd"
    [] day % 10 = 3 -> "rd"
    [] OTHER -> "th"

\* The part of the text that is the day.
DayPart(s) ==
  CASE s.form = "ymd"  -> "b"
    [] s.form = "num"  -> IF s.b > 12 /\ s.a <= 12 THEN "b" ELSE "a"
    [] s.form = "name" -> "a"
    [] OTHER -> "none"

\* A suffix must fit its number and be attached to the day.
OrdinalFits(s) ==
  s.suffix # "" => s.on = DayPart(s) /\ s.suffix = ordinal_suffix(s[s.on])

IsRealDate(y, m, d) ==
  /\ y \in 1..9999 /\ m \in 1..12 /\ d >= 1
  /\ d <= CASE m \in {4, 6, 9, 11} -> 30
            [] m = 2 -> IF y % 4 = 0 /\ (y % 100 # 0 \/ y % 400 = 0) THEN 29 ELSE 28
            [] OTHER -> 31

Dates == {d \in [year : Nat, month : Nat, day : Nat] :
            IsRealDate(d.year, d.month, d.day)}

to_iso(y, m, d) ==
  IF IsRealDate(y, m, d) THEN Ok([year |-> y, month |-> m, day |-> d])
                         ELSE Fail("invalid_date")

normalize_date(raw) ==
  IF raw = Null THEN ABSENT
  ELSE IF DayPart(raw) = "none" \/ ~OrdinalFits(raw) THEN Fail("invalid_date")
  ELSE IF DayPart(raw) = "a" THEN to_iso(raw.year, raw.b, raw.a)
  ELSE to_iso(raw.year, raw.a, raw.b)

str_date(d) == [form |-> "ymd", year |-> d.year, a |-> d.month, b |-> d.day,
                suffix |-> "", on |-> "a"]

-----------------------------------------------------------------------------
(* An absent value is no text, no value and no error *)

ASSUME AbsentAssumption ==
  Null \notin WordTexts \cup CurrencyTexts \cup NumberTexts \cup Decimals \cup DateTexts
              \cup Dates \cup NormalizationErrorCode

ASSUME CurrencyAssumption == APPROVED_CURRENCY_CODES \subseteq STRING
=============================================================================
