---------------------------- MODULE FieldProofs ----------------------------
(***************************************************************************)
(* What is proved of the fields of one document, for any extraction, any   *)
(* number of reviewers, lines and corrections, and whatever is typed.      *)
(***************************************************************************)
EXTENDS ReviewScreen, SequenceLemmas

-----------------------------------------------------------------------------
(* Powers of ten, and the digits of a number *)

LEMMA Pow10Unfolds ==
  /\ Pow10 \in [Nat -> Nat]
  /\ \A n \in Nat : Pow10[n] = IF n = 0 THEN 1 ELSE 10 * Pow10[n - 1]
<1> DEFINE F == [p \in Nat \X Nat |-> 10 * p[2]]
           prev == [n \in Nat |-> IF n = 0 THEN 0 ELSE n - 1]
<1>1. F \in [Nat \X Nat -> Nat] /\ prev \in [Nat -> Nat]
  OBVIOUS
<1>2. \A n \in Nat : n \in {0} \/ prev[n] < n
  OBVIOUS
<1>3. PICK g \in [Nat -> Nat] : Unfolds(g, Nat, 1, F, {0}, prev)
  <2> HIDE DEF F, prev
  <2> QED
    BY <1>1, <1>2, NaturalRecursion
<1>4. \A n \in Nat : g[n] = IF n = 0 THEN 1 ELSE 10 * g[n - 1]
  <2> SUFFICES ASSUME NEW n \in Nat PROVE g[n] = IF n = 0 THEN 1 ELSE 10 * g[n - 1]
    OBVIOUS
  <2>1. g[n] = IF n \in {0} THEN 1 ELSE F[<<n, g[prev[n]]>>]
    BY <1>3 DEF Unfolds
  <2>2. CASE n = 0
    BY <2>1, <2>2
  <2>3. CASE n # 0
    <3>1. prev[n] = n - 1 /\ n - 1 \in Nat /\ g[n - 1] \in Nat
      BY <2>3
    <3>2. F[<<n, g[n - 1]>>] = 10 * g[n - 1]
      BY <3>1
    <3> QED
      BY <2>1, <2>3, <3>1, <3>2
  <2> QED
    BY <2>2, <2>3
<1>5. g = [n \in Nat |-> IF n = 0 THEN 1 ELSE 10 * g[n - 1]]
  BY <1>4
<1>6. Pow10 = [n \in Nat |-> IF n = 0 THEN 1 ELSE 10 * Pow10[n - 1]]
  BY <1>5 DEF Pow10
<1> DEFINE G == {n \in Nat : Pow10[n] \in Nat}
<1>7. 0 \in G
  BY <1>6
<1>8. ASSUME NEW n \in Nat, n \in G
      PROVE  n + 1 \in G
  <2>1. Pow10[n + 1] = 10 * Pow10[n]
    BY <1>6
  <2> QED
    BY <1>8, <2>1
<1>9. Nat \subseteq G
  <2> HIDE DEF G
  <2> QED
    BY <1>7, <1>8, NaturalInduction
<1>10. \A n \in Nat : Pow10[n] \in Nat
  BY <1>9
<1> QED
  BY <1>6, <1>10

LEMMA Pow10Positive == \A n \in Nat : Pow10[n] \in Nat \ {0}
<1> DEFINE G == {n \in Nat : Pow10[n] # 0}
<1>1. 0 \in G
  BY Pow10Unfolds
<1>2. ASSUME NEW n \in Nat, n \in G
      PROVE  n + 1 \in G
  <2>1. Pow10[n + 1] = 10 * Pow10[n] /\ Pow10[n] \in Nat /\ Pow10[n] # 0
    BY <1>2, Pow10Unfolds
  <2> QED
    BY <2>1
<1>3. Nat \subseteq G
  <2> HIDE DEF G
  <2> QED
    BY <1>1, <1>2, NaturalInduction
<1> QED
  BY <1>3, Pow10Unfolds

LEMMA Pow10Adds ==
  ASSUME NEW b \in Nat
  PROVE  \A a \in Nat : Pow10[a + b] = Pow10[a] * Pow10[b]
<1> DEFINE G == {a \in Nat : Pow10[a + b] = Pow10[a] * Pow10[b]}
<1>1. 0 \in G
  BY Pow10Unfolds
<1>2. ASSUME NEW a \in Nat, a \in G
      PROVE  a + 1 \in G
  <2>1. /\ Pow10[(a + 1) + b] = 10 * Pow10[a + b] /\ Pow10[a + 1] = 10 * Pow10[a]
        /\ Pow10[a + b] = Pow10[a] * Pow10[b]
    <3>1. (a + 1) + b \in Nat /\ (a + 1) + b # 0 /\ ((a + 1) + b) - 1 = a + b
          /\ a + 1 # 0 /\ (a + 1) - 1 = a
      OBVIOUS
    <3> QED
      BY <1>2, <3>1, Pow10Unfolds
  <2>2. PICK x \in Nat, y \in Nat, z \in Nat : x = Pow10[a] /\ y = Pow10[b] /\ z = Pow10[a + b]
    BY Pow10Unfolds
  <2>3. z = x * y => 10 * z = (10 * x) * y
    OBVIOUS
  <2> QED
    BY <2>1, <2>2, <2>3
<1>3. Nat \subseteq G
  <2> HIDE DEF G
  <2> QED
    BY <1>1, <1>2, NaturalInduction
<1> QED
  BY <1>3

LEMMA DigitsUnfold ==
  /\ Digits \in [Nat -> Nat]
  /\ \A n \in Nat : Digits[n] >= 1
<1> DEFINE F == [p \in Nat \X Nat |-> 1 + p[2]]
           prev == [n \in Nat |-> n \div 10]
<1>1. F \in [Nat \X Nat -> Nat] /\ prev \in [Nat -> Nat]
  OBVIOUS
<1>2. \A n \in Nat : n \in 0 .. 9 \/ prev[n] < n
  OBVIOUS
<1>3. PICK g \in [Nat -> Nat] : Unfolds(g, Nat, 1, F, 0 .. 9, prev)
  <2> HIDE DEF F, prev
  <2> QED
    BY <1>1, <1>2, NaturalRecursion
<1>4. \A n \in Nat : g[n] = IF n < 10 THEN 1 ELSE 1 + g[n \div 10]
  <2> SUFFICES ASSUME NEW n \in Nat PROVE g[n] = IF n < 10 THEN 1 ELSE 1 + g[n \div 10]
    OBVIOUS
  <2>1. g[n] = IF n \in 0 .. 9 THEN 1 ELSE F[<<n, g[prev[n]]>>]
    BY <1>3 DEF Unfolds
  <2>2. prev[n] = n \div 10 /\ n \div 10 \in Nat /\ g[n \div 10] \in Nat
    OBVIOUS
  <2>3. F[<<n, g[n \div 10]>>] = 1 + g[n \div 10]
    BY <2>2
  <2> QED
    BY <2>1, <2>2, <2>3
<1>5. g = [n \in Nat |-> IF n < 10 THEN 1 ELSE 1 + g[n \div 10]]
  BY <1>4
<1>6. Digits = [n \in Nat |-> IF n < 10 THEN 1 ELSE 1 + Digits[n \div 10]]
  BY <1>5 DEF Digits
<1> DEFINE G == {n \in Nat : \A k \in 0 .. n : Digits[k] \in Nat /\ Digits[k] >= 1}
<1>7. 0 \in G
  BY <1>6
<1>8. ASSUME NEW n \in Nat, n \in G
      PROVE  n + 1 \in G
  <2>1. Digits[n + 1] = IF n + 1 < 10 THEN 1 ELSE 1 + Digits[(n + 1) \div 10]
    BY <1>6
  <2>2. n + 1 < 10 \/ (n + 1) \div 10 \in 0 .. n
    OBVIOUS
  <2>3. Digits[n + 1] \in Nat /\ Digits[n + 1] >= 1
    BY <1>8, <2>1, <2>2
  <2>4. \A k \in 0 .. n + 1 : k \in 0 .. n \/ k = n + 1
    OBVIOUS
  <2> QED
    BY <1>8, <2>3, <2>4
<1>9. Nat \subseteq G
  <2> HIDE DEF G
  <2> QED
    BY <1>7, <1>8, NaturalInduction
<1>10. \A n \in Nat : Digits[n] \in Nat /\ Digits[n] >= 1
  <2> SUFFICES ASSUME NEW n \in Nat PROVE Digits[n] \in Nat /\ Digits[n] >= 1
    OBVIOUS
  <2>1. n \in G /\ n \in 0 .. n
    BY <1>9
  <2> QED
    BY <2>1
<1> QED
  BY <1>6, <1>10

-----------------------------------------------------------------------------
(* Decimals that are the same number *)

LEMMA Cancels ==
  ASSUME NEW c \in Int, NEW e \in Int, NEW w \in Nat \ {0}
  PROVE  w * c = w * e <=> c = e
OBVIOUS

Scaled(d, scale) == Pow10[scale - d.scale] * d.coef

\* Two decimals are the same number iff they are at any scale that has room
\* for both.
LEMMA ExtendsScaled ==
  ASSUME NEW x \in Decimals, NEW y \in Decimals, x.scale >= y.scale,
         NEW scale \in Nat, scale >= x.scale
  PROVE  x.coef = y.coef * Pow10[x.scale - y.scale] <=> Scaled(x, scale) = Scaled(y, scale)
<1>1. /\ x.coef \in Int /\ y.coef \in Int /\ x.scale \in Nat /\ y.scale \in Nat
  BY DEF Decimals
<1>2. PICK n \in Nat : n = scale - x.scale
  BY <1>1
<1>3. PICK k \in Nat : k = x.scale - y.scale
  BY <1>1
<1>4. scale - y.scale = n + k
  BY <1>1, <1>2, <1>3
<1>5. PICK w \in Nat \ {0} : w = Pow10[n]
  BY Pow10Positive
<1>6. PICK z \in Nat \ {0} : z = Pow10[k]
  BY Pow10Positive
<1>7. Pow10[n + k] = w * z
  BY <1>5, <1>6, Pow10Adds
<1>8. PICK c \in Int, e \in Int : c = x.coef /\ e = y.coef
  BY <1>1
<1>9. (w * z) * e = w * (e * z) /\ e * z \in Int
  OBVIOUS
<1>10. w * c = (w * z) * e <=> c = e * z
  BY <1>9, Cancels
<1>11. Scaled(x, scale) = w * c /\ Scaled(y, scale) = (w * z) * e
  BY <1>2, <1>4, <1>5, <1>7, <1>8 DEF Scaled
<1> QED
  BY <1>3, <1>6, <1>8, <1>10, <1>11

LEMMA SameScaled ==
  ASSUME NEW d \in Decimals, NEW e \in Decimals,
         NEW scale \in Nat, scale >= d.scale, scale >= e.scale
  PROVE  SameDecimal(d, e) <=> Scaled(d, scale) = Scaled(e, scale)
<1>1. d.scale \in Nat /\ e.scale \in Nat
  BY DEF Decimals
<1>2. CASE d.scale >= e.scale
  BY <1>2, ExtendsScaled DEF SameDecimal
<1>3. CASE ~(d.scale >= e.scale)
  <2>1. e.scale >= d.scale
    BY <1>1, <1>3
  <2>2. e.coef = d.coef * Pow10[e.scale - d.scale] <=> Scaled(e, scale) = Scaled(d, scale)
    BY <2>1, ExtendsScaled
  <2> QED
    BY <1>3, <2>2 DEF SameDecimal
<1> QED
  BY <1>2, <1>3

LEMMA SameDecimalReflexive ==
  ASSUME NEW d \in Decimals
  PROVE  SameDecimal(d, d)
<1>1. d.scale \in Nat /\ d.scale >= d.scale
  BY DEF Decimals
<1> QED
  BY <1>1, SameScaled

LEMMA SameDecimalTransitive ==
  ASSUME NEW d \in Decimals, NEW e \in Decimals, NEW f \in Decimals,
         SameDecimal(d, e), SameDecimal(e, f)
  PROVE  SameDecimal(d, f)
<1>1. d.scale \in Nat /\ e.scale \in Nat /\ f.scale \in Nat
  BY DEF Decimals
<1>2. PICK scale \in Nat : scale = d.scale + e.scale + f.scale
  BY <1>1
<1>3. scale >= d.scale /\ scale >= e.scale /\ scale >= f.scale
  BY <1>1, <1>2
<1>4. Scaled(d, scale) = Scaled(e, scale) /\ Scaled(e, scale) = Scaled(f, scale)
  BY <1>3, SameScaled
<1> QED
  BY <1>3, <1>4, SameScaled

-----------------------------------------------------------------------------
(* What a text becomes *)

Kinds == {"text", "date", "currency", "number"}

\* A field with an error has no value.
Results(path) ==
  [value : Values(path) \cup {Null}, error : {Null}]
    \cup [value : {Null}, error : NormalizationErrorCode]

LEMMA AbsentFacts ==
  /\ \A code \in NormalizationErrorCode : code # Null
  /\ \A x \in WordTexts \cup CurrencyTexts \cup NumberTexts \cup Decimals \cup DateTexts \cup Dates :
       x # Null
BY AbsentAssumption

\* A record tells by its fields what it is.
LEMMA ShapesDiffer ==
  /\ \A x \in NumberTexts : x \notin Decimals
  /\ \A x \in WordTexts \cup CurrencyTexts \cup DateTexts : x \notin Decimals /\ x \notin Dates
  /\ \A x \in Decimals : x \notin Dates
<1>1. \A x \in NumberTexts : "runs" \in DOMAIN x
  BY DEF NumberTexts
<1>2. \A x \in WordTexts : "word" \in DOMAIN x
  BY DEF WordTexts
<1>3. \A x \in CurrencyTexts : "code" \in DOMAIN x
  BY DEF CurrencyTexts
<1>4. \A x \in DateTexts : "form" \in DOMAIN x
  BY DEF DateTexts
<1>5. \A x \in Decimals : DOMAIN x = {"coef", "scale"}
  BY DEF Decimals
<1>6. \A x \in Dates : DOMAIN x = {"year", "month", "day"}
  BY DEF Dates
<1>7. \A x \in Decimals : "scale" \in DOMAIN x
  BY <1>5
<1> QED
  BY <1>1, <1>2, <1>3, <1>4, <1>5, <1>6, <1>7

LEMMA TextResult ==
  ASSUME NEW raw \in WordTexts
  PROVE  /\ \/ \E w \in Words : normalize_text(raw) = Ok(w)
            \/ normalize_text(raw) = Fail("text_too_long")
         /\ raw.form = "clean" => normalize_text(raw) = Ok(raw)
<1> DEFINE form == CASE raw.form \in {"messy", "loose"} -> "clean"
                     [] raw.form = "split" -> "loose"
                     [] OTHER -> raw.form
<1>1. clean_text(raw) = [word |-> raw.word, form |-> form]
  BY DEF clean_text, WordTexts
<1>2. form \in {"clean", "loose", "long"} /\ (raw.form = "clean" => form = "clean")
  BY DEF WordTexts, TextForms
<1>3. raw # Null
  BY AbsentFacts
<1> HIDE DEF form
<1>4. [word |-> raw.word, form |-> form].form = form
  OBVIOUS
<1>5. CASE form = "long"
  BY <1>1, <1>2, <1>3, <1>4, <1>5 DEF normalize_text
<1>6. CASE form # "long"
  <2>1. normalize_text(raw) = Ok([word |-> raw.word, form |-> form])
    BY <1>1, <1>3, <1>4, <1>6 DEF normalize_text
  <2>2. [word |-> raw.word, form |-> form] \in Words
    BY <1>2, <1>6 DEF Words, WordTexts
  <2>3. raw.form = "clean" => raw = [word |-> raw.word, form |-> form]
    BY <1>2 DEF WordTexts
  <2> QED
    BY <1>2, <1>6, <2>1, <2>2, <2>3
<1> QED
  BY <1>5, <1>6

LEMMA CurrencyResult ==
  ASSUME NEW raw \in CurrencyTexts
  PROVE  /\ \/ raw \in Currencies /\ normalize_currency(raw) = Ok(raw)
            \/ normalize_currency(raw) = Fail("invalid_currency")
            \/ normalize_currency(raw) = Fail("unknown_currency")
         /\ raw \in Currencies => normalize_currency(raw) = Ok(raw)
<1>1. raw # Null /\ raw.three_letters \in BOOLEAN
  BY AbsentFacts DEF CurrencyTexts
<1>2. raw \in Currencies <=> raw.three_letters /\ raw.code \in APPROVED_CURRENCY_CODES
  BY <1>1 DEF Currencies, CurrencyTexts
<1> QED
  BY <1>1, <1>2 DEF normalize_currency

LEMMA ParsedIsDecimal ==
  ASSUME NEW s \in NumberTexts, s.runs # <<>>
  PROVE  ParsedDecimal(s) \in Decimals
<1>1. s.coef \in Nat /\ s.runs \in Seq(Nat)
  BY DEF NumberTexts
<1>2. s.runs[Len(s.runs)] \in Nat
  BY <1>1
<1> QED
  BY <1>1, <1>2 DEF ParsedDecimal, Decimals

LEMMA NumberResult ==
  ASSUME NEW raw \in NumberTexts \cup Decimals
  PROVE  /\ \/ \E d \in Decimals : normalize_decimal(raw) = Ok(d)
            \/ normalize_decimal(raw) = Fail("invalid_number")
            \/ normalize_decimal(raw) = Fail("ambiguous_number")
         /\ raw \in Decimals => normalize_decimal(raw) = Ok(raw)
<1>1. raw # Null
  BY AbsentFacts
<1>2. CASE raw \in Decimals
  BY <1>1, <1>2 DEF normalize_decimal
<1>3. CASE raw \notin Decimals
  <2>1. normalize_decimal(raw) = parse_decimal_string(raw)
    BY <1>1, <1>3 DEF normalize_decimal
  <2>2. raw.runs # <<>> => ParsedDecimal(raw) \in Decimals
    BY <1>3, ParsedIsDecimal
  <2>3. \/ raw.runs # <<>> /\ parse_decimal_string(raw) = Ok(ParsedDecimal(raw))
        \/ parse_decimal_string(raw) = Fail("invalid_number")
        \/ parse_decimal_string(raw) = Fail("ambiguous_number")
    BY DEF parse_decimal_string
  <2> QED
    BY <1>3, <2>1, <2>2, <2>3
<1> QED
  BY <1>2, <1>3

LEMMA IsoResult ==
  ASSUME NEW y \in Nat, NEW m \in Nat, NEW d \in Nat
  PROVE  IF IsRealDate(y, m, d)
         THEN /\ [year |-> y, month |-> m, day |-> d] \in Dates
              /\ to_iso(y, m, d) = Ok([year |-> y, month |-> m, day |-> d])
         ELSE to_iso(y, m, d) = Fail("invalid_date")
<1>1. CASE IsRealDate(y, m, d)
  BY <1>1 DEF Dates, to_iso
<1>2. CASE ~IsRealDate(y, m, d)
  BY <1>2 DEF to_iso
<1> QED
  BY <1>1, <1>2

LEMMA DateResult ==
  ASSUME NEW raw \in DateTexts
  PROVE  \/ \E d \in Dates : normalize_date(raw) = Ok(d)
         \/ normalize_date(raw) = Fail("invalid_date")
<1>1. raw # Null
  BY AbsentFacts
<1>2. raw.year \in Nat /\ raw.a \in Nat /\ raw.b \in Nat
  BY DEF DateTexts
<1>3. \/ normalize_date(raw) = Fail("invalid_date")
      \/ normalize_date(raw) = to_iso(raw.year, raw.b, raw.a)
      \/ normalize_date(raw) = to_iso(raw.year, raw.a, raw.b)
  BY <1>1 DEF normalize_date
<1> QED
  BY <1>2, <1>3, IsoResult

\* Every result is typed.
LEMMA NormalizeResult ==
  ASSUME NEW path, Kind(path) \in Kinds, NEW raw \in Raws(path) \cup {Null}
  PROVE  Normalize(path, raw) \in Results(path)
<1>1. CASE raw = Null
  <2>1. Normalize(path, raw) = ABSENT
    BY <1>1 DEF Normalize, normalize_text, normalize_date, normalize_currency,
       normalize_decimal, Kinds
  <2> QED
    BY <2>1 DEF Results, ABSENT, Ok
<1>2. CASE raw # Null /\ Kind(path) = "text"
  BY <1>2, TextResult DEF Normalize, Raws, Values, Results, Ok, Fail, NormalizationErrorCode
<1>3. CASE raw # Null /\ Kind(path) = "date"
  BY <1>3, DateResult DEF Normalize, Raws, Values, Results, Ok, Fail, NormalizationErrorCode
<1>4. CASE raw # Null /\ Kind(path) = "currency"
  BY <1>4, CurrencyResult DEF Normalize, Raws, Values, Results, Ok, Fail, NormalizationErrorCode
<1>5. CASE raw # Null /\ Kind(path) = "number"
  BY <1>5, NumberResult DEF Normalize, Raws, Values, Results, Ok, Fail, NormalizationErrorCode
<1> QED
  BY <1>1, <1>2, <1>3, <1>4, <1>5 DEF Kinds

-----------------------------------------------------------------------------
(* What is shown is read as the same value again *)

LEMMA ShownNumber ==
  ASSUME NEW d \in Decimals
  PROVE  /\ str_decimal(d) \in NumberTexts
         /\ str_decimal(d).runs # <<>> => normalize_decimal(str_decimal(d)) = Ok(d)
<1>1. d.coef \in Int /\ d.scale \in Nat
  BY DEF Decimals
<1>2. PICK abs \in Nat : abs = IF d.coef < 0 THEN - d.coef ELSE d.coef
  BY <1>1
<1>3. PICK n \in Nat : n = Digits[abs]
  BY DigitsUnfold
<1>4. PICK whole \in Nat : whole = IF n > d.scale THEN n - d.scale ELSE 1
  BY <1>1
<1>5. PICK sign : sign = IF d.coef < 0 THEN "-" ELSE ""
  OBVIOUS
<1>6. PICK runs : runs = IF n - d.scale <= -6 THEN <<>>
                         ELSE IF d.scale = 0 THEN <<whole>> ELSE <<whole, d.scale>>
  OBVIOUS
<1>7. PICK seps : seps = IF n - d.scale <= -6 \/ d.scale = 0 THEN <<>> ELSE <<".">>
  OBVIOUS
<1> DEFINE s == [first |-> sign, last |-> "", affix |-> "none", outside |-> FALSE,
                 coef |-> abs, runs |-> runs, seps |-> seps]
<1>8. str_decimal(d) = s
  BY <1>2, <1>3, <1>4, <1>5, <1>6, <1>7 DEF str_decimal
<1>9. runs \in Seq(Nat) /\ seps \in Seq(Separators) /\ sign \in {"", "-"}
  <2>1. /\ <<>> \in Seq(Nat) /\ <<whole>> \in Seq(Nat) /\ <<whole, d.scale>> \in Seq(Nat)
        /\ <<>> \in Seq(Separators) /\ <<".">> \in Seq(Separators)
    BY <1>1 DEF Separators
  <2> QED
    BY <1>5, <1>6, <1>7, <2>1
<1>10. s \in NumberTexts
  BY <1>9 DEF NumberTexts
<1>11. /\ s.first = sign /\ s.last = "" /\ s.affix = "none" /\ s.outside = FALSE
       /\ s.coef = abs /\ s.runs = runs /\ s.seps = seps
  OBVIOUS
<1> HIDE DEF s
<1>12. ASSUME runs # <<>>
       PROVE  normalize_decimal(s) = Ok(d)
  <2>1. WellSigned(s) /\ AffixIsStripped(s) /\ IsPlain(s)
    <3>1. WellSigned(s)
      BY <1>5, <1>11 DEF WellSigned, SIGN_FORMS
    <3>2. AffixIsStripped(s)
      BY <1>11 DEF AffixIsStripped
    <3>3. IsPlain(s)
      <4>1. ~(n - d.scale <= -6)
        BY <1>6, <1>12
      <4>2. d.scale = 0 => Len(runs) = 1
        BY <1>6, <4>1
      <4>3. d.scale # 0 => seps = <<".">>
        BY <1>7, <4>1
      <4> QED
        BY <1>11, <4>2, <4>3 DEF IsPlain
    <3> QED
      BY <3>1, <3>2, <3>3
  <2>2. normalize_decimal(s) = Ok(ParsedDecimal(s))
    BY <1>10, <1>11, <1>12, <2>1, AbsentFacts, ShapesDiffer DEF normalize_decimal, parse_decimal_string
  <2>3. Negative(s) <=> d.coef < 0
    BY <1>5, <1>11 DEF Negative
  <2>4. (IF Negative(s) THEN - s.coef ELSE s.coef) = d.coef
    <3>1. CASE d.coef < 0
      <4>1. PICK c \in Int : c = d.coef
        BY <1>1
      <4>2. abs = - c /\ - abs = c
        BY <1>2, <3>1, <4>1
      <4>3. - s.coef = d.coef
        BY <1>11, <4>1, <4>2
      <4> QED
        BY <2>3, <3>1, <4>3
    <3>2. CASE ~(d.coef < 0)
      <4>1. s.coef = d.coef
        BY <1>2, <1>11, <3>2
      <4> QED
        BY <2>3, <3>2, <4>1
    <3> QED
      BY <3>1, <3>2
  <2>5. (IF s.seps # <<>> /\ s.seps[Len(s.seps)] = "." THEN s.runs[Len(s.runs)] ELSE 0) = d.scale
    <3>1. ~(n - d.scale <= -6)
      BY <1>6, <1>12
    <3>2. CASE d.scale = 0
      <4>1. seps = <<>>
        BY <1>7, <3>2
      <4> QED
        BY <1>11, <3>2, <4>1
    <3>3. CASE d.scale # 0
      <4>1. seps = <<".">> /\ runs = <<whole, d.scale>>
        BY <1>6, <1>7, <3>1, <3>3
      <4>2. seps # <<>> /\ seps[Len(seps)] = "." /\ runs[Len(runs)] = d.scale
        BY <1>1, <4>1
      <4> QED
        BY <1>11, <4>2
    <3> QED
      BY <3>2, <3>3
  <2>6. ParsedDecimal(s) = d
    <3>1. d = [coef |-> d.coef, scale |-> d.scale]
      BY DEF Decimals
    <3> QED
      BY <2>4, <2>5, <3>1 DEF ParsedDecimal
  <2> QED
    BY <2>2, <2>6
<1> QED
  BY <1>8, <1>10, <1>11, <1>12

LEMMA ShownDate ==
  ASSUME NEW d \in Dates
  PROVE  str_date(d) \in DateTexts /\ normalize_date(str_date(d)) = Ok(d)
<1>1. /\ d.year \in Nat /\ d.month \in Nat /\ d.day \in Nat
      /\ IsRealDate(d.year, d.month, d.day)
      /\ d = [year |-> d.year, month |-> d.month, day |-> d.day]
  <2>1. d \in [year : Nat, month : Nat, day : Nat]
    BY DEF Dates
  <2>2. IsRealDate(d.year, d.month, d.day)
    BY DEF Dates
  <2> QED
    BY <2>1, <2>2
<1>2. str_date(d) \in DateTexts
  BY <1>1 DEF str_date, DateTexts
<1>3. DayPart(str_date(d)) = "b"
  BY DEF str_date, DayPart
<1>4. OrdinalFits(str_date(d))
  BY DEF str_date, OrdinalFits
<1>5. normalize_date(str_date(d)) = to_iso(d.year, d.month, d.day)
  BY <1>2, <1>3, <1>4, AbsentFacts DEF normalize_date, str_date
<1> QED
  BY <1>1, <1>2, <1>5, IsoResult

LEMMA CodesAreText == Currencies \subseteq CurrencyTexts
BY CurrencyAssumption DEF Currencies, CurrencyTexts

LEMMA ShownIsRead ==
  ASSUME NEW path, Kind(path) \in Kinds, NEW v \in Values(path) \cup Raws(path) \cup {Null}
  PROVE  /\ Shown(path, v) \in Raws(path) \cup {Null}
         /\ v \in {Null} \cup WordTexts \cup CurrencyTexts \cup DateTexts \cup NumberTexts
              => Shown(path, v) = v
<1>1. Words \subseteq WordTexts
  BY DEF Words, WordTexts, TextForms
<1>2. v = Null => v \notin Decimals /\ v \notin Dates
  BY AbsentFacts
<1>3. NumberTexts \cap Dates = {}
  <2>1. ASSUME NEW x \in NumberTexts, x \in Dates
        PROVE  FALSE
    <3>1. DOMAIN x = {"first", "last", "affix", "outside", "coef", "runs", "seps"}
      BY <2>1 DEF NumberTexts
    <3>2. DOMAIN x = {"year", "month", "day"}
      BY <2>1 DEF Dates
    <3> QED
      BY <3>1, <3>2
  <2> QED
    BY <2>1
<1>4. v \in {Null} \cup WordTexts \cup CurrencyTexts \cup DateTexts \cup NumberTexts
        => v \notin Decimals /\ v \notin Dates
  BY <1>2, <1>3, ShapesDiffer
<1>5. v \notin Decimals /\ v \notin Dates => Shown(path, v) = v
  BY DEF Shown
<1>6. CASE Kind(path) = "text"
  <2>1. v \in WordTexts \cup {Null}
    BY <1>1, <1>6 DEF Raws, Values
  <2> QED
    BY <1>4, <1>5, <1>6, <2>1 DEF Raws
<1>7. CASE Kind(path) = "currency"
  <2>1. Currencies \subseteq [code : APPROVED_CURRENCY_CODES, three_letters : BOOLEAN]
    BY DEF Currencies
  <2> QED
    BY <1>4, <1>5, <1>7, <2>1, CodesAreText DEF Raws, Values
<1>8. CASE Kind(path) = "date"
  <2>1. CASE v \in Dates
    <3>1. Shown(path, v) = str_date(v)
      BY <2>1, ShapesDiffer DEF Shown
    <3> QED
      BY <1>4, <1>8, <2>1, <3>1, ShownDate DEF Raws
  <2>2. CASE v \in DateTexts \cup {Null}
    BY <1>4, <1>5, <1>8, <2>2 DEF Raws
  <2> QED
    BY <1>8, <2>1, <2>2 DEF Raws, Values
<1>9. CASE Kind(path) = "number"
  <2>1. CASE v \in Decimals
    <3>1. Shown(path, v) = str_decimal(v)
      BY <2>1 DEF Shown
    <3> QED
      BY <1>4, <1>9, <2>1, <3>1, ShownNumber DEF Raws
  <2>2. CASE v \in NumberTexts \cup {Null}
    BY <1>4, <1>5, <1>9, <2>2 DEF Raws
  <2> QED
    BY <1>9, <2>1, <2>2 DEF Raws, Values
<1> QED
  BY <1>6, <1>7, <1>8, <1>9 DEF Kinds

\* A value that is no fragile one is read again as it was.
LEMMA ShownKeeps ==
  ASSUME NEW path, Kind(path) \in Kinds, NEW v \in Values(path), ~Fragile(path, v)
  PROVE  v # Null /\ Normalize(path, Shown(path, v)) = Ok(v)
<1>1. CASE Kind(path) = "text"
  <2>1. v \in Words /\ v \in WordTexts /\ v # Null
    BY <1>1, AbsentFacts DEF Values, Words, WordTexts, TextForms
  <2>2. v.form = "clean"
    BY <1>1, <2>1 DEF Fragile, Words
  <2>3. Shown(path, v) = v
    BY <2>1, ShownIsRead
  <2> QED
    BY <1>1, <2>1, <2>2, <2>3, TextResult DEF Normalize
<1>2. CASE Kind(path) = "currency"
  <2>1. v \in Currencies /\ v \in CurrencyTexts /\ v # Null
    BY <1>2, AbsentFacts, CodesAreText DEF Values
  <2>2. Shown(path, v) = v
    BY <2>1, ShownIsRead
  <2> QED
    BY <1>2, <2>1, <2>2, CurrencyResult DEF Normalize
<1>3. CASE Kind(path) = "date"
  <2>1. v \in Dates /\ v # Null
    BY <1>3, AbsentFacts DEF Values
  <2>2. Shown(path, v) = str_date(v)
    BY <2>1, ShapesDiffer DEF Shown
  <2> QED
    BY <1>3, <2>1, <2>2, ShownDate DEF Normalize
<1>4. CASE Kind(path) = "number"
  <2>1. v \in Decimals /\ v # Null
    BY <1>4, AbsentFacts DEF Values
  <2>2. Shown(path, v) = str_decimal(v)
    BY <2>1 DEF Shown
  <2>3. str_decimal(v).runs # <<>>
    BY <1>4, <2>1 DEF Fragile
  <2> QED
    BY <1>4, <2>1, <2>2, <2>3, ShownNumber DEF Normalize
<1> QED
  BY <1>1, <1>2, <1>3, <1>4 DEF Kinds

\* What was extracted and came to nothing is read again as it was.
LEMMA ShownFailsAgain ==
  ASSUME NEW path, Kind(path) \in Kinds, NEW raw \in Raws(path) \cup {Null},
         Normalize(path, raw).value = Null
  PROVE  Normalize(path, Shown(path, raw)) = Normalize(path, raw)
<1>1. CASE raw \in Decimals
  <2>1. Kind(path) = "number"
    BY <1>1, ShapesDiffer, AbsentFacts DEF Raws, Kinds
  <2>2. Normalize(path, raw) = Ok(raw)
    BY <1>1, <2>1, NumberResult DEF Normalize
  <2> QED
    BY <1>1, <2>2, AbsentFacts DEF Ok
<1>2. CASE raw \notin Decimals
  <2>1. raw \in {Null} \cup WordTexts \cup CurrencyTexts \cup DateTexts \cup NumberTexts
    BY <1>2 DEF Raws, Kinds
  <2>2. Shown(path, raw) = raw
    BY <2>1, ShownIsRead
  <2> QED
    BY <2>2
<1> QED
  BY <1>1, <1>2

-----------------------------------------------------------------------------
(* Paths and rows *)

LEMMA PathFacts ==
  ASSUME NEW n \in Nat, NEW p \in Paths(n)
  PROVE  /\ p = <<p[1], p[2]>> /\ Len(p) = 2
         /\ p[1] \in 0 .. n
         /\ p[1] = 0 => p[2] \in DOMAIN SCALAR_NORMALIZERS
         /\ p[1] # 0 => p[2] \in DOMAIN LINE_ITEM_NORMALIZERS
         /\ Kind(p) \in Kinds
<1>1. \/ p \in {0} \X DOMAIN SCALAR_NORMALIZERS
      \/ p \in (1 .. n) \X DOMAIN LINE_ITEM_NORMALIZERS
  BY DEF Paths
<1>2. \A name \in DOMAIN SCALAR_NORMALIZERS : SCALAR_NORMALIZERS[name] \in Kinds
  BY DEF SCALAR_NORMALIZERS, Kinds
<1>3. \A leaf \in DOMAIN LINE_ITEM_NORMALIZERS : LINE_ITEM_NORMALIZERS[leaf] \in Kinds
  BY DEF LINE_ITEM_NORMALIZERS, Kinds
<1>4. CASE p \in {0} \X DOMAIN SCALAR_NORMALIZERS
  <2>1. p = <<p[1], p[2]>> /\ p[1] = 0 /\ p[2] \in DOMAIN SCALAR_NORMALIZERS /\ Len(p) = 2
    BY <1>4
  <2> QED
    BY <1>2, <2>1 DEF Kind
<1>5. CASE p \in (1 .. n) \X DOMAIN LINE_ITEM_NORMALIZERS
  <2>1. /\ p = <<p[1], p[2]>> /\ p[1] \in 1 .. n /\ p[2] \in DOMAIN LINE_ITEM_NORMALIZERS
        /\ Len(p) = 2
    BY <1>5
  <2>2. p[1] # 0 /\ p[1] \in 0 .. n
    BY <2>1
  <2> QED
    BY <1>3, <2>1, <2>2 DEF Kind
<1> QED
  BY <1>1, <1>4, <1>5

LEMMA MadePath ==
  ASSUME NEW n \in Nat
  PROVE  /\ \A name \in DOMAIN SCALAR_NORMALIZERS : <<0, name>> \in Paths(n)
         /\ \A i \in 1 .. n, leaf \in DOMAIN LINE_ITEM_NORMALIZERS : <<i, leaf>> \in Paths(n)
BY DEF Paths

LEMMA PathIn ==
  ASSUME NEW n \in Nat, NEW m \in Nat, NEW p \in Paths(n)
  PROVE  p \in Paths(m) <=> p[1] <= m
<1>1. /\ p = <<p[1], p[2]>> /\ p[1] \in 0 .. n
      /\ p[1] = 0 => p[2] \in DOMAIN SCALAR_NORMALIZERS
      /\ p[1] # 0 => p[2] \in DOMAIN LINE_ITEM_NORMALIZERS
  BY PathFacts
<1>2. ASSUME p \in Paths(m)
      PROVE  p[1] <= m
  BY <1>2, PathFacts
<1>3. ASSUME p[1] <= m
      PROVE  p \in Paths(m)
  <2>1. CASE p[1] = 0
    BY <1>1, <2>1, MadePath
  <2>2. CASE p[1] # 0
    <3>1. p[1] \in 1 .. m
      BY <1>1, <1>3, <2>2
    <3> QED
      BY <1>1, <2>2, <3>1, MadePath
  <2> QED
    BY <2>1, <2>2
<1> QED
  BY <1>2, <1>3

-----------------------------------------------------------------------------
(* Rows *)

Enumerates(f, a, b, T) ==
  /\ \A i \in a .. b : f[i] \in T
  /\ \A x \in T : \E i \in a .. b : f[i] = x
  /\ \A i, j \in a .. b : f[i] = f[j] => i = j

LEMMA Counted ==
  ASSUME NEW a \in Int, NEW b \in Int, NEW f, NEW T, Enumerates(f, a, b, T)
  PROVE  Cardinality(T) = IF a > b THEN 0 ELSE b - a + 1
<1> DEFINE g == [i \in a .. b |-> f[i]]
<1>1. g \in Bijection(a .. b, T)
  <2>1. g \in [a .. b -> T] /\ \A i \in a .. b : g[i] = f[i]
    BY DEF Enumerates
  <2>2. \A x \in T : \E i \in a .. b : g[i] = x
    BY DEF Enumerates
  <2> HIDE DEF g
  <2>3. \A i, j \in a .. b : g[i] = g[j] => i = j
    BY <2>1 DEF Enumerates
  <2> QED
    BY <2>1, <2>2, <2>3 DEF Bijection, Injection, Surjection, IsInjective
<1>2. ExistsBijection(a .. b, T)
  BY <1>1 DEF ExistsBijection
<1>3. IsFiniteSet(a .. b) /\ Cardinality(a .. b) = IF a > b THEN 0 ELSE b - a + 1
  BY FS_Interval
<1> QED
  BY <1>2, <1>3, FS_Bijection

\* What the engine makes: typed results at the paths of its lines.
IsNormalized(invoice) ==
  /\ invoice.lines \in Nat
  /\ invoice = [lines |-> invoice.lines, at |-> [p \in Paths(invoice.lines) |-> invoice.at[p]]]
  /\ \A p \in Paths(invoice.lines) : invoice.at[p] \in Results(p)

LEMMA ResultFacts ==
  ASSUME NEW path, NEW r \in Results(path)
  PROVE  /\ r = [value |-> r.value, error |-> r.error]
         /\ r.value \in Values(path) \cup {Null}
         /\ r.error # Null => r.error \in NormalizationErrorCode /\ r.value = Null
BY DEF Results

\* Reading back what was stored gives what was stored.
LEMMA RowsRoundTrip ==
  ASSUME NEW invoice, IsNormalized(invoice)
  PROVE  LET rows == normalized_invoice_to_columns(invoice) IN
         /\ normalized_invoice_from_rows(rows) = invoice
         /\ IsNormalizedInvoice(rows)
<1> DEFINE n == invoice.lines
           Leaves(i) == [leaf \in DOMAIN LINE_ITEM_NORMALIZERS |-> invoice.at[<<i, leaf>>].value]
           Row(i) == [position |-> i - 1, leaves |-> Leaves(i)]
           f == [i \in 1 .. n |-> Row(i)]
           items == {Row(i) : i \in 1 .. n}
           scalars == [name \in DOMAIN SCALAR_NORMALIZERS |-> invoice.at[<<0, name>>].value]
           errors == {[field_path |-> p, code |-> invoice.at[p].error] :
                        p \in {q \in Paths(n) : invoice.at[q].error # Null}}
           rows == [scalars |-> scalars, line_items |-> items, errors |-> errors]
           RowAt(position) == CHOOSE r \in items : r.position = position
           ValueAt(p) == IF p[1] = 0 THEN scalars[p[2]] ELSE RowAt(p[1] - 1).leaves[p[2]]
           ErrorAt(p) == {e.code : e \in {r \in errors : r.field_path = p}}
           Read(p) == [value |-> ValueAt(p),
                       error |-> IF ErrorAt(p) = {} THEN Null ELSE CHOOSE code \in ErrorAt(p) : TRUE]
<1>1. n \in Nat /\ invoice = [lines |-> n, at |-> [p \in Paths(n) |-> invoice.at[p]]]
  BY DEF IsNormalized
<1>2. normalized_invoice_to_columns(invoice) = rows
  BY DEF normalized_invoice_to_columns
<1>3. \A i \in 1 .. n : Row(i).position = i - 1 /\ Row(i).leaves = Leaves(i) /\ Row(i) \in items
  OBVIOUS
<1>4. Cardinality(items) = n
  <2>1. \A i, j \in 1 .. n : f[i] = f[j] => i = j
    BY <1>1, <1>3
  <2>2. \A i \in 1 .. n : f[i] \in items
    OBVIOUS
  <2>3. \A x \in items : \E i \in 1 .. n : f[i] = x
    OBVIOUS
  <2> HIDE DEF f, items
  <2>4. Enumerates(f, 1, n, items)
    BY <2>1, <2>2, <2>3 DEF Enumerates
  <2>5. Cardinality(items) = IF 1 > n THEN 0 ELSE n - 1 + 1
    BY <1>1, <2>4, Counted
  <2> QED
    BY <1>1, <2>5
<1>5. ASSUME NEW i \in 1 .. n
      PROVE  RowAt(i - 1) = Row(i)
  <2>1. \A r \in items : r.position = i - 1 => r = Row(i)
    BY <1>1, <1>3
  <2> HIDE DEF items, Row
  <2> QED
    BY <1>3, <2>1
<1>6. ASSUME NEW p \in Paths(n)
      PROVE  ValueAt(p) = invoice.at[p].value
  <2>1. /\ p = <<p[1], p[2]>> /\ p[1] \in 0 .. n
        /\ p[1] = 0 => p[2] \in DOMAIN SCALAR_NORMALIZERS
        /\ p[1] # 0 => p[2] \in DOMAIN LINE_ITEM_NORMALIZERS
    BY <1>1, PathFacts
  <2>2. CASE p[1] = 0
    BY <2>1, <2>2
  <2>3. CASE p[1] # 0
    <3>1. p[1] \in 1 .. n
      BY <1>1, <2>1, <2>3
    <3>2. PICK i \in 1 .. n : i = p[1]
      BY <3>1
    <3>3. RowAt(p[1] - 1).leaves = Leaves(i)
      BY <1>3, <1>5, <3>2
    <3>4. Leaves(i)[p[2]] = invoice.at[<<i, p[2]>>].value
      BY <2>1, <2>3
    <3> HIDE DEF RowAt, Leaves
    <3> QED
      BY <2>1, <2>3, <3>2, <3>3, <3>4
  <2> QED
    BY <2>2, <2>3
<1>7. ASSUME NEW p \in Paths(n)
      PROVE  ErrorAt(p) = IF invoice.at[p].error = Null THEN {} ELSE {invoice.at[p].error}
  <2>1. \A e \in errors :
          \E q \in Paths(n) : /\ invoice.at[q].error # Null
                             /\ e.field_path = q /\ e.code = invoice.at[q].error
    OBVIOUS
  <2>2. invoice.at[p].error # Null =>
          \E e \in errors : e.field_path = p /\ e.code = invoice.at[p].error
    <3> SUFFICES ASSUME invoice.at[p].error # Null
                 PROVE  \E e \in errors : e.field_path = p /\ e.code = invoice.at[p].error
      OBVIOUS
    <3> DEFINE e == [field_path |-> p, code |-> invoice.at[p].error]
    <3>1. e \in errors /\ e.field_path = p /\ e.code = invoice.at[p].error
      OBVIOUS
    <3> QED
      BY <3>1
  <2> HIDE DEF errors
  <2>3. CASE invoice.at[p].error = Null
    BY <2>1, <2>3
  <2>4. CASE invoice.at[p].error # Null
    <3>1. \A code \in ErrorAt(p) : code = invoice.at[p].error
      BY <2>1
    <3>2. invoice.at[p].error \in ErrorAt(p)
      BY <2>2, <2>4
    <3> QED
      BY <2>4, <3>1, <3>2
  <2> QED
    BY <2>3, <2>4
<1>8. ASSUME NEW p \in Paths(n)
      PROVE  Read(p) = invoice.at[p]
  <2>1. invoice.at[p] = [value |-> invoice.at[p].value, error |-> invoice.at[p].error]
    BY ResultFacts DEF IsNormalized
  <2>2. (IF ErrorAt(p) = {} THEN Null ELSE CHOOSE code \in ErrorAt(p) : TRUE) = invoice.at[p].error
    <3> HIDE DEF ErrorAt
    <3>1. CASE invoice.at[p].error = Null
      BY <1>7, <3>1
    <3>2. CASE invoice.at[p].error # Null
      BY <1>7, <3>2
    <3> QED
      BY <3>1, <3>2
  <2> HIDE DEF ValueAt, ErrorAt
  <2> QED
    BY <1>6, <2>1, <2>2
<1>9. normalized_invoice_from_rows(rows)
        = [lines |-> Cardinality(items), at |-> [p \in Paths(Cardinality(items)) |-> Read(p)]]
  BY DEF normalized_invoice_from_rows
<1>10. normalized_invoice_from_rows(rows) = invoice
  <2>1. [p \in Paths(n) |-> Read(p)] = [p \in Paths(n) |-> invoice.at[p]]
    <3> HIDE DEF Read
    <3> QED
      BY <1>8
  <2> HIDE DEF Read, rows, items
  <2> QED
    BY <1>1, <1>4, <1>9, <2>1
<1>11. IsNormalizedInvoice(rows)
  <2>1. {r.position : r \in items} = 0 .. n - 1
    <3>1. ASSUME NEW x \in 0 .. n - 1
          PROVE  x \in {r.position : r \in items}
      <4>1. PICK i \in 1 .. n : i - 1 = x
        <5>1. x + 1 \in 1 .. n /\ (x + 1) - 1 = x
          BY <1>1
        <5> QED
          BY <5>1
      <4>2. Row(i) \in items /\ Row(i).position = x
        BY <1>3, <4>1
      <4> HIDE DEF items, Row
      <4> QED
        BY <4>2
    <3>2. ASSUME NEW r \in items
          PROVE  r.position \in 0 .. n - 1
      BY <1>1, <1>3
    <3> HIDE DEF items
    <3> QED
      BY <3>1, <3>2
  <2>2. ASSUME NEW e \in errors
        PROVE  /\ e.code \in NormalizationErrorCode
               /\ e.field_path \in Paths(n)
               /\ invoice.at[e.field_path].value = Null
    <3>1. PICK p \in Paths(n) :
             invoice.at[p].error # Null /\ e = [field_path |-> p, code |-> invoice.at[p].error]
      OBVIOUS
    <3>2. invoice.at[p].error \in NormalizationErrorCode /\ invoice.at[p].value = Null
      BY <3>1, ResultFacts DEF IsNormalized
    <3> QED
      BY <3>1, <3>2
  <2>3. rows.line_items = items /\ rows.errors = errors
    OBVIOUS
  <2> HIDE DEF rows, items, errors
  <2> QED
    BY <1>4, <1>10, <2>1, <2>2, <2>3 DEF IsNormalizedInvoice
<1> HIDE DEF rows
<1> QED
  BY <1>2, <1>10, <1>11

-----------------------------------------------------------------------------
(* From a draft to the next invoice and back *)

LEMMA DraftFacts ==
  ASSUME NEW draft, IsDraft(draft)
  PROVE  /\ draft.lines \in Nat
         /\ DOMAIN draft.at = Paths(draft.lines)
         /\ RawOf(draft).lines = draft.lines
         /\ \A p \in Paths(draft.lines) :
              /\ Kind(p) \in Kinds
              /\ draft.at[p].text \in Raws(p) \cup {Null}
              /\ RawOf(draft).at[p] = draft.at[p].text
<1>1. /\ draft.lines \in Nat
      /\ draft = [lines |-> draft.lines, at |-> [p \in Paths(draft.lines) |-> draft.at[p]]]
      /\ \A p \in Paths(draft.lines) : draft.at[p].text \in Raws(p) \cup {Null}
  BY DEF IsDraft, IsRead
<1>2. draft.at = [p \in Paths(draft.lines) |-> draft.at[p]]
  BY <1>1
<1>3. DOMAIN draft.at = Paths(draft.lines)
  BY <1>2
<1>4. RawOf(draft).lines = draft.lines
  BY DEF RawOf
<1>5. RawOf(draft).at = [p \in Paths(draft.lines) |-> draft.at[p].text]
  BY <1>3 DEF RawOf
<1> QED
  BY <1>1, <1>3, <1>4, <1>5, PathFacts

\* The invoice that a draft becomes.
Made(draft) == normalize_invoice(RawOf(draft))

LEMMA DraftIsNormalized ==
  ASSUME NEW draft, IsDraft(draft)
  PROVE  /\ IsNormalized(Made(draft))
         /\ Made(draft).lines = draft.lines
         /\ \A p \in Paths(draft.lines) : Made(draft).at[p] = Normalize(p, draft.at[p].text)
         /\ normalized_invoice_from_rows(normalized_invoice_to_columns(Made(draft))) = Made(draft)
         /\ IsNormalizedInvoice(normalized_invoice_to_columns(Made(draft)))
<1>1. Made(draft) = [lines |-> draft.lines,
                     at |-> [p \in Paths(draft.lines) |-> Normalize(p, RawOf(draft).at[p])]]
  BY DraftFacts DEF Made, normalize_invoice
<1>2. Made(draft).lines = draft.lines
  BY <1>1
<1>3. Made(draft).at = [p \in Paths(draft.lines) |-> Normalize(p, RawOf(draft).at[p])]
  BY <1>1
<1>4. \A p \in Paths(draft.lines) : Made(draft).at[p] = Normalize(p, draft.at[p].text)
  BY <1>3, DraftFacts
<1>5. \A p \in Paths(draft.lines) : Made(draft).at[p] \in Results(p)
  BY <1>4, DraftFacts, NormalizeResult
<1>6. Made(draft) = [lines |-> Made(draft).lines,
                     at |-> [p \in Paths(Made(draft).lines) |-> Made(draft).at[p]]]
  <2>1. Made(draft).at = [p \in Paths(draft.lines) |-> Made(draft).at[p]]
    BY <1>3
  <2> QED
    BY <1>1, <1>2, <1>3, <2>1
<1>7. IsNormalized(Made(draft))
  BY <1>2, <1>5, <1>6, DraftFacts DEF IsNormalized
<1> QED
  BY <1>2, <1>4, <1>7, RowsRoundTrip

\* The value that the page shows: what was normalized, or what was extracted.
OnPage(invoice, path) ==
  LET normalized == IF path \in Paths(invoice.lines) THEN invoice.at[path].value ELSE Null
      extracted  == IF path \in Paths(extraction.lines) THEN extraction.at[path].text ELSE Null IN
  IF normalized # Null THEN normalized ELSE extracted

LEMMA PageFacts ==
  ASSUME IsDraft(extraction), NEW invoice, IsNormalized(invoice)
  PROVE  LET page == invoiceDraftFromChain(invoice) IN
         /\ page.lines = Larger(extraction.lines, invoice.lines) /\ page.lines \in Nat
         /\ \A p \in Paths(page.lines) : page.at[p] = Writing(Shown(p, OnPage(invoice, p)))
         /\ IsOurDraft(page)
<1> DEFINE lines == Larger(extraction.lines, invoice.lines)
           page == invoiceDraftFromChain(invoice)
<1>1. lines \in Nat /\ extraction.lines \in Nat /\ invoice.lines \in Nat
  BY DraftFacts DEF IsNormalized, Larger
<1>2. page = [lines |-> lines,
              at |-> [p \in Paths(lines) |-> Writing(Shown(p, OnPage(invoice, p)))]]
  BY DEF invoiceDraftFromChain, OnPage
<1> HIDE DEF page, lines
<1>3. page.lines = lines /\ page.at = [p \in Paths(lines) |-> Writing(Shown(p, OnPage(invoice, p)))]
  BY <1>2
<1>4. page = [lines |-> page.lines, at |-> [p \in Paths(page.lines) |-> page.at[p]]]
  <2>1. page.at = [p \in Paths(lines) |-> page.at[p]]
    BY <1>3
  <2> QED
    BY <1>2, <1>3, <2>1
<1>5. ASSUME NEW p \in Paths(lines)
      PROVE  /\ page.at[p] = Writing(Shown(p, OnPage(invoice, p)))
             /\ IsRead(p, page.at[p].text)
             /\ page.at[p].meant = Unknown
  <2>1. page.at[p] = Writing(Shown(p, OnPage(invoice, p)))
    BY <1>3
  <2>2. Kind(p) \in Kinds
    BY <1>1, PathFacts
  <2>3. p \in Paths(invoice.lines) => invoice.at[p].value \in Values(p) \cup {Null}
    BY ResultFacts DEF IsNormalized
  <2>4. p \in Paths(extraction.lines) => extraction.at[p].text \in Raws(p) \cup {Null}
    BY DraftFacts
  <2>5. OnPage(invoice, p) \in Values(p) \cup Raws(p) \cup {Null}
    BY <2>3, <2>4 DEF OnPage
  <2>6. Shown(p, OnPage(invoice, p)) \in Raws(p) \cup {Null}
    BY <2>2, <2>5, ShownIsRead
  <2> QED
    BY <2>1, <2>6 DEF Writing, IsRead
<1>6. IsOurDraft(page)
  BY <1>1, <1>3, <1>4, <1>5 DEF IsOurDraft, IsDraft, WasTyped
<1> QED
  BY <1>1, <1>3, <1>5, <1>6 DEF page, lines

-----------------------------------------------------------------------------
(* The chain is kept *)

LEMMA ChainFacts ==
  ASSUME ScreenIInv
  PROVE  /\ IsDraft(extraction)
         /\ Len(history) \in Nat \ {0} /\ DOMAIN history = 1 .. Len(history)
         /\ Len(log) = Len(history) - 1 /\ DOMAIN log = 1 .. Len(log)
         /\ \A k \in DOMAIN history :
              /\ IsDraft(SourceOf(k)) /\ Invoice(k) = Made(SourceOf(k))
              /\ IsNormalizedInvoice(history[k])
         /\ \A k \in DOMAIN log : SourceOf(k + 1) = log[k].draft /\ k + 1 \in DOMAIN history
<1>1. IsDraft(extraction)
  BY DEF ScreenIInv, IsCase
<1>2. /\ Len(history) \in Nat /\ DOMAIN history = 1 .. Len(history)
      /\ Len(log) \in Nat /\ DOMAIN log = 1 .. Len(log) /\ Len(history) = Len(log) + 1
  BY DEF ScreenIInv, ChainIsKept, IsSequence
<1>3. ASSUME NEW k \in DOMAIN history
      PROVE  /\ IsDraft(SourceOf(k)) /\ Invoice(k) = Made(SourceOf(k))
             /\ IsNormalizedInvoice(history[k])
  <2>1. IsDraft(SourceOf(k))
    <3>1. CASE k = 1
      BY <1>1, <3>1 DEF SourceOf
    <3>2. CASE k # 1
      <4>1. k - 1 \in DOMAIN log
        BY <1>2, <3>2
      <4> QED
        BY <3>2, <4>1 DEF SourceOf, ScreenIInv, ChainIsKept, IsOurDraft
    <3> QED
      BY <3>1, <3>2
  <2>2. history[k] = normalized_invoice_to_columns(Made(SourceOf(k)))
    BY DEF ScreenIInv, ChainIsKept, Made
  <2> QED
    BY <2>1, <2>2, DraftIsNormalized DEF Invoice
<1>4. \A k \in DOMAIN log : SourceOf(k + 1) = log[k].draft /\ k + 1 \in DOMAIN history
  <2> SUFFICES ASSUME NEW k \in DOMAIN log
               PROVE  SourceOf(k + 1) = log[k].draft /\ k + 1 \in DOMAIN history
    OBVIOUS
  <2>1. k + 1 \in DOMAIN history /\ k + 1 # 1 /\ (k + 1) - 1 = k
    BY <1>2
  <2> QED
    BY <2>1 DEF SourceOf
<1> QED
  BY <1>1, <1>2, <1>3, <1>4

LEMMA ChainUnchanged ==
  ASSUME ScreenIInv, UNCHANGED <<extraction, typing, history, log>>
  PROVE  /\ IsCase(extraction, typing.palette, typing.lines)'
         /\ ChainIsKept'
         /\ \A d : IsOurDraft(d) => IsOurDraft(d)'
<1>1. \A d : IsOurDraft(d) => IsOurDraft(d)'
  BY DEF IsOurDraft, WasTyped
<1>2. ChainIsKept'
  BY <1>1 DEF ScreenIInv, ChainIsKept, SourceOf, Invoice
<1>3. IsCase(extraction, typing.palette, typing.lines)'
  BY DEF ScreenIInv
<1> QED
  BY <1>1, <1>2, <1>3

\* One page changes, and the chain does not.
LEMMA PageChanges ==
  ASSUME ScreenIInv, UNCHANGED <<extraction, typing, history, log>>,
         NEW r \in Reviewers, NEW page,
         page.seen \in DOMAIN history, page.edits \in 0 .. MaxEdits, IsOurDraft(page.draft),
         screen' = [screen EXCEPT ![r] = page]
  PROVE  ScreenIInv'
<1>1. /\ DOMAIN screen' = Reviewers /\ screen'[r] = page
      /\ \A q \in Reviewers : q # r => screen'[q] = screen[q]
  BY DEF ScreenIInv, PagesAreDrafts
<1>2. PagesAreDrafts'
  BY <1>1, ChainUnchanged DEF ScreenIInv, PagesAreDrafts
<1> QED
  BY <1>2, ChainUnchanged DEF ScreenIInv

LEMMA EditKeeps ==
  ASSUME ScreenIInv, NEW r \in Reviewers, screen[r] # Closed,
         NEW draft, IsOurDraft(draft), EditDraft(r, draft)
  PROVE  ScreenIInv'
<1> DEFINE page == [seen |-> screen[r].seen, edits |-> screen[r].edits + 1, draft |-> draft]
<1>1. screen[r].seen \in DOMAIN history /\ screen[r].edits \in 0 .. MaxEdits
  BY DEF ScreenIInv, PagesAreDrafts
<1>2. screen[r].edits + 1 \in 0 .. MaxEdits
  BY <1>1, ScreenAssumption DEF EditDraft
<1>3. /\ screen' = [screen EXCEPT ![r] = page]
      /\ UNCHANGED <<extraction, typing, history, log>>
  BY DEF EditDraft
<1>4. page.seen = screen[r].seen /\ page.edits = screen[r].edits + 1 /\ page.draft = draft
  OBVIOUS
<1> HIDE DEF page
<1> QED
  BY <1>1, <1>2, <1>3, <1>4, PageChanges

-----------------------------------------------------------------------------
(* The steps *)

LEMMA ScreenInit == Init => ScreenIInv
<1> SUFFICES ASSUME Init
             PROVE  ScreenIInv
  OBVIOUS
<1>1. IsCase(extraction, typing.palette, typing.lines)
  <2>1. PICK c \in Cases : extraction = c.extraction /\ typing = [palette |-> c.palette, lines |-> c.lines]
    BY DEF Init
  <2>2. typing.palette = c.palette /\ typing.lines = c.lines
    BY <2>1
  <2> QED
    BY <2>1, <2>2, ScreenAssumption
<1>2. PICK rows : /\ history = <<rows>>
                  /\ rows = normalized_invoice_to_columns(normalize_invoice(RawOf(extraction)))
  BY DEF Init
<1>3. /\ DOMAIN history = {1} /\ Len(history) = 1 /\ history[1] = rows
      /\ IsSequence(history)
  <2>1. DOMAIN history = {1} /\ Len(history) = 1 /\ history[1] = rows
    BY <1>2
  <2>2. history \in Seq({rows}) /\ {history[k] : k \in DOMAIN history} = {rows}
    BY <1>2, <2>1
  <2> QED
    BY <2>1, <2>2 DEF IsSequence
<1>4. log = <<>> /\ DOMAIN log = {} /\ Len(log) = 0 /\ IsSequence(log)
  BY DEF Init, IsSequence
<1>5. ChainIsKept
  BY <1>2, <1>3, <1>4 DEF ChainIsKept, SourceOf
<1>6. PagesAreDrafts
  BY DEF Init, PagesAreDrafts
<1> QED
  BY <1>1, <1>5, <1>6 DEF ScreenIInv

LEMMA LoadKeeps ==
  ASSUME ScreenIInv, NEW r \in Reviewers, Load(r)
  PROVE  ScreenIInv'
<1>1. PICK page : page = Page(history[Len(history)], Len(history))
  OBVIOUS
<1>2. Len(history) \in DOMAIN history
  BY ChainFacts
<1>3. IsNormalized(Invoice(Len(history)))
  BY <1>2, ChainFacts, DraftIsNormalized
<1>4. PICK draft : draft = invoiceDraftFromChain(Invoice(Len(history)))
  OBVIOUS
<1>5. page.seen = Len(history) /\ page.edits = 0 /\ page.draft = draft
  BY <1>1, <1>4 DEF Page, Invoice
<1>6. IsOurDraft(draft)
  BY <1>3, <1>4, ChainFacts, PageFacts
<1>7. 0 \in 0 .. MaxEdits
  BY ScreenAssumption
<1> QED
  BY <1>1, <1>2, <1>5, <1>6, <1>7, PageChanges DEF Load

\* A writing that was typed, and where it may stand.
LEMMA TypedFacts ==
  ASSUME ScreenIInv, NEW typed \in typing.palette
  PROVE  IsRead(typed.path, typed.writing.text) /\ WasTyped(typed.path, typed.writing)
BY DEF ScreenIInv, IsCase, WasTyped

LEMMA TypeKeeps ==
  ASSUME ScreenIInv, NEW r \in Reviewers, Type(r)
  PROVE  ScreenIInv'
<1>1. PICK draft : draft = screen[r].draft
  OBVIOUS
<1>2. PICK typed \in typing.palette :
         /\ typed.path \in Paths(draft.lines)
         /\ EditDraft(r, [draft EXCEPT !.at[typed.path] = typed.writing])
  BY <1>1 DEF Type
<1>3. IsOurDraft(draft) /\ screen[r] # Closed
  BY <1>1 DEF Type, ScreenIInv, PagesAreDrafts
<1>4. PICK new : new = [draft EXCEPT !.at[typed.path] = typed.writing]
  OBVIOUS
<1>5. draft = [lines |-> draft.lines, at |-> [p \in Paths(draft.lines) |-> draft.at[p]]]
      /\ draft.lines \in Nat
  BY <1>3 DEF IsOurDraft, IsDraft
<1> DEFINE at == [p \in Paths(draft.lines) |-> IF p = typed.path THEN typed.writing ELSE draft.at[p]]
<1>6. [draft.at EXCEPT ![typed.path] = typed.writing] = at
  <2>1. draft.at = [p \in Paths(draft.lines) |-> draft.at[p]]
    BY <1>5
  <2> QED
    BY <1>2, <2>1
<1>7. new = [lines |-> draft.lines, at |-> at]
  <2>1. new = [draft EXCEPT !.at = [draft.at EXCEPT ![typed.path] = typed.writing]]
    BY <1>4
  <2>2. PICK w, n : w = draft.at /\ n = draft.lines
    OBVIOUS
  <2>3. draft = [lines |-> n, at |-> [p \in Paths(n) |-> w[p]]]
    BY <1>5, <2>2
  <2>4. new = [draft EXCEPT !.at = at]
    BY <1>6, <2>1
  <2> HIDE DEF at
  <2> QED
    BY <2>2, <2>3, <2>4
<1>8. new.lines = draft.lines /\ new.at = at
  BY <1>7
<1>9. new = [lines |-> new.lines, at |-> [p \in Paths(new.lines) |-> new.at[p]]]
  <2>1. at = [p \in Paths(draft.lines) |-> at[p]]
    OBVIOUS
  <2> HIDE DEF at
  <2> QED
    BY <1>7, <1>8, <2>1
<1>10. ASSUME NEW p \in Paths(new.lines)
       PROVE  IsRead(p, new.at[p].text) /\ WasTyped(p, new.at[p])
  <2>1. new.at[p] = IF p = typed.path THEN typed.writing ELSE draft.at[p]
    BY <1>8, <1>10
  <2>2. p # typed.path => IsRead(p, draft.at[p].text) /\ WasTyped(p, draft.at[p])
    BY <1>3, <1>8, <1>10 DEF IsOurDraft, IsDraft
  <2>3. IsRead(typed.path, typed.writing.text) /\ WasTyped(typed.path, typed.writing)
    BY TypedFacts
  <2> QED
    BY <2>1, <2>2, <2>3
<1> HIDE DEF at
<1>11. IsOurDraft(new)
  BY <1>5, <1>8, <1>9, <1>10 DEF IsOurDraft, IsDraft
<1> QED
  BY <1>2, <1>3, <1>4, <1>11, EditKeeps

LEMMA LineDraft ==
  ASSUME ScreenIInv, NEW draft, NEW lines \in Nat, NEW at,
         draft = [lines |-> lines, at |-> [p \in Paths(lines) |-> at[p]]],
         \A p \in Paths(lines) : IsRead(p, at[p].text) /\ WasTyped(p, at[p])
  PROVE  IsOurDraft(draft)
<1>1. draft.lines = lines /\ draft.at = [p \in Paths(lines) |-> at[p]]
  OBVIOUS
<1>2. \A p \in Paths(lines) : draft.at[p] = at[p]
  BY <1>1
<1>3. draft = [lines |-> draft.lines, at |-> [p \in Paths(draft.lines) |-> draft.at[p]]]
  <2>1. draft.at = [p \in Paths(lines) |-> draft.at[p]]
    BY <1>1, <1>2
  <2> QED
    BY <1>1, <2>1
<1> QED
  BY <1>1, <1>2, <1>3 DEF IsOurDraft, IsDraft

LEMMA AddLineKeeps ==
  ASSUME ScreenIInv, NEW r \in Reviewers, AddLine(r)
  PROVE  ScreenIInv'
<1>1. PICK draft : draft = screen[r].draft
  OBVIOUS
<1>2. IsOurDraft(draft) /\ screen[r] # Closed
  BY <1>1 DEF AddLine, ScreenIInv, PagesAreDrafts
<1>3. draft.lines \in Nat /\ draft.lines + 1 \in Nat
  BY <1>2 DEF IsOurDraft, IsDraft
<1>4. PICK lines \in Nat : lines = draft.lines + 1
  BY <1>3
<1> DEFINE at == [p \in Paths(lines) |-> IF p[1] = lines THEN Writing(Null) ELSE draft.at[p]]
<1>5. PICK new : new = [lines |-> lines, at |-> at]
  OBVIOUS
<1>6. EditDraft(r, new)
  BY <1>1, <1>4, <1>5 DEF AddLine
<1>7. ASSUME NEW p \in Paths(lines)
      PROVE  IsRead(p, at[p].text) /\ WasTyped(p, at[p])
  <2>1. CASE p[1] = lines
    BY <2>1 DEF Writing, IsRead, WasTyped
  <2>2. CASE p[1] # lines
    <3>1. p[1] \in 0 .. lines
      BY PathFacts
    <3>2. p[1] <= draft.lines
      BY <1>3, <1>4, <2>2, <3>1
    <3>3. p \in Paths(draft.lines)
      BY <1>3, <3>2, PathIn
    <3> QED
      BY <1>2, <2>2, <3>3 DEF IsOurDraft, IsDraft
  <2> QED
    BY <2>1, <2>2
<1>8. at = [p \in Paths(lines) |-> at[p]]
  OBVIOUS
<1> HIDE DEF at
<1>9. IsOurDraft(new)
  BY <1>5, <1>7, <1>8, LineDraft
<1> QED
  BY <1>2, <1>6, <1>9, EditKeeps

LEMMA RemoveLineKeeps ==
  ASSUME ScreenIInv, NEW r \in Reviewers, RemoveLine(r)
  PROVE  ScreenIInv'
<1>1. PICK draft : draft = screen[r].draft
  OBVIOUS
<1>2. IsOurDraft(draft) /\ screen[r] # Closed
  BY <1>1 DEF RemoveLine, ScreenIInv, PagesAreDrafts
<1>3. draft.lines \in Nat
  BY <1>2 DEF IsOurDraft, IsDraft
<1> DEFINE From(i, p) == <<IF p[1] < i THEN p[1] ELSE p[1] + 1, p[2]>>
<1>4. PICK i \in 1 .. draft.lines :
         EditDraft(r, [lines |-> draft.lines - 1,
                       at |-> [p \in Paths(draft.lines - 1) |-> draft.at[From(i, p)]]])
  BY <1>1 DEF RemoveLine
<1>5. PICK lines \in Nat : lines = draft.lines - 1
  BY <1>3, <1>4
<1> DEFINE at == [p \in Paths(lines) |-> draft.at[From(i, p)]]
<1>6. PICK new : new = [lines |-> lines, at |-> at]
  OBVIOUS
<1>7. EditDraft(r, new)
  BY <1>4, <1>5, <1>6
<1>8. ASSUME NEW p \in Paths(lines)
      PROVE  IsRead(p, at[p].text) /\ WasTyped(p, at[p])
  <2>1. /\ p[1] \in 0 .. lines
        /\ p[1] = 0 => p[2] \in DOMAIN SCALAR_NORMALIZERS
        /\ p[1] # 0 => p[2] \in DOMAIN LINE_ITEM_NORMALIZERS
    BY PathFacts
  <2>2. PICK j \in Nat, name \in {p[2]} : j = (IF p[1] < i THEN p[1] ELSE p[1] + 1)
    BY <2>1
  <2>3. /\ j = 0 <=> p[1] = 0
        /\ j # 0 => j \in 1 .. draft.lines
    BY <1>3, <1>5, <2>1, <2>2
  <2>4. <<j, name>> \in Paths(draft.lines)
    BY <1>3, <2>1, <2>2, <2>3, MadePath
  <2>5. Kind(<<j, name>>) = Kind(p)
    BY <2>2, <2>3 DEF Kind
  <2>6. at[p] = draft.at[<<j, name>>]
    BY <2>2
  <2>7. IsRead(<<j, name>>, draft.at[<<j, name>>].text) /\ WasTyped(<<j, name>>, draft.at[<<j, name>>])
    BY <1>2, <2>4 DEF IsOurDraft, IsDraft
  <2> HIDE DEF at
  <2> QED
    BY <2>5, <2>6, <2>7 DEF IsRead, WasTyped, Raws
<1>9. at = [p \in Paths(lines) |-> at[p]]
  OBVIOUS
<1> HIDE DEF at
<1>10. IsOurDraft(new)
  BY <1>6, <1>8, <1>9, LineDraft
<1> QED
  BY <1>2, <1>7, <1>10, EditKeeps

LEMMA SequenceGrows ==
  ASSUME NEW s, IsSequence(s), NEW e
  PROVE  /\ IsSequence(Append(s, e))
         /\ Len(Append(s, e)) = Len(s) + 1
         /\ DOMAIN Append(s, e) = 1 .. Len(s) + 1 /\ DOMAIN s = 1 .. Len(s) /\ Len(s) \in Nat
         /\ Append(s, e)[Len(s) + 1] = e
         /\ \A k \in DOMAIN s : Append(s, e)[k] = s[k]
<1>1. PICK S : S = {s[k] : k \in DOMAIN s} \cup {e}
  OBVIOUS
<1>2. s \in Seq(S) /\ e \in S
  BY <1>1 DEF IsSequence
<1>3. PICK t : t = Append(s, e)
  OBVIOUS
<1>4. /\ t \in Seq(S) /\ Len(t) = Len(s) + 1 /\ DOMAIN t = 1 .. Len(s) + 1
      /\ DOMAIN s = 1 .. Len(s) /\ Len(s) \in Nat
      /\ t[Len(s) + 1] = e /\ \A k \in DOMAIN s : t[k] = s[k]
  BY <1>2, <1>3
<1>5. PICK T : T = {t[k] : k \in DOMAIN t}
  OBVIOUS
<1>6. \A k \in 1 .. Len(t) : t[k] \in T
  BY <1>4, <1>5
<1>7. t \in Seq(T)
  BY <1>4, <1>6
<1> QED
  BY <1>3, <1>4, <1>5, <1>7 DEF IsSequence

\* IsOurDraft, of the writings that are typed.
OurDraft(palette, draft) ==
  /\ IsDraft(draft)
  /\ \A p \in Paths(draft.lines) :
       \/ draft.at[p].meant = Unknown
       \/ \E typed \in palette : Kind(typed.path) = Kind(p) /\ draft.at[p] = typed.writing

LEMMA ApplyKeeps ==
  ASSUME ScreenIInv, NEW r \in Reviewers, Apply(r)
  PROVE  ScreenIInv'
<1>1. PICK draft, n : draft = screen[r].draft /\ n = Len(history)
  OBVIOUS
<1>2. PICK rows : rows = normalized_invoice_to_columns(normalize_invoice(RawOf(draft)))
  OBVIOUS
<1>3. PICK entry : entry = [seen |-> screen[r].seen, draft |-> draft,
                            entries |-> Merge(r).entries]
  OBVIOUS
<1>4. /\ history' = Append(history, rows)
      /\ log' = Append(log, entry)
      /\ \E page \in {Closed, Page(rows, n + 1)} : screen' = [screen EXCEPT ![r] = page]
      /\ extraction' = extraction /\ typing' = typing
  BY <1>1, <1>2, <1>3 DEF Apply, Merge, merge_correction
<1>5. IsOurDraft(draft) /\ screen[r].seen = n
  BY <1>1 DEF Apply, IsCurrentSource, ScreenIInv, PagesAreDrafts
<1>6. /\ entry.seen = n /\ entry.draft = draft
      /\ entry.entries = merge_correction(Invoice(n), RawOf(draft)).entries
  BY <1>1, <1>3, <1>5 DEF Merge
<1>7. /\ n \in Nat \ {0} /\ DOMAIN history = 1 .. n
      /\ Len(log) = n - 1 /\ DOMAIN log = 1 .. n - 1
  BY <1>1, ChainFacts
<1>8. /\ IsSequence(history') /\ Len(history') = n + 1 /\ DOMAIN history' = 1 .. n + 1
      /\ history'[n + 1] = rows /\ \A k \in 1 .. n : history'[k] = history[k]
  BY <1>1, <1>4, <1>7, SequenceGrows DEF ScreenIInv, ChainIsKept
<1>9. /\ IsSequence(log') /\ Len(log') = n /\ DOMAIN log' = 1 .. n
      /\ log'[n] = entry /\ \A k \in 1 .. n - 1 : log'[k] = log[k]
  BY <1>4, <1>7, SequenceGrows DEF ScreenIInv, ChainIsKept
<1>10. PICK palette : palette = typing.palette /\ palette = typing'.palette
  BY <1>4
<1>11. ASSUME NEW k \in 1 .. n + 1
       PROVE  history'[k] = normalized_invoice_to_columns(normalize_invoice(RawOf(SourceOf(k)')))
  <2>1. CASE k = n + 1
    <3>1. k # 1 /\ k - 1 = n
      BY <1>7, <2>1
    <3>2. SourceOf(k)' = draft
      BY <1>6, <1>9, <3>1 DEF SourceOf
    <3> QED
      BY <1>2, <1>8, <2>1, <3>2
  <2>2. CASE k # n + 1
    <3>1. k \in 1 .. n /\ (k # 1 => k - 1 \in 1 .. n - 1)
      BY <1>7, <2>2
    <3>2. SourceOf(k)' = SourceOf(k)
      BY <1>4, <1>9, <3>1 DEF SourceOf
    <3> QED
      BY <1>7, <1>8, <3>1, <3>2 DEF ScreenIInv, ChainIsKept
  <2> QED
    BY <2>1, <2>2
<1>12. ASSUME NEW k \in 1 .. n
       PROVE  /\ log'[k].seen = k /\ OurDraft(palette, log'[k].draft)
              /\ log'[k].entries = merge_correction(Invoice(k)', RawOf(log'[k].draft)).entries
  <2>1. Invoice(k)' = Invoice(k)
    BY <1>8 DEF Invoice
  <2>2. CASE k = n
    <3>1. log'[k] = entry
      BY <1>9, <2>2
    <3>2. OurDraft(palette, draft)
      BY <1>5, <1>10 DEF IsOurDraft, WasTyped, OurDraft
    <3> QED
      BY <1>6, <2>1, <2>2, <3>1, <3>2
  <2>3. CASE k # n
    <3>1. k \in 1 .. n - 1
      BY <1>7, <2>3
    <3>2. /\ log[k].seen = k /\ IsOurDraft(log[k].draft)
          /\ log[k].entries = merge_correction(Invoice(k), RawOf(log[k].draft)).entries
      BY <1>7, <3>1 DEF ScreenIInv, ChainIsKept
    <3>3. log'[k] = log[k]
      BY <1>9, <3>1
    <3>4. OurDraft(palette, log[k].draft)
      BY <1>10, <3>2 DEF IsOurDraft, WasTyped, OurDraft
    <3> QED
      BY <2>1, <3>2, <3>3, <3>4
  <2> QED
    BY <2>2, <2>3
<1>13. ChainIsKept'
  <2>1. \A k \in 1 .. n :
          /\ (log[k])'.seen = k /\ IsOurDraft(log[k].draft)'
          /\ (log[k])'.entries = merge_correction(Invoice(k)', RawOf((log[k])'.draft)).entries
    BY <1>10, <1>12 DEF IsOurDraft, WasTyped, OurDraft
  <2>2. \A k \in 1 .. n + 1 :
          (history[k])' = normalized_invoice_to_columns(normalize_invoice(RawOf(SourceOf(k)')))
    BY <1>11
  <2> QED
    BY <1>8, <1>9, <2>1, <2>2 DEF ChainIsKept
<1>14. PagesAreDrafts'
  <2>1. PICK page \in {Closed, Page(rows, n + 1)} : screen' = [screen EXCEPT ![r] = page]
    BY <1>4
  <2>2. /\ DOMAIN screen' = Reviewers /\ screen'[r] = page
        /\ \A q \in Reviewers : q # r => screen'[q] = screen[q]
    BY <2>1 DEF ScreenIInv, PagesAreDrafts
  <2>3. IsDraft(draft) /\ IsDraft(extraction)
    BY <1>5, ChainFacts DEF IsOurDraft
  <2>4. normalized_invoice_from_rows(rows) = Made(draft) /\ IsNormalized(Made(draft))
    BY <1>2, <2>3, DraftIsNormalized DEF Made
  <2>5. PICK shown : shown = invoiceDraftFromChain(Made(draft))
    OBVIOUS
  <2>6. IsOurDraft(shown)
    BY <2>3, <2>4, <2>5, PageFacts
  <2>7. Page(rows, n + 1) = [seen |-> n + 1, edits |-> 0, draft |-> shown]
    BY <2>4, <2>5 DEF Page
  <2>8. page # Closed => page.seen = n + 1 /\ page.edits = 0 /\ page.draft = shown
    BY <2>1, <2>7
  <2>9. OurDraft(palette, shown)
    BY <1>10, <2>6 DEF IsOurDraft, WasTyped, OurDraft
  <2>10. page # Closed => /\ page.seen \in DOMAIN history' /\ page.edits \in 0 .. MaxEdits
                          /\ OurDraft(palette, page.draft)
    <3>1. 0 \in 0 .. MaxEdits
      BY ScreenAssumption
    <3>2. n + 1 \in DOMAIN history'
      BY <1>7, <1>8
    <3> QED
      BY <2>8, <2>9, <3>1, <3>2
  <2>11. ASSUME NEW q \in Reviewers, q # r, screen[q] # Closed
         PROVE  /\ screen[q].seen \in DOMAIN history' /\ screen[q].edits \in 0 .. MaxEdits
                /\ OurDraft(palette, screen[q].draft)
    <3>1. /\ screen[q].seen \in DOMAIN history /\ screen[q].edits \in 0 .. MaxEdits
          /\ IsOurDraft(screen[q].draft)
      BY <2>11 DEF ScreenIInv, PagesAreDrafts
    <3>2. OurDraft(palette, screen[q].draft)
      BY <1>10, <3>1 DEF IsOurDraft, WasTyped, OurDraft
    <3>3. screen[q].seen \in DOMAIN history'
      BY <1>7, <1>8, <3>1
    <3> QED
      BY <3>1, <3>2, <3>3
  <2>12. ASSUME NEW q \in Reviewers, screen'[q] # Closed
         PROVE  /\ screen'[q].seen \in DOMAIN history' /\ screen'[q].edits \in 0 .. MaxEdits
                /\ OurDraft(palette, screen'[q].draft)
    <3>1. CASE q = r
      BY <2>2, <2>10, <2>12, <3>1
    <3>2. CASE q # r
      BY <2>2, <2>11, <2>12, <3>2
    <3> QED
      BY <3>1, <3>2
  <2>13. \A q \in Reviewers : (screen[q])' # Closed =>
           /\ (screen[q])'.seen \in DOMAIN history' /\ (screen[q])'.edits \in 0 .. MaxEdits
           /\ IsOurDraft(screen[q].draft)'
    BY <1>10, <2>12 DEF IsOurDraft, WasTyped, OurDraft
  <2> QED
    BY <2>2, <2>13 DEF PagesAreDrafts
<1>15. IsCase(extraction, typing.palette, typing.lines)'
  BY <1>4 DEF ScreenIInv
<1> QED
  BY <1>13, <1>14, <1>15 DEF ScreenIInv

\* The drafts and the rows of every normalization hang together: each page is
\* a draft of a chain that exists, each normalization is what the engine made
\* of its own draft, each correction was made from the one before it.
THEOREM ScreenInvariant == Spec => []ScreenIInv
<1>1. ASSUME ScreenIInv, [Next]_vars
      PROVE  ScreenIInv'
  <2>1. CASE UNCHANGED vars
    BY <1>1, <2>1 DEF vars, ScreenIInv, ChainIsKept, PagesAreDrafts, IsOurDraft, WasTyped,
       SourceOf, Invoice
  <2>2. ASSUME NEW r \in Reviewers, Load(r)
        PROVE  ScreenIInv'
    BY <1>1, <2>2, LoadKeeps
  <2>3. ASSUME NEW r \in Reviewers, Type(r)
        PROVE  ScreenIInv'
    BY <1>1, <2>3, TypeKeeps
  <2>4. ASSUME NEW r \in Reviewers, AddLine(r)
        PROVE  ScreenIInv'
    BY <1>1, <2>4, AddLineKeeps
  <2>5. ASSUME NEW r \in Reviewers, RemoveLine(r)
        PROVE  ScreenIInv'
    BY <1>1, <2>5, RemoveLineKeeps
  <2>6. ASSUME NEW r \in Reviewers, Refuse(r)
        PROVE  ScreenIInv'
    BY <2>1, <2>6 DEF Refuse
  <2>7. ASSUME NEW r \in Reviewers, Apply(r)
        PROVE  ScreenIInv'
    BY <1>1, <2>7, ApplyKeeps
  <2> QED
    BY <1>1, <2>1, <2>2, <2>3, <2>4, <2>5, <2>6, <2>7 DEF Next
<1> QED
  BY <1>1, ScreenInit, PTL DEF Spec

-----------------------------------------------------------------------------
(* What a correction records *)

Entries(base, merged) ==
  SetEntries(base, merged) \cup AddEntries(base, merged) \cup RemoveEntries(base, merged)

LEMMA CorrectionFacts ==
  ASSUME ScreenIInv, NEW k \in DOMAIN log
  PROVE  /\ k \in DOMAIN history /\ k + 1 \in DOMAIN history
         /\ log[k].seen = k /\ IsDraft(log[k].draft)
         /\ IsNormalized(Invoice(k)) /\ IsNormalized(Invoice(k + 1))
         /\ Invoice(k + 1) = Made(log[k].draft)
         /\ log[k].entries = Entries(Invoice(k), Invoice(k + 1))
<1>1. /\ log[k].seen = k /\ IsDraft(log[k].draft)
      /\ log[k].entries = merge_correction(Invoice(k), RawOf(log[k].draft)).entries
  BY DEF ScreenIInv, ChainIsKept, IsOurDraft
<1>2. k \in DOMAIN history /\ k + 1 \in DOMAIN history /\ SourceOf(k + 1) = log[k].draft
  BY ChainFacts
<1>3. Invoice(k) = Made(SourceOf(k)) /\ IsDraft(SourceOf(k)) /\ Invoice(k + 1) = Made(log[k].draft)
  BY <1>2, ChainFacts
<1>4. merge_correction(Invoice(k), RawOf(log[k].draft)).entries = Entries(Invoice(k), Made(log[k].draft))
  BY DEF merge_correction, Entries, Made
<1> QED
  BY <1>1, <1>2, <1>3, <1>4, DraftIsNormalized

\* An entry of a field, and one of a line.
SetsPath(e, base, merged, p) ==
  /\ e = Entry("SET_FIELD", p, IF p \in Paths(base.lines) THEN base.at[p].value ELSE Null,
               merged.at[p])
  /\ e.operation = "SET_FIELD" /\ e.field_path = p /\ Len(p) = 2
  /\ [value |-> e.value, error |-> e.error] = merged.at[p]
  /\ e.error # Null => e.value = Null

ChangesLine(e, operation, i) ==
  /\ e = Entry(operation, <<i>>, Null, ABSENT)
  /\ e.operation = operation /\ e.field_path = <<i>> /\ Len(<<i>>) = 1 /\ e.value = Null

LEMMA SetEntryFacts ==
  ASSUME NEW base, IsNormalized(base), NEW merged, IsNormalized(merged),
         NEW e \in SetEntries(base, merged)
  PROVE  \E p \in Paths(merged.lines) : SetsPath(e, base, merged, p)
<1>1. PICK p \in Paths(merged.lines) :
         e = Entry("SET_FIELD", p, IF p \in Paths(base.lines) THEN base.at[p].value ELSE Null,
                   merged.at[p])
  BY DEF SetEntries
<1>2. /\ e.operation = "SET_FIELD" /\ e.field_path = p
      /\ e.value = merged.at[p].value /\ e.error = merged.at[p].error
  BY <1>1 DEF Entry
<1>3. Len(p) = 2
  BY PathFacts DEF IsNormalized
<1>4. /\ merged.at[p] = [value |-> merged.at[p].value, error |-> merged.at[p].error]
      /\ merged.at[p].error # Null => merged.at[p].value = Null
  BY ResultFacts DEF IsNormalized
<1>5. [value |-> e.value, error |-> e.error] = merged.at[p] /\ (e.error # Null => e.value = Null)
  BY <1>2, <1>4
<1> QED
  BY <1>1, <1>2, <1>3, <1>5 DEF SetsPath

LEMMA LineEntryFacts ==
  ASSUME NEW base, NEW merged
  PROVE  /\ \A e \in AddEntries(base, merged) :
              \E i \in base.lines + 1 .. merged.lines : ChangesLine(e, "ADD_LINE_ITEM", i)
         /\ \A e \in RemoveEntries(base, merged) :
              \E i \in merged.lines + 1 .. base.lines : ChangesLine(e, "REMOVE_LINE_ITEM", i)
<1>1. ASSUME NEW operation, NEW i
      PROVE  ChangesLine(Entry(operation, <<i>>, Null, ABSENT), operation, i)
  BY DEF ChangesLine, Entry, ABSENT, Ok
<1> QED
  BY <1>1 DEF AddEntries, RemoveEntries

LEMMA EntriesAreCorrection ==
  ASSUME NEW base, IsNormalized(base), NEW merged, IsNormalized(merged)
  PROVE  IsInvoiceCorrection(Entries(base, merged))
<1>1. base.lines \in Nat /\ merged.lines \in Nat
  BY DEF IsNormalized
<1>2. PICK S, A, R : /\ S = SetEntries(base, merged) /\ A = AddEntries(base, merged)
                     /\ R = RemoveEntries(base, merged)
  OBVIOUS
<1>3. Entries(base, merged) = S \cup A \cup R
  BY <1>2 DEF Entries
<1>4. \A e \in S : \E p \in Paths(merged.lines) : SetsPath(e, base, merged, p)
  BY <1>2, SetEntryFacts
<1>5. /\ \A e \in A : \E i \in base.lines + 1 .. merged.lines : ChangesLine(e, "ADD_LINE_ITEM", i)
      /\ \A e \in R : \E i \in merged.lines + 1 .. base.lines : ChangesLine(e, "REMOVE_LINE_ITEM", i)
  BY <1>2, LineEntryFacts
<1>6. ASSUME NEW e \in S
      PROVE  /\ e.error # Null => e.value = Null
             /\ e.operation = "SET_FIELD" /\ Len(e.field_path) = 2
  BY <1>4 DEF SetsPath
<1>7. ASSUME NEW e \in A \cup R
      PROVE  /\ e.value = Null /\ Len(e.field_path) = 1
             /\ e.operation \in {"ADD_LINE_ITEM", "REMOVE_LINE_ITEM"}
  BY <1>5 DEF ChangesLine
<1>8. \A e \in S \cup A \cup R :
        /\ e.error # Null \/ e.operation = "REMOVE_LINE_ITEM" => e.value = Null
        /\ Len(e.field_path) = IF e.operation = "SET_FIELD" THEN 2 ELSE 1
  <2> SUFFICES ASSUME NEW e \in S \cup A \cup R
               PROVE  /\ e.error # Null \/ e.operation = "REMOVE_LINE_ITEM" => e.value = Null
                      /\ Len(e.field_path) = IF e.operation = "SET_FIELD" THEN 2 ELSE 1
    OBVIOUS
  <2>1. CASE e \in S
    BY <1>6, <2>1
  <2>2. CASE e \in A \cup R
    BY <1>7, <2>2
  <2> QED
    BY <2>1, <2>2
<1>9. ASSUME NEW e \in S \cup A \cup R, NEW f \in S \cup A \cup R, e.field_path = f.field_path
      PROVE  e = f
  <2>1. CASE e \in S /\ f \in S
    <3>1. PICK p : SetsPath(e, base, merged, p)
      BY <1>4, <2>1
    <3>2. PICK q : SetsPath(f, base, merged, q)
      BY <1>4, <2>1
    <3>3. p = q
      BY <1>9, <3>1, <3>2 DEF SetsPath
    <3> QED
      BY <3>1, <3>2, <3>3 DEF SetsPath
  <2>2. CASE e \in A /\ f \in A
    <3>1. PICK i : ChangesLine(e, "ADD_LINE_ITEM", i)
      BY <1>5, <2>2
    <3>2. PICK j : ChangesLine(f, "ADD_LINE_ITEM", j)
      BY <1>5, <2>2
    <3>3. <<i>> = <<j>>
      BY <1>9, <3>1, <3>2 DEF ChangesLine
    <3>4. e = Entry("ADD_LINE_ITEM", <<i>>, Null, ABSENT) /\ f = Entry("ADD_LINE_ITEM", <<j>>, Null, ABSENT)
      BY <3>1, <3>2 DEF ChangesLine
    <3> QED
      BY <3>3, <3>4
  <2>3. CASE e \in R /\ f \in R
    <3>1. PICK i : ChangesLine(e, "REMOVE_LINE_ITEM", i)
      BY <1>5, <2>3
    <3>2. PICK j : ChangesLine(f, "REMOVE_LINE_ITEM", j)
      BY <1>5, <2>3
    <3>3. <<i>> = <<j>>
      BY <1>9, <3>1, <3>2 DEF ChangesLine
    <3>4. e = Entry("REMOVE_LINE_ITEM", <<i>>, Null, ABSENT) /\ f = Entry("REMOVE_LINE_ITEM", <<j>>, Null, ABSENT)
      BY <3>1, <3>2 DEF ChangesLine
    <3> QED
      BY <3>3, <3>4
  <2>4. ASSUME NEW a \in A, NEW b \in R
        PROVE  a.field_path # b.field_path
    <3>1. PICK i \in base.lines + 1 .. merged.lines : a.field_path = <<i>>
      BY <1>5 DEF ChangesLine
    <3>2. PICK j \in merged.lines + 1 .. base.lines : b.field_path = <<j>>
      BY <1>5 DEF ChangesLine
    <3>3. i # j
      BY <1>1
    <3> QED
      BY <3>1, <3>2, <3>3
  <2>5. \A a \in S, b \in A \cup R : a.field_path # b.field_path
    <3>1. \A a \in S, b \in A \cup R : Len(a.field_path) # Len(b.field_path)
      BY <1>6, <1>7
    <3> QED
      BY <3>1
  <2> QED
    BY <1>9, <2>1, <2>2, <2>3, <2>4, <2>5
<1> QED
  BY <1>3, <1>8, <1>9 DEF IsInvoiceCorrection

\* Every row kept reads back as a NormalizedInvoice and every correction as an
\* InvoiceCorrection: stored, they never fail their own validation.
THEOREM ScreenTypeInvariant == Spec => []TypeOK
<1>1. ScreenIInv => TypeOK
  <2> SUFFICES ASSUME ScreenIInv
               PROVE  TypeOK
    OBVIOUS
  <2>1. /\ Len(history) = Len(log) + 1
        /\ \A k \in DOMAIN history : IsNormalizedInvoice(history[k])
    BY ChainFacts DEF ScreenIInv, ChainIsKept
  <2>2. \A k \in DOMAIN log : IsInvoiceCorrection(log[k].entries)
    BY CorrectionFacts, EntriesAreCorrection
  <2>3. \A r \in Reviewers :
          screen[r] # Closed =>
            /\ screen[r].seen \in DOMAIN history
            /\ screen[r].edits \in 0 .. MaxEdits
            /\ DOMAIN screen[r].draft.at = Paths(screen[r].draft.lines)
    BY DraftFacts DEF ScreenIInv, PagesAreDrafts, IsOurDraft
  <2> QED
    BY <2>1, <2>2, <2>3 DEF TypeOK
<1> QED
  BY <1>1, ScreenInvariant, PTL

-----------------------------------------------------------------------------
(* What is not touched stays *)

LEMMA AgreeReflexive ==
  ASSUME NEW path, Kind(path) \in Kinds, NEW x \in Results(path)
  PROVE  Agree(path, x, x)
<1>1. x.value \in Values(path) \cup {Null}
  BY ResultFacts
<1>2. Kind(path) = "number" /\ x.value # Null => SameDecimal(x.value, x.value)
  BY <1>1, SameDecimalReflexive DEF Values
<1> QED
  BY <1>2 DEF Agree, values_equal

\* A field that a reviewer left as the page showed it stays what it was,
\* unless what is shown is not read again or nothing was left to show.
THEOREM UntouchedFieldsStay == Spec => []UntouchedFieldsKeep
<1>1. ScreenIInv => UntouchedFieldsKeep
  <2> SUFFICES ASSUME ScreenIInv, NEW k \in DOMAIN log, NEW p \in Paths(log[k].draft.lines),
                      Untouched(log[k], p)
               PROVE  IF p \in Paths(Invoice(k).lines)
                      THEN \/ Agree(p, Invoice(k).at[p], Invoice(k + 1).at[p])
                           \/ Fragile(p, Invoice(k).at[p].value)
                           \/ k > 1 /\ Invoice(k).at[p].value = Null
                      ELSE k > 1
    BY DEF UntouchedFieldsKeep
  <2>1. PICK before : before = Invoice(k)
    OBVIOUS
  <2>2. /\ k \in DOMAIN history /\ k \in Nat \ {0}
        /\ log[k].seen = k /\ IsDraft(log[k].draft)
        /\ IsNormalized(before) /\ Invoice(k + 1) = Made(log[k].draft)
        /\ IsDraft(extraction)
    BY <2>1, CorrectionFacts, ChainFacts
  <2>3. PICK page : page = invoiceDraftFromChain(before)
    OBVIOUS
  <2>4. /\ page.lines = Larger(extraction.lines, before.lines) /\ page.lines \in Nat
        /\ \A q \in Paths(page.lines) : page.at[q] = Writing(Shown(q, OnPage(before, q)))
    BY <2>2, <2>3, PageFacts
  <2>5. p \in Paths(page.lines) /\ log[k].draft.at[p].text = Shown(p, OnPage(before, p))
    <3>1. p \in Paths(page.lines) /\ log[k].draft.at[p].text = page.at[p].text
      BY <2>1, <2>2, <2>3 DEF Untouched, ShownTo
    <3>2. page.at[p] = Writing(Shown(p, OnPage(before, p)))
      BY <2>4, <3>1
    <3>3. page.at[p].text = Shown(p, OnPage(before, p))
      BY <3>2 DEF Writing
    <3> QED
      BY <3>1, <3>3
  <2>6. Invoice(k + 1).at[p] = Normalize(p, Shown(p, OnPage(before, p)))
    BY <2>2, <2>5, DraftIsNormalized
  <2>7. Kind(p) \in Kinds
    BY <2>4, <2>5, PathFacts
  <2>8. k = 1 => before = Made(extraction) /\ before.lines = extraction.lines
    BY <2>1, <2>2, ChainFacts, DraftIsNormalized DEF SourceOf
  <2>9. CASE p \in Paths(before.lines)
    <3>1. before.at[p] \in Results(p)
      BY <2>2, <2>9 DEF IsNormalized
    <3>2. CASE before.at[p].value # Null
      <4>1. before.at[p].value \in Values(p)
        BY <3>1, <3>2, ResultFacts
      <4>2. OnPage(before, p) = before.at[p].value
        BY <2>9, <3>2 DEF OnPage
      <4>3. before.at[p] = Ok(before.at[p].value)
        BY <3>1, <3>2, ResultFacts DEF Ok
      <4>4. CASE Fragile(p, before.at[p].value)
        BY <2>1, <2>9, <4>4
      <4>5. CASE ~Fragile(p, before.at[p].value)
        <5>1. Invoice(k + 1).at[p] = before.at[p]
          BY <2>6, <2>7, <4>1, <4>2, <4>3, <4>5, ShownKeeps
        <5> QED
          BY <2>1, <2>7, <2>9, <3>1, <5>1, AgreeReflexive
      <4> QED
        BY <4>4, <4>5
    <3>3. CASE before.at[p].value = Null
      <4>1. CASE k = 1
        <5>1. p \in Paths(extraction.lines)
          BY <2>8, <2>9, <4>1
        <5>2. PICK raw : raw = extraction.at[p].text
          OBVIOUS
        <5>3. before.at[p] = Normalize(p, raw) /\ raw \in Raws(p) \cup {Null}
          BY <2>2, <2>8, <4>1, <5>1, <5>2, DraftIsNormalized, DraftFacts
        <5>4. OnPage(before, p) = raw
          BY <2>9, <3>3, <5>1, <5>2 DEF OnPage
        <5>5. Invoice(k + 1).at[p] = before.at[p]
          BY <2>6, <2>7, <3>3, <5>3, <5>4, ShownFailsAgain
        <5> QED
          BY <2>1, <2>7, <2>9, <3>1, <5>5, AgreeReflexive
      <4>2. CASE k # 1
        BY <2>1, <2>2, <2>9, <3>3, <4>2
      <4> QED
        BY <4>1, <4>2
    <3> QED
      BY <3>2, <3>3
  <2>10. CASE p \notin Paths(before.lines)
    <3>1. k # 1
      BY <2>4, <2>5, <2>8, <2>10 DEF Larger
    <3> QED
      BY <2>1, <2>2, <2>10, <3>1
  <2> QED
    BY <2>9, <2>10
<1> QED
  BY <1>1, ScreenInvariant, PTL

-----------------------------------------------------------------------------
(* The log, applied to the first invoice *)

LEMMA AgreeTransitive ==
  ASSUME NEW path, Kind(path) \in Kinds, NEW x \in Results(path), NEW y \in Results(path),
         NEW z \in Results(path), Agree(path, x, y), Agree(path, y, z)
  PROVE  Agree(path, x, z)
<1>1. PICK u, v, w : u = x.value /\ v = y.value /\ w = z.value
  OBVIOUS
<1>2. /\ u \in Values(path) \cup {Null} /\ v \in Values(path) \cup {Null}
      /\ w \in Values(path) \cup {Null}
  BY <1>1, ResultFacts
<1>3. x.error = z.error /\ values_equal(path, u, v) /\ values_equal(path, v, w)
  BY <1>1 DEF Agree
<1>4. values_equal(path, u, w)
  <2>1. CASE Kind(path) # "number"
    BY <1>3, <2>1 DEF values_equal
  <2>2. CASE Kind(path) = "number"
    <3>1. CASE Null \in {u, v, w}
      <4>1. u = v \/ v = w
        BY <1>3, <3>1 DEF values_equal
      <4> QED
        BY <1>3, <4>1
    <3>2. CASE Null \notin {u, v, w}
      <4>1. u \in Decimals /\ v \in Decimals /\ w \in Decimals
        BY <1>2, <2>2, <3>2 DEF Values
      <4>2. SameDecimal(u, v) /\ SameDecimal(v, w)
        BY <1>3, <2>2, <3>2 DEF values_equal
      <4>3. SameDecimal(u, w)
        BY <4>1, <4>2, SameDecimalTransitive
      <4> QED
        BY <2>2, <3>2, <4>3 DEF values_equal
    <3> QED
      BY <3>1, <3>2
  <2> QED
    BY <2>1, <2>2
<1> QED
  BY <1>1, <1>3, <1>4 DEF Agree

\* Two invoices with the same lines that agree everywhere.
Alike(left, right) ==
  /\ left.lines = right.lines
  /\ \A p \in Paths(right.lines) : left.at[p] \in Results(p) /\ Agree(p, left.at[p], right.at[p])

AreLineEntries(T, operation, a, b) == T = {Entry(operation, <<i>>, Null, ABSENT) : i \in a .. b}

LEMMA LineEntriesCounted ==
  ASSUME NEW a \in Int, NEW b \in Int, NEW operation, NEW T, AreLineEntries(T, operation, a, b)
  PROVE  Cardinality(T) = IF a > b THEN 0 ELSE b - a + 1
<1> DEFINE f == [i \in a .. b |-> Entry(operation, <<i>>, Null, ABSENT)]
<1>1. \A i \in a .. b : f[i].field_path = <<i>>
  BY DEF Entry
<1>2. \A i \in a .. b : f[i] \in T
  BY DEF AreLineEntries
<1>3. \A x \in T : \E i \in a .. b : f[i] = x
  BY DEF AreLineEntries
<1> HIDE DEF f
<1>4. \A i, j \in a .. b : f[i] = f[j] => i = j
  <2> SUFFICES ASSUME NEW i \in a .. b, NEW j \in a .. b, f[i] = f[j]
               PROVE  i = j
    OBVIOUS
  <2>1. <<i>> = <<j>>
    BY <1>1
  <2> QED
    BY <2>1
<1>5. Enumerates(f, a, b, T)
  BY <1>2, <1>3, <1>4 DEF Enumerates
<1> QED
  BY <1>5, Counted

LEMMA OperationsDiffer ==
  ASSUME NEW base, IsNormalized(base), NEW merged, IsNormalized(merged)
  PROVE  /\ {e \in Entries(base, merged) : e.operation = "ADD_LINE_ITEM"} = AddEntries(base, merged)
         /\ {e \in Entries(base, merged) : e.operation = "REMOVE_LINE_ITEM"} = RemoveEntries(base, merged)
         /\ {e \in Entries(base, merged) : e.operation = "SET_FIELD"} = SetEntries(base, merged)
<1>1. PICK S, A, R : /\ S = SetEntries(base, merged) /\ A = AddEntries(base, merged)
                     /\ R = RemoveEntries(base, merged)
  OBVIOUS
<1>2. \A e \in S : e.operation = "SET_FIELD"
  <2> SUFFICES ASSUME NEW e \in S PROVE e.operation = "SET_FIELD"
    OBVIOUS
  <2>1. PICK p : SetsPath(e, base, merged, p)
    BY <1>1, SetEntryFacts
  <2> QED
    BY <2>1 DEF SetsPath
<1>3. \A e \in A : e.operation = "ADD_LINE_ITEM"
  BY <1>1, LineEntryFacts DEF ChangesLine
<1>4. \A e \in R : e.operation = "REMOVE_LINE_ITEM"
  BY <1>1, LineEntryFacts DEF ChangesLine
<1>5. Entries(base, merged) = S \cup A \cup R
  BY <1>1 DEF Entries
<1> QED
  BY <1>1, <1>2, <1>3, <1>4, <1>5

\* The entries of a correction, applied to an invoice like its base, give one
\* like its result.
LEMMA ReplayStep ==
  ASSUME NEW base, IsNormalized(base), NEW merged, IsNormalized(merged),
         NEW other, Alike(other, base)
  PROVE  Alike(Replay(other, Entries(base, merged)), merged)
<1> DEFINE entries == Entries(base, merged)
           Count(operation) == Cardinality({e \in entries : e.operation = operation})
           SetAt(p) == {e \in entries : e.operation = "SET_FIELD" /\ e.field_path = p}
           lines == other.lines + Count("ADD_LINE_ITEM") - Count("REMOVE_LINE_ITEM")
           At(p) == IF SetAt(p) # {} THEN LET e == CHOOSE e \in SetAt(p) : TRUE
                                          IN [value |-> e.value, error |-> e.error]
                    ELSE IF p \in Paths(other.lines) THEN other.at[p] ELSE ABSENT
<1>1. Replay(other, entries) = [lines |-> lines, at |-> [p \in Paths(lines) |-> At(p)]]
  BY DEF Replay
<1>2. base.lines \in Nat /\ merged.lines \in Nat /\ other.lines = base.lines
  BY DEF IsNormalized, Alike
<1>3. lines = merged.lines
  <2>1. Count("ADD_LINE_ITEM")
          = IF base.lines + 1 > merged.lines THEN 0 ELSE merged.lines - (base.lines + 1) + 1
    <3>1. Count("ADD_LINE_ITEM") = Cardinality(AddEntries(base, merged))
      BY OperationsDiffer
    <3>2. base.lines + 1 \in Int /\ merged.lines \in Int
      BY <1>2
    <3>3. PICK a \in Int, b \in Int, T \in {AddEntries(base, merged)} :
          a = base.lines + 1 /\ b = merged.lines
      BY <3>2
    <3>4. AreLineEntries(T, "ADD_LINE_ITEM", a, b)
      BY <3>3 DEF AddEntries, AreLineEntries
    <3>5. Cardinality(T) = IF a > b THEN 0 ELSE b - a + 1
      BY <3>4, LineEntriesCounted
    <3> HIDE DEF Count
    <3> QED
      BY <3>1, <3>3, <3>5
  <2>2. Count("REMOVE_LINE_ITEM")
          = IF merged.lines + 1 > base.lines THEN 0 ELSE base.lines - (merged.lines + 1) + 1
    <3>1. Count("REMOVE_LINE_ITEM") = Cardinality(RemoveEntries(base, merged))
      BY OperationsDiffer
    <3>2. merged.lines + 1 \in Int /\ base.lines \in Int
      BY <1>2
    <3>3. PICK a \in Int, b \in Int, T \in {RemoveEntries(base, merged)} :
          a = merged.lines + 1 /\ b = base.lines
      BY <3>2
    <3>4. AreLineEntries(T, "REMOVE_LINE_ITEM", a, b)
      BY <3>3 DEF RemoveEntries, AreLineEntries
    <3>5. Cardinality(T) = IF a > b THEN 0 ELSE b - a + 1
      BY <3>4, LineEntriesCounted
    <3> HIDE DEF Count
    <3> QED
      BY <3>1, <3>3, <3>5
  <2> HIDE DEF Count
  <2> QED
    BY <1>2, <2>1, <2>2
<1>4. ASSUME NEW p \in Paths(merged.lines)
      PROVE  At(p) \in Results(p) /\ Agree(p, At(p), merged.at[p])
  <2>1. Kind(p) \in Kinds /\ merged.at[p] \in Results(p)
    BY <1>2, PathFacts DEF IsNormalized
  <2>2. \A e \in SetAt(p) : /\ e \in SetEntries(base, merged)
                            /\ [value |-> e.value, error |-> e.error] = merged.at[p]
    <3>1. ASSUME NEW e \in SetAt(p)
          PROVE  /\ e \in SetEntries(base, merged)
                 /\ [value |-> e.value, error |-> e.error] = merged.at[p]
      <4>1. e \in SetEntries(base, merged) /\ e.field_path = p
        BY OperationsDiffer
      <4>2. PICK q : SetsPath(e, base, merged, q)
        BY <4>1, SetEntryFacts
      <4> QED
        BY <4>1, <4>2 DEF SetsPath
    <3> QED
      BY <3>1
  <2>3. CASE SetAt(p) # {}
    <3>1. PICK e : e = CHOOSE set \in SetAt(p) : TRUE
      OBVIOUS
    <3>2. e \in SetAt(p)
      BY <2>3, <3>1
    <3>3. At(p) = [value |-> e.value, error |-> e.error]
      <4> HIDE DEF SetAt
      <4> QED
        BY <2>3, <3>1
    <3>4. At(p) = merged.at[p]
      BY <2>2, <3>2, <3>3
    <3> HIDE DEF At
    <3> QED
      BY <2>1, <3>4, AgreeReflexive
  <2>4. CASE SetAt(p) = {}
    <3>1. IF p \in Paths(base.lines) THEN SameResult(p, base.at[p], merged.at[p])
                                     ELSE merged.at[p] = ABSENT
      <4> DEFINE changed == IF p \in Paths(base.lines) THEN ~SameResult(p, base.at[p], merged.at[p])
                                                       ELSE merged.at[p] # ABSENT
                 e == Entry("SET_FIELD", p,
                            IF p \in Paths(base.lines) THEN base.at[p].value ELSE Null, merged.at[p])
      <4>1. changed => e \in SetEntries(base, merged)
        BY DEF SetEntries
      <4>2. e.operation = "SET_FIELD" /\ e.field_path = p
        BY DEF Entry
      <4> HIDE DEF e
      <4>3. e \in SetEntries(base, merged) => e \in SetAt(p)
        BY <4>2 DEF Entries
      <4>4. ~changed
        BY <2>4, <4>1, <4>3
      <4> QED
        BY <4>4
    <3>2. At(p) = IF p \in Paths(other.lines) THEN other.at[p] ELSE ABSENT
      <4> HIDE DEF SetAt
      <4> QED
        BY <2>4
    <3> HIDE DEF At
    <3>3. CASE p \in Paths(base.lines)
      <4>1. At(p) = other.at[p]
        BY <1>2, <3>2, <3>3
      <4>2. other.at[p] \in Results(p) /\ Agree(p, other.at[p], base.at[p]) /\ base.at[p] \in Results(p)
        BY <3>3 DEF Alike, IsNormalized
      <4>3. Agree(p, base.at[p], merged.at[p])
        BY <3>1, <3>3 DEF SameResult, Agree
      <4> QED
        BY <2>1, <4>1, <4>2, <4>3, AgreeTransitive
    <3>4. CASE p \notin Paths(base.lines)
      <4>1. At(p) = merged.at[p]
        BY <1>2, <3>1, <3>2, <3>4
      <4> QED
        BY <2>1, <4>1, AgreeReflexive
    <3> QED
      BY <3>3, <3>4
  <2> QED
    BY <2>3, <2>4
<1>5. PICK replay : replay = Replay(other, entries)
  OBVIOUS
<1>6. replay.lines = merged.lines /\ replay.at = [p \in Paths(merged.lines) |-> At(p)]
  <2> HIDE DEF lines, At
  <2> QED
    BY <1>1, <1>3, <1>5
<1>7. \A p \in Paths(merged.lines) : replay.at[p] = At(p)
  <2> HIDE DEF At
  <2> QED
    BY <1>6
<1> HIDE DEF At
<1>8. Alike(replay, merged)
  BY <1>4, <1>6, <1>7 DEF Alike
<1> QED
  BY <1>5, <1>8

\* The function that AuditLogReplays defines exists: it is built one
\* correction after the other.
Replays(g, n) ==
  g = [k \in 1 .. n |-> IF k = 1 THEN Invoice(1) ELSE Replay(g[k - 1], log[k - 1].entries)]

LEMMA ReplayExists ==
  ASSUME NEW n \in Nat
  PROVE  \E g : Replays(g, n)
<1> DEFINE G == {m \in Nat : \E g : Replays(g, m)}
<1>1. 0 \in G
  <2>1. PICK g : g = [k \in 1 .. 0 |-> Null]
    OBVIOUS
  <2>2. g = [k \in 1 .. 0 |-> IF k = 1 THEN Invoice(1) ELSE Replay(g[k - 1], log[k - 1].entries)]
    BY <2>1
  <2> QED
    BY <2>2 DEF Replays
<1>2. ASSUME NEW m \in Nat, m \in G
      PROVE  m + 1 \in G
  <2>1. PICK g : Replays(g, m)
    BY <1>2
  <2>2. \A k \in 1 .. m : g[k] = IF k = 1 THEN Invoice(1) ELSE Replay(g[k - 1], log[k - 1].entries)
    BY <2>1 DEF Replays
  <2> DEFINE h == [k \in 1 .. m + 1 |->
                     IF k \in 1 .. m THEN g[k]
                     ELSE IF k = 1 THEN Invoice(1) ELSE Replay(g[m], log[m].entries)]
  <2>3. ASSUME NEW k \in 1 .. m + 1
        PROVE  h[k] = IF k = 1 THEN Invoice(1) ELSE Replay(h[k - 1], log[k - 1].entries)
    <3>1. CASE k \in 1 .. m
      <4>1. h[k] = g[k] /\ (k # 1 => k - 1 \in 1 .. m /\ k - 1 \in 1 .. m + 1)
        BY <3>1
      <4>2. k # 1 => h[k - 1] = g[k - 1]
        BY <4>1
      <4> HIDE DEF h
      <4> QED
        BY <2>2, <3>1, <4>1, <4>2
    <3>2. CASE k \notin 1 .. m
      <4>1. k = m + 1 /\ k - 1 = m /\ (k # 1 => m \in 1 .. m /\ m \in 1 .. m + 1)
        BY <3>2
      <4>2. h[k] = IF k = 1 THEN Invoice(1) ELSE Replay(g[m], log[m].entries)
        BY <3>2
      <4>3. k # 1 => h[m] = g[m]
        BY <4>1
      <4> HIDE DEF h
      <4> QED
        BY <4>1, <4>2, <4>3
    <3> QED
      BY <3>1, <3>2
  <2>4. h = [k \in 1 .. m + 1 |-> h[k]]
    OBVIOUS
  <2> HIDE DEF h
  <2>5. h = [k \in 1 .. m + 1 |->
               IF k = 1 THEN Invoice(1) ELSE Replay(h[k - 1], log[k - 1].entries)]
    BY <2>3, <2>4
  <2>6. Replays(h, m + 1)
    BY <2>5 DEF Replays
  <2> QED
    BY <2>6
<1>3. Nat \subseteq G
  <2> HIDE DEF G
  <2> QED
    BY <1>1, <1>2, NaturalInduction
<1> QED
  BY <1>3

LEMMA ReplayedIsAlike ==
  ASSUME ScreenIInv, NEW g, Replays(g, Len(history))
  PROVE  Alike(g[Len(history)], Invoice(Len(history)))
<1>1. PICK n \in Nat \ {0} : n = Len(history)
  BY ChainFacts
<1>2. \A k \in 1 .. n : g[k] = IF k = 1 THEN Invoice(1) ELSE Replay(g[k - 1], log[k - 1].entries)
  BY <1>1 DEF Replays
<1> DEFINE G == {m \in Nat : m + 1 \in 1 .. n => Alike(g[m + 1], Invoice(m + 1))}
<1>3. 0 \in G
  <2>1. 1 \in 1 .. n /\ 0 + 1 = 1
    OBVIOUS
  <2>2. g[1] = Invoice(1) /\ IsNormalized(Invoice(1))
    BY <1>1, <1>2, <2>1, ChainFacts, DraftIsNormalized
  <2>3. \A p \in Paths(Invoice(1).lines) :
          /\ Invoice(1).at[p] \in Results(p)
          /\ Agree(p, Invoice(1).at[p], Invoice(1).at[p])
    BY <2>2, PathFacts, AgreeReflexive DEF IsNormalized
  <2> QED
    BY <2>1, <2>2, <2>3 DEF Alike
<1>4. ASSUME NEW m \in Nat, m \in G
      PROVE  m + 1 \in G
  <2> SUFFICES ASSUME (m + 1) + 1 \in 1 .. n
               PROVE  Alike(g[(m + 1) + 1], Invoice((m + 1) + 1))
    OBVIOUS
  <2>1. PICK k \in Nat : k = m + 1
    OBVIOUS
  <2>2. k \in 1 .. n /\ k \in 1 .. n - 1 /\ k + 1 \in 1 .. n /\ k + 1 # 1 /\ (k + 1) - 1 = k
    BY <2>1
  <2>3. Alike(g[k], Invoice(k))
    BY <1>4, <2>1, <2>2
  <2>4. g[k + 1] = Replay(g[k], log[k].entries)
    BY <1>2, <2>2
  <2>5. k \in DOMAIN log
    BY <1>1, <2>2, ChainFacts
  <2>6. /\ IsNormalized(Invoice(k)) /\ IsNormalized(Invoice(k + 1))
        /\ log[k].entries = Entries(Invoice(k), Invoice(k + 1))
    BY <2>5, CorrectionFacts
  <2>7. Alike(g[k + 1], Invoice(k + 1))
    BY <2>3, <2>4, <2>6, ReplayStep
  <2> QED
    BY <2>1, <2>7
<1>5. Nat \subseteq G
  <2> HIDE DEF G
  <2> QED
    BY <1>3, <1>4, NaturalInduction
<1>6. n - 1 \in G /\ (n - 1) + 1 = n
  BY <1>5
<1> QED
  BY <1>1, <1>6

\* The audit log is complete: its entries, applied to what the engine made of
\* the extraction, give the current invoice.
THEOREM AuditLogIsComplete == Spec => []AuditLogReplays
<1>1. ScreenIInv => AuditLogReplays
  <2> SUFFICES ASSUME ScreenIInv
               PROVE  AuditLogReplays
    OBVIOUS
  <2> DEFINE g == CHOOSE g : g = [k \in DOMAIN history |->
                                    IF k = 1 THEN Invoice(1)
                                    ELSE Replay(g[k - 1], log[k - 1].entries)]
  <2>1. Len(history) \in Nat /\ DOMAIN history = 1 .. Len(history)
    BY ChainFacts
  <2>2. Replays(g, Len(history))
    <3>1. PICK h : Replays(h, Len(history))
      BY <2>1, ReplayExists
    <3>2. h = [k \in DOMAIN history |->
                 IF k = 1 THEN Invoice(1) ELSE Replay(h[k - 1], log[k - 1].entries)]
      BY <2>1, <3>1 DEF Replays
    <3>3. g = [k \in DOMAIN history |->
                 IF k = 1 THEN Invoice(1) ELSE Replay(g[k - 1], log[k - 1].entries)]
      BY <3>2
    <3> HIDE DEF g
    <3> QED
      BY <2>1, <3>3 DEF Replays
  <2>3. AuditLogReplays <=>
          /\ g[Len(history)].lines = Invoice(Len(history)).lines
          /\ \A p \in Paths(Invoice(Len(history)).lines) :
               Agree(p, g[Len(history)].at[p], Invoice(Len(history)).at[p])
    BY DEF AuditLogReplays
  <2> HIDE DEF g
  <2> QED
    BY <2>2, <2>3, ReplayedIsAlike DEF Alike
<1> QED
  BY <1>1, ScreenInvariant, PTL

-----------------------------------------------------------------------------
(* What is meant *)

LEMMA DateIsUnderstood ==
  ASSUME NEW path, Kind(path) = "date", NEW writing,
         writing.text \in DateTexts, IsDateWriting(writing)
  PROVE  Understood(path, writing, normalize_date(writing.text))
<1>1. PICK s \in DateTexts : s = writing.text
  OBVIOUS
<1>2. PICK form \in DateForms, y \in Nat, m \in 1 .. 12, d \in 1 .. 31 :
         writing = DateWriting(<<y, m, d>>, form, s.suffix, s.on)
  <2>1. PICK form \in DateForms, t \in {<<s.year, s.a, s.b>>, <<s.year, s.b, s.a>>} :
           /\ t[2] \in 1 .. 12 /\ t[3] \in 1 .. 31
           /\ writing = DateWriting(t, form, s.suffix, s.on)
    BY <1>1 DEF IsDateWriting
  <2>2. t = <<t[1], t[2], t[3]>> /\ t[1] = s.year /\ s.year \in Nat
    <3>1. s.year \in Nat
      BY DEF DateTexts
    <3>2. CASE t = <<s.year, s.a, s.b>>
      BY <3>1, <3>2
    <3>3. CASE t = <<s.year, s.b, s.a>>
      BY <3>1, <3>3
    <3> QED
      BY <2>1, <3>2, <3>3
  <2> QED
    BY <2>1, <2>2
<1>3. PICK r : r = normalize_date(s)
  OBVIOUS
<1> DEFINE meaning == IF IsRealDate(y, m, d) THEN [year |-> y, month |-> m, day |-> d] ELSE Null
           fits == s.suffix # "" => s.suffix = ordinal_suffix(d) /\ (s.on = "b" <=> MonthFirst(form))
<1>4. /\ s.form = (IF form = "us" THEN "num" ELSE form) /\ s.year = y
      /\ s.a = (IF MonthFirst(form) THEN m ELSE d) /\ s.b = (IF MonthFirst(form) THEN d ELSE m)
      /\ s.on \in {"a", "b"}
  <2>1. s = DateText(<<y, m, d>>, form, s.suffix, s.on)
    BY <1>1, <1>2 DEF DateWriting
  <2>2. s.on \in {"a", "b"}
    BY DEF DateTexts
  <2>3. <<y, m, d>>[1] = y /\ <<y, m, d>>[2] = m /\ <<y, m, d>>[3] = d
    OBVIOUS
  <2> QED
    BY <2>1, <2>2, <2>3 DEF DateText
<1>5. /\ writing.meant = meaning
      /\ writing.by = IF form \in {"ymd", "num", "name"} /\ fits THEN "house" ELSE "other"
  BY <1>2 DEF DateWriting, Meaning, Fits
<1>6. s # Null
  BY AbsentFacts
<1>7. r.value = meaning => Understood(path, writing, r)
  BY <1>5 DEF Understood, values_equal
<1>8. writing.by # "house" /\ r.error # Null => Understood(path, writing, r)
  BY DEF Understood
<1>9. IF IsRealDate(y, m, d) THEN to_iso(y, m, d) = Ok(meaning)
                             ELSE to_iso(y, m, d) = Fail("invalid_date") /\ meaning = Null
  BY IsoResult
<1>10. to_iso(y, m, d).value = meaning
  BY <1>9 DEF Ok, Fail
<1>11. Fail("invalid_date").error # Null
  BY AbsentFacts DEF Fail, NormalizationErrorCode
<1> HIDE DEF meaning
<1>12. CASE form \in {"short", "junk"}
  <2>1. DayPart(s) = "none"
    BY <1>4, <1>12 DEF DayPart
  <2>2. r = Fail("invalid_date")
    BY <1>3, <1>6, <2>1 DEF normalize_date
  <2>3. writing.by # "house"
    BY <1>5, <1>12
  <2> QED
    BY <1>1, <1>3, <1>8, <1>11, <2>2, <2>3
<1>13. CASE form = "ymd"
  <2>1. DayPart(s) = "b" /\ s.a = m /\ s.b = d /\ MonthFirst(form)
    BY <1>4, <1>13 DEF DayPart, MonthFirst
  <2>2. OrdinalFits(s) <=> fits
    BY <1>4, <2>1 DEF OrdinalFits
  <2>3. CASE fits
    BY <1>1, <1>3, <1>4, <1>6, <1>7, <1>10, <2>1, <2>2, <2>3 DEF normalize_date
  <2>4. CASE ~fits
    <3>1. r = Fail("invalid_date")
      BY <1>3, <1>6, <2>2, <2>4 DEF normalize_date
    <3>2. writing.by # "house"
      BY <1>5, <2>4
    <3> QED
      BY <1>1, <1>3, <1>8, <1>11, <3>1, <3>2
  <2> QED
    BY <2>3, <2>4
<1>14. CASE form \in {"num", "name"}
  <2>1. DayPart(s) = "a" /\ s.a = d /\ s.b = m /\ ~MonthFirst(form)
    <3>1. s.a = d /\ s.b = m /\ ~MonthFirst(form)
      BY <1>4, <1>14 DEF MonthFirst
    <3>2. ~(m > 12)
      OBVIOUS
    <3>3. DayPart(s) = "a"
      BY <1>4, <1>14, <3>1, <3>2 DEF DayPart
    <3> QED
      BY <3>1, <3>3
  <2>2. OrdinalFits(s) <=> fits
    BY <1>4, <2>1 DEF OrdinalFits
  <2>3. CASE fits
    BY <1>1, <1>3, <1>4, <1>6, <1>7, <1>10, <2>1, <2>2, <2>3 DEF normalize_date
  <2>4. CASE ~fits
    <3>1. r = Fail("invalid_date")
      BY <1>3, <1>6, <2>2, <2>4 DEF normalize_date
    <3>2. writing.by # "house"
      BY <1>5, <2>4
    <3> QED
      BY <1>1, <1>3, <1>8, <1>11, <3>1, <3>2
  <2> QED
    BY <2>3, <2>4
<1>15. CASE form = "us"
  <2>1. s.form = "num" /\ s.a = m /\ s.b = d /\ writing.by # "house"
    BY <1>4, <1>5, <1>15 DEF MonthFirst
  <2>2. m <= 12
    OBVIOUS
  <2>3. CASE d <= 12
    <3>1. ReadByPolicy(path, s)
      BY <2>1, <2>2, <2>3 DEF ReadByPolicy
    <3> QED
      BY <1>1, <2>1, <3>1 DEF Understood
  <2>4. CASE ~(d <= 12)
    <3>1. d > 12
      BY <2>4
    <3>2. DayPart(s) = "b"
      BY <2>1, <2>2, <3>1 DEF DayPart
    <3>3. r = to_iso(y, m, d) \/ r = Fail("invalid_date")
      BY <1>3, <1>4, <1>6, <2>1, <3>2 DEF normalize_date
    <3> QED
      BY <1>1, <1>3, <1>7, <1>8, <1>10, <1>11, <2>1, <3>3
  <2> QED
    BY <2>3, <2>4
<1> QED
  BY <1>12, <1>13, <1>14, <1>15 DEF DateForms

LEMMA GroupFacts ==
  ASSUME NEW n \in Nat \ {0}
  PROVE  /\ Len(GroupsOf(n)) \in Nat \ {0}
         /\ GroupsOf(n) \in Seq(Nat) /\ DOMAIN GroupsOf(n) = 1 .. Len(GroupsOf(n))
         /\ GroupsOf(n)[1] \in 1 .. 3
         /\ \A i \in 2 .. Len(GroupsOf(n)) : GroupsOf(n)[i] = 3
<1>1. PICK g : g = (n + 2) \div 3
  OBVIOUS
<1>2. g \in Nat \ {0} /\ n - 3 * (g - 1) \in 1 .. 3
  BY <1>1
<1> DEFINE f == [i \in 1 .. g |-> IF i = 1 THEN n - 3 * (g - 1) ELSE 3]
<1>3. GroupsOf(n) = f
  BY <1>1 DEF GroupsOf
<1>4. f \in [1 .. g -> Nat]
  BY <1>2
<1>5. f \in Seq(Nat) /\ Len(f) = g /\ DOMAIN f = 1 .. g
  BY <1>2, <1>4
<1>6. f[1] \in 1 .. 3 /\ \A i \in 2 .. g : f[i] = 3
  BY <1>2
<1> HIDE DEF f
<1> QED
  BY <1>2, <1>3, <1>5, <1>6

\* Groups of three, of which the first may be shorter.
Grouping(runs, between, g) ==
  /\ g >= 1
  /\ between = "" => g = 1
  /\ g > 1 => runs[1] \in 1 .. 3 /\ \A i \in 2 .. g : runs[i] = 3

\* How an amount is laid out: g groups, and then the decimals if there are any.
Layout(s, scale, point, between, g) ==
  /\ Grouping(s.runs, between, g)
  /\ \A i \in 1 .. g - 1 : s.seps[i] = between
  /\ scale = 0 => Len(s.runs) = g /\ Len(s.seps) = g - 1
  /\ scale # 0 => /\ Len(s.runs) = g + 1 /\ s.runs[g + 1] = scale
                  /\ Len(s.seps) = g /\ s.seps[g] = point

LEMMA AmountLayout ==
  ASSUME NEW d \in [coef : Nat, scale : Nat], NEW point, NEW between, NEW signs, NEW affix,
         NEW outside
  PROVE  LET s == AmountText(d, <<point, between>>, signs, affix, outside) IN
         /\ s.first = signs[1] /\ s.last = signs[2] /\ s.affix = affix /\ s.outside = outside
         /\ s.coef = d.coef
         /\ \E g \in Nat : Layout(s, d.scale, point, between, g)
<1>1. PICK scale \in Nat : scale = d.scale
  OBVIOUS
<1>2. PICK n \in Nat : n = Digits[d.coef]
  BY DigitsUnfold
<1>3. PICK whole \in Nat \ {0} : whole = IF n > scale THEN n - scale ELSE 1
  <2>1. (IF n > scale THEN n - scale ELSE 1) \in Nat \ {0}
    OBVIOUS
  <2> QED
    BY <2>1
<1>4. PICK runs : runs = IF between = "" THEN <<whole>> ELSE GroupsOf(whole)
  OBVIOUS
<1>5. /\ Len(runs) \in Nat \ {0} /\ runs \in Seq(Nat)
      /\ between = "" => Len(runs) = 1
      /\ Len(runs) > 1 => runs[1] \in 1 .. 3 /\ \A i \in 2 .. Len(runs) : runs[i] = 3
  <2>1. CASE between = ""
    <3>1. runs = <<whole>>
      BY <1>4, <2>1
    <3>2. Len(runs) = 1 /\ runs \in Seq(Nat)
      BY <3>1
    <3> QED
      BY <3>2
  <2>2. CASE between # ""
    BY <1>4, <2>2, GroupFacts
  <2> QED
    BY <2>1, <2>2
<1>6. PICK g \in Nat \ {0} : g = Len(runs)
  BY <1>5
<1>7. g >= 1 /\ g - 1 \in Nat /\ (g - 1) + 1 = g
  OBVIOUS
<1>8. runs \in Seq(Nat)
  BY <1>5
<1>9. Grouping(runs, between, g)
  BY <1>5, <1>6, <1>7 DEF Grouping
<1>10. PICK groups : groups = [i \in 1 .. g - 1 |-> between]
  OBVIOUS
<1>11. Len(groups) = g - 1 /\ groups \in Seq({between, point})
  <2>1. groups \in [1 .. g - 1 -> {between, point}]
    BY <1>10
  <2> QED
    BY <1>7, <1>10, <2>1
<1>12. \A i \in 1 .. g - 1 : groups[i] = between
  BY <1>10
<1>13. PICK s : s = AmountText(d, <<point, between>>, signs, affix, outside)
  OBVIOUS
<1>14. /\ s.first = signs[1] /\ s.last = signs[2] /\ s.affix = affix /\ s.outside = outside
       /\ s.coef = d.coef
       /\ s.runs = (IF scale = 0 THEN runs ELSE Append(runs, scale))
       /\ s.seps = (IF scale = 0 THEN groups ELSE Append(groups, point))
  BY <1>1, <1>2, <1>3, <1>4, <1>6, <1>10, <1>13 DEF AmountText
<1>15. Layout(s, scale, point, between, g)
  <2>1. CASE scale = 0
    <3>1. s.runs = runs /\ s.seps = groups
      BY <1>14, <2>1
    <3> QED
      BY <1>6, <1>9, <1>11, <1>12, <2>1, <3>1 DEF Layout
  <2>2. CASE scale # 0
    <3>1. s.runs = Append(runs, scale) /\ s.seps = Append(groups, point)
      BY <1>14, <2>2
    <3>2. /\ Len(s.runs) = g + 1 /\ s.runs[g + 1] = scale
          /\ \A i \in 1 .. g : s.runs[i] = runs[i]
      <4>1. /\ DOMAIN runs = 1 .. Len(runs) /\ DOMAIN Append(runs, scale) = 1 .. Len(runs) + 1
            /\ Len(Append(runs, scale)) = Len(runs) + 1
            /\ Append(runs, scale)[Len(runs) + 1] = scale
            /\ \A i \in 1 .. Len(runs) : Append(runs, scale)[i] = runs[i]
        BY <1>8
      <4> QED
        BY <1>6, <3>1, <4>1
    <3>3. /\ Len(s.seps) = g /\ s.seps[g] = point
          /\ \A i \in 1 .. g - 1 : s.seps[i] = groups[i]
      <4>1. /\ Len(Append(groups, point)) = Len(groups) + 1
            /\ Append(groups, point)[Len(groups) + 1] = point
            /\ \A i \in 1 .. Len(groups) : Append(groups, point)[i] = groups[i]
        BY <1>11
      <4> QED
        BY <1>7, <1>11, <3>1, <4>1
    <3>4. Grouping(s.runs, between, g)
      <4>1. 1 \in 1 .. g /\ \A i \in 2 .. g : i \in 1 .. g
        OBVIOUS
      <4> QED
        BY <1>9, <3>2, <4>1 DEF Grouping
    <3>5. \A i \in 1 .. g - 1 : s.seps[i] = between
      BY <1>12, <3>3
    <3> QED
      BY <2>2, <3>2, <3>3, <3>4, <3>5 DEF Layout
  <2> QED
    BY <2>1, <2>2
<1> QED
  BY <1>1, <1>13, <1>14, <1>15

\* Where the parser takes an amount, it takes it as it was meant or by its
\* policy, and the documented writing is always taken.
LEMMA LayoutIsRead ==
  ASSUME NEW s \in NumberTexts, NEW scale \in Nat, NEW point, NEW between,
         <<point, between>> \in Conventions,
         NEW g \in Nat \ {0}, Layout(s, scale, point, between, g)
  PROVE  LET taken == IsPlain(s) \/ IsGrouped(s, ",") \/ IsGrouped(s, "space")
             last  == IF s.seps # <<>> /\ s.seps[Len(s.seps)] = "." THEN s.runs[Len(s.runs)] ELSE 0
         IN
         /\ s.runs # <<>>
         /\ point = "." => taken /\ last = scale
         /\ point = "," /\ taken =>
              last = scale \/ (Len(s.seps) = 1 /\ s.runs[1] <= 3 /\ s.runs[2] = 3)
<1> DEFINE taken == IsPlain(s) \/ IsGrouped(s, ",") \/ IsGrouped(s, "space")
           last  == IF s.seps # <<>> /\ s.seps[Len(s.seps)] = "." THEN s.runs[Len(s.runs)] ELSE 0
<1>1. s.runs \in Seq(Nat) /\ s.seps \in Seq(Separators)
  BY DEF NumberTexts
<1>2. /\ g - 1 \in Nat /\ (g + 1) - 1 = g /\ (g # 1 => g > 1)
      /\ g + 1 # 0 /\ g + 1 # 1 /\ (g - 1 # 0 => g - 1 \in 1 .. g - 1)
      /\ (g > 1 => g + 1 > 2 /\ 1 \in 1 .. g - 1)
      /\ \A i \in 2 .. g : i - 1 \in 1 .. g - 1
  OBVIOUS
<1>3. \/ point = "." /\ between \in {"", ",", "space"}
      \/ point = "," /\ between \in {"", ".", "space"}
  BY DEF Conventions
<1>4. s.runs # <<>>
  <2>1. Len(s.runs) = g \/ Len(s.runs) = g + 1
    BY DEF Layout, Grouping
  <2>2. Len(s.runs) # 0
    BY <1>2, <2>1
  <2> QED
    BY <2>2
<1>5. s.seps # <<>> <=> Len(s.seps) # 0
  BY <1>1
<1>6. Len(s.seps) = 1 /\ s.seps[1] = "." => s.seps = <<".">>
  BY <1>1
<1>7. scale = 0 /\ (g = 1 \/ between # ".") => last = scale
  <2> SUFFICES ASSUME scale = 0, g = 1 \/ between # ".", s.seps # <<>>
               PROVE  s.seps[Len(s.seps)] # "."
    OBVIOUS
  <2>1. Len(s.seps) = g - 1 /\ g - 1 # 0
    BY <1>5 DEF Layout, Grouping
  <2>2. g - 1 \in 1 .. g - 1
    BY <1>2, <2>1
  <2>3. s.seps[g - 1] = between
    BY <2>2 DEF Layout, Grouping
  <2>4. g # 1
    BY <2>1
  <2> QED
    BY <2>1, <2>3, <2>4
<1>8. ASSUME point = "."
      PROVE  taken /\ last = scale
  <2>1. last = scale
    <3>1. CASE scale = 0
      BY <1>3, <1>7, <1>8, <3>1
    <3>2. CASE scale # 0
      <4>1. Len(s.seps) = g /\ s.seps[g] = "." /\ Len(s.runs) = g + 1 /\ s.runs[g + 1] = scale
        BY <1>8, <3>2 DEF Layout, Grouping
      <4>2. g # 0
        OBVIOUS
      <4> QED
        BY <1>5, <4>1, <4>2
    <3> QED
      BY <3>1, <3>2
  <2>2. CASE g = 1
    <3>1. scale = 0 => Len(s.runs) = 1
      BY <2>2 DEF Layout, Grouping
    <3>2. scale # 0 => Len(s.seps) = 1 /\ s.seps[1] = "."
      BY <1>8, <2>2 DEF Layout, Grouping
    <3> QED
      BY <1>6, <2>1, <3>1, <3>2 DEF IsPlain
  <2>3. CASE g # 1
    <3>1. g > 1 /\ between \in {",", "space"}
      <4>1. between # ""
        BY <2>3 DEF Layout, Grouping
      <4> QED
        BY <1>2, <1>3, <1>8, <2>3, <4>1
    <3>2. \A i \in 2 .. g : s.seps[i - 1] = between
      BY <1>2 DEF Layout, Grouping
    <3>3. GroupedBy(s, between, g)
      BY <3>1, <3>2 DEF GroupedBy, Layout, Grouping
    <3>4. IsGrouped(s, between)
      <4>1. CASE scale = 0
        <5>1. Len(s.runs) = g
          BY <4>1 DEF Layout, Grouping
        <5> QED
          BY <3>3, <5>1 DEF IsGrouped
      <4>2. CASE scale # 0
        <5>1. Len(s.runs) = g + 1 /\ s.seps[g] = "."
          BY <1>8, <4>2 DEF Layout, Grouping
        <5>2. g + 1 > 2 /\ (g + 1) - 1 = g
          BY <1>2, <3>1
        <5> QED
          BY <3>3, <5>1, <5>2 DEF IsGrouped
      <4> QED
        BY <4>1, <4>2
    <3> QED
      BY <2>1, <3>1, <3>4
  <2> QED
    BY <2>2, <2>3
<1>9. ASSUME point = ",", taken
      PROVE  last = scale \/ (Len(s.seps) = 1 /\ s.runs[1] <= 3 /\ s.runs[2] = 3)
  <2>1. between \in {"", ".", "space"}
    BY <1>3, <1>9
  <2>2. CASE scale = 0
    <3>1. Len(s.runs) = g /\ Len(s.seps) = g - 1 /\ \A i \in 1 .. g - 1 : s.seps[i] = between
      BY <2>2 DEF Layout, Grouping
    <3>2. CASE g = 1 \/ between # "."
      <4>1. last = scale
        BY <1>7, <2>2, <3>2
      <4> HIDE DEF last
      <4> QED
        BY <4>1
    <3>3. CASE g > 1 /\ between = "."
      <4>1. 1 \in 1 .. g - 1 /\ s.seps[1] = "."
        BY <1>2, <3>1, <3>3
      <4>2. ~IsGrouped(s, ",") /\ ~IsGrouped(s, "space")
        <5>1. ASSUME NEW sep, sep # "."
              PROVE  ~IsGrouped(s, sep)
          <6>1. ASSUME NEW k \in Nat, k > 1
                PROVE  ~GroupedBy(s, sep, k)
            <7>1. 2 \in 2 .. k /\ 2 - 1 = 1
              BY <6>1
            <7>2. GroupedBy(s, sep, k) => s.seps[2 - 1] = sep
              BY <7>1 DEF GroupedBy
            <7> QED
              BY <4>1, <5>1, <7>1, <7>2
          <6>2. g > 2 => g - 1 > 1
            OBVIOUS
          <6>3. g \in Nat /\ g > 1 /\ (g > 2 => g - 1 \in Nat /\ g - 1 > 1)
            BY <1>2, <3>3, <6>2
          <6> QED
            BY <3>1, <6>1, <6>3 DEF IsGrouped
        <5> QED
          BY <5>1
      <4>3. IsPlain(s)
        BY <1>9, <4>2
      <4>4. g # 1
        BY <3>3
      <4>5. s.seps = <<".">>
        BY <3>1, <4>4, <4>3 DEF IsPlain
      <4>6. Len(s.seps) = 1 /\ g = 2
        <5>1. Len(s.seps) = 1
          BY <4>5
        <5>2. g - 1 = 1
          BY <3>1, <5>1
        <5>3. g = 2
          BY <5>2
        <5> QED
          BY <5>1, <5>3
      <4>7. s.runs[1] \in 1 .. 3 /\ s.runs[2] = 3
        <5>1. 2 \in 2 .. g /\ g > 1
          BY <4>6
        <5> QED
          BY <5>1 DEF Layout, Grouping
      <4>8. s.runs[1] <= 3
        BY <4>7
      <4> QED
        BY <4>6, <4>7, <4>8
    <3> QED
      BY <1>2, <3>2, <3>3
  <2>3. CASE scale # 0
    <3>1. /\ Len(s.runs) = g + 1 /\ Len(s.seps) = g /\ s.seps[g] = ","
          /\ \A i \in 1 .. g - 1 : s.seps[i] = between
      BY <1>9, <2>3 DEF Layout, Grouping
    <3>2. ~IsPlain(s)
      <4>1. Len(s.runs) # 1
        BY <1>2, <3>1
      <4>2. s.seps # <<".">>
        <5>1. ASSUME s.seps = <<".">>
              PROVE  FALSE
          <6>1. Len(s.seps) = 1 /\ s.seps[1] = "."
            BY <5>1
          <6> QED
            BY <3>1, <6>1
        <5> QED
          BY <5>1
      <4> QED
        BY <4>1, <4>2 DEF IsPlain
    <3>3. (g + 1) - 1 = g /\ s.seps[(g + 1) - 1] # "."
      BY <1>2, <3>1
    <3>4. ASSUME NEW sep, IsGrouped(s, sep)
          PROVE  GroupedBy(s, sep, g + 1)
      BY <3>1, <3>3, <3>4 DEF IsGrouped
    <3>5. ASSUME NEW sep, GroupedBy(s, sep, g + 1)
          PROVE  sep = "," /\ (g > 1 => sep = between) /\ s.runs[1] \in 1 .. 3 /\ s.runs[2] = 3
      <4>1. \A i \in 2 .. g + 1 : s.runs[i] = 3 /\ s.seps[i - 1] = sep
        BY <3>5 DEF GroupedBy
      <4>2. g + 1 \in 2 .. g + 1 /\ 2 \in 2 .. g + 1 /\ 2 - 1 = 1 /\ (g > 1 => 1 \in 1 .. g - 1)
        BY <1>2
      <4>3. s.seps[g] = sep /\ s.seps[1] = sep /\ s.runs[2] = 3
        BY <3>3, <4>1, <4>2
      <4> QED
        BY <3>1, <3>5, <4>2, <4>3 DEF GroupedBy
    <3>6. GroupedBy(s, ",", g + 1)
      BY <1>9, <3>2, <3>4, <3>5
    <3>7. s.runs[1] \in 1 .. 3 /\ s.runs[2] = 3 /\ ~(g > 1)
      BY <2>1, <3>5, <3>6
    <3>8. g = 1 /\ s.runs[1] <= 3
      <4>1. s.runs[1] <= 3
        BY <3>7
      <4> QED
        BY <1>2, <3>7, <4>1
    <3> QED
      BY <3>1, <3>7, <3>8
  <2> QED
    BY <2>2, <2>3
<1> QED
  BY <1>3, <1>4, <1>8, <1>9

LEMMA AmountIsUnderstood ==
  ASSUME NEW path, Kind(path) = "number", NEW writing,
         writing.text \in NumberTexts, IsAmount(writing)
  PROVE  Understood(path, writing, normalize_decimal(writing.text))
<1>1. PICK s \in NumberTexts : s = writing.text
  OBVIOUS
<1>2. /\ s.coef \in Nat /\ s.runs \in Seq(Nat) /\ s.seps \in Seq(Separators)
      /\ s.outside \in BOOLEAN
  BY DEF NumberTexts
<1>3. PICK convention \in Conventions, scale \in Nat :
          writing = Amount([coef |-> s.coef, scale |-> scale], convention,
                           <<s.first, s.last>>, s.affix, s.outside)
  <2>1. PICK convention \in Conventions, scale \in {0} \cup {s.runs[i] : i \in DOMAIN s.runs} :
           writing = Amount([coef |-> s.coef, scale |-> scale], convention,
                            <<s.first, s.last>>, s.affix, s.outside)
    BY <1>1 DEF IsAmount
  <2>2. scale \in Nat
    BY <1>2, <2>1
  <2> QED
    BY <2>1, <2>2
<1>4. PICK point, between : convention = <<point, between>>
  BY DEF Conventions
<1>5. /\ <<point, between>> \in Conventions
      /\ writing = Amount([coef |-> s.coef, scale |-> scale], <<point, between>>,
                          <<s.first, s.last>>, s.affix, s.outside)
  BY <1>3, <1>4
<1>6. PICK d : d = [coef |-> s.coef, scale |-> scale]
  OBVIOUS
<1>7. d \in [coef : Nat, scale : Nat] /\ d.coef = s.coef /\ d.scale = scale
  BY <1>2, <1>6
<1>8. s = AmountText(d, <<point, between>>, <<s.first, s.last>>, s.affix, s.outside)
  <2>1. writing = Amount(d, <<point, between>>, <<s.first, s.last>>, s.affix, s.outside)
    BY <1>5, <1>6
  <2>2. PICK w : w = AmountText(d, <<point, between>>, <<s.first, s.last>>, s.affix, s.outside)
    OBVIOUS
  <2>3. writing.text = w
    BY <2>1, <2>2 DEF Amount
  <2> QED
    BY <1>1, <2>2, <2>3
<1>9. PICK g \in Nat \ {0} : Layout(s, scale, point, between, g)
  <2>1. PICK g \in Nat : Layout(s, scale, point, between, g)
    BY <1>7, <1>8, AmountLayout
  <2>2. g >= 1
    BY <2>1 DEF Layout, Grouping
  <2>3. g \in Nat \ {0}
    BY <2>2
  <2> QED
    BY <2>1, <2>3
<1>10. /\ writing.meant = (IF WellSigned(s) THEN Signed(d, s) ELSE Null)
      /\ writing.by = IF point = "." /\ s.affix # "glued" /\ ~s.outside /\ WellSigned(s)
                      THEN "house" ELSE "other"
  <2>1. writing = Amount(d, <<point, between>>, <<s.first, s.last>>, s.affix, s.outside)
    BY <1>5, <1>6
  <2> QED
    BY <1>8, <2>1 DEF Amount
<1>11. PICK r : r = normalize_decimal(s)
  OBVIOUS
<1>12. r = parse_decimal_string(s)
  BY <1>11, AbsentFacts, ShapesDiffer DEF normalize_decimal
<1>13. \A code \in NormalizationErrorCode : Fail(code).error # Null /\ Fail(code).value = Null
  BY AbsentFacts DEF Fail
<1>14. {"invalid_number", "ambiguous_number"} \subseteq NormalizationErrorCode
  BY DEF NormalizationErrorCode
<1>15. writing.by # "house" /\ r.error # Null => Understood(path, writing, r)
  BY DEF Understood
<1>16. writing.by # "house" /\ ReadByPolicy(path, s) => Understood(path, writing, r)
  BY <1>1 DEF Understood
<1>17. s.runs # <<>>
  BY <1>2, <1>5, <1>9, LayoutIsRead
<1>18. CASE ~WellSigned(s)
  <2>1. r = Fail("invalid_number") /\ writing.meant = Null
    BY <1>10, <1>12, <1>18 DEF parse_decimal_string
  <2>2. r.value = Null
    BY <1>13, <1>14, <2>1
  <2> QED
    BY <1>1, <1>11, <2>1, <2>2 DEF Understood, values_equal
<1>19. CASE WellSigned(s) /\ ~AffixIsStripped(s)
  <2>1. r = Fail("invalid_number")
    BY <1>12, <1>19 DEF parse_decimal_string
  <2>2. s.affix = "glued" \/ s.outside
    BY <1>19 DEF AffixIsStripped
  <2>3. writing.by # "house"
    BY <1>10, <2>2
  <2> QED
    BY <1>1, <1>11, <1>13, <1>14, <1>15, <2>1, <2>3
<1>20. CASE WellSigned(s) /\ AffixIsStripped(s)
  <2> DEFINE taken == IsPlain(s) \/ IsGrouped(s, ",") \/ IsGrouped(s, "space")
             last  == IF s.seps # <<>> /\ s.seps[Len(s.seps)] = "." THEN s.runs[Len(s.runs)] ELSE 0
  <2>1. /\ taken => r = Ok(ParsedDecimal(s))
        /\ ~taken => r = Fail("ambiguous_number") \/ r = Fail("invalid_number")
    BY <1>12, <1>17, <1>20 DEF parse_decimal_string
  <2>2. last = scale => ParsedDecimal(s) = Signed(d, s)
    <3>1. ParsedDecimal(s) = [coef |-> IF Negative(s) THEN - s.coef ELSE s.coef, scale |-> last]
      BY DEF ParsedDecimal
    <3>2. Signed(d, s) = [coef |-> IF Negative(s) THEN - s.coef ELSE s.coef, scale |-> scale]
      BY <1>6 DEF Signed
    <3> HIDE DEF last
    <3> QED
      BY <3>1, <3>2
  <2>3. /\ point = "." => taken /\ last = scale
        /\ point = "," /\ taken =>
             last = scale \/ (Len(s.seps) = 1 /\ s.runs[1] <= 3 /\ s.runs[2] = 3)
    BY <1>2, <1>5, <1>9, LayoutIsRead
  <2>4. point = "." \/ point = ","
    BY <1>5 DEF Conventions
  <2> HIDE DEF taken, last
  <2>5. CASE taken /\ last = scale
    <3>1. PICK v : v = ParsedDecimal(s)
      OBVIOUS
    <3>2. r = Ok(v) /\ writing.meant = v
      BY <1>10, <1>20, <2>1, <2>2, <2>5, <3>1
    <3>3. v \in Decimals
      BY <1>17, <3>1, ParsedIsDecimal
    <3>4. r.value = v
      BY <3>2 DEF Ok
    <3>5. values_equal(path, v, v)
      BY <3>3, SameDecimalReflexive DEF values_equal
    <3> QED
      BY <1>1, <1>11, <3>2, <3>4, <3>5 DEF Understood
  <2>6. CASE ~(taken /\ last = scale)
    <3>1. point = ","
      BY <2>3, <2>4, <2>6
    <3>2. writing.by # "house"
      BY <1>10, <3>1
    <3>3. CASE taken
      <4>1. Len(s.seps) = 1 /\ s.runs[1] <= 3 /\ s.runs[2] = 3
        BY <2>3, <2>6, <3>1, <3>3
      <4>2. "runs" \in DOMAIN s
        BY DEF NumberTexts
      <4>3. ReadByPolicy(path, s)
        BY <4>1, <4>2 DEF ReadByPolicy
      <4> QED
        BY <1>1, <1>11, <1>16, <3>2, <4>3
    <3>4. CASE ~taken
      <4>1. r.error # Null
        BY <1>13, <1>14, <2>1, <3>4
      <4> QED
        BY <1>1, <1>11, <1>15, <3>2, <4>1
    <3> QED
      BY <3>3, <3>4
  <2> QED
    BY <2>5, <2>6
<1> QED
  BY <1>18, <1>19, <1>20

LEMMA MeantIsUnderstood ==
  ASSUME NEW path, Kind(path) \in Kinds, NEW writing, IsMeant(path, writing)
  PROVE  Understood(path, writing, Normalize(path, writing.text))
<1>1. CASE writing.meant = Unknown
  BY <1>1 DEF Understood
<1>2. CASE writing.text = Null /\ writing.meant = Null
  <2>1. Normalize(path, writing.text) = ABSENT
    BY <1>2 DEF Normalize, normalize_text, normalize_date, normalize_currency,
       normalize_decimal, Kinds
  <2> QED
    BY <1>2, <2>1 DEF Understood, values_equal, ABSENT, Ok
<1>3. CASE Kind(path) = "number" /\ writing.text \in NumberTexts /\ IsAmount(writing)
  BY <1>3, AmountIsUnderstood DEF Normalize
<1>4. CASE Kind(path) = "date" /\ writing.text \in DateTexts /\ IsDateWriting(writing)
  BY <1>4, DateIsUnderstood DEF Normalize
<1> QED
  BY <1>1, <1>2, <1>3, <1>4 DEF IsMeant

\* No number or date is silently taken for another one: what a vendor printed
\* or a reviewer typed is kept as it was meant, flagged, or read by the
\* documented policy.
THEOREM MeaningIsNotLost == Spec => []MeaningIsKeptOrFlagged
<1>1. ScreenIInv => MeaningIsKeptOrFlagged
  <2> SUFFICES ASSUME ScreenIInv
               PROVE  MeaningIsKeptOrFlagged
    OBVIOUS
  <2>1. ASSUME NEW p \in Paths(extraction.lines)
        PROVE  Understood(p, extraction.at[p], Invoice(1).at[p])
    <3>1. 1 \in DOMAIN history /\ IsDraft(extraction) /\ Invoice(1) = Made(extraction)
      BY ChainFacts DEF SourceOf
    <3>2. Invoice(1).at[p] = Normalize(p, extraction.at[p].text) /\ Kind(p) \in Kinds
      BY <3>1, DraftIsNormalized, DraftFacts
    <3>3. IsMeant(p, extraction.at[p])
      BY DEF ScreenIInv, IsCase
    <3> QED
      BY <3>2, <3>3, MeantIsUnderstood
  <2>2. ASSUME NEW k \in DOMAIN log, NEW p \in Paths(log[k].draft.lines)
        PROVE  Understood(p, log[k].draft.at[p], Invoice(k + 1).at[p])
    <3>1. PICK writing : writing = log[k].draft.at[p]
      OBVIOUS
    <3>2. IsDraft(log[k].draft) /\ Invoice(k + 1) = Made(log[k].draft)
      BY CorrectionFacts
    <3>3. Invoice(k + 1).at[p] = Normalize(p, writing.text) /\ Kind(p) \in Kinds
      BY <3>1, <3>2, DraftIsNormalized, DraftFacts
    <3>4. WasTyped(p, writing)
      BY <3>1 DEF ScreenIInv, ChainIsKept, IsOurDraft
    <3>5. IsMeant(p, writing)
      <4>1. CASE writing.meant = Unknown
        BY <4>1 DEF IsMeant
      <4>2. CASE \E typed \in typing.palette : Kind(typed.path) = Kind(p) /\ writing = typed.writing
        <5>1. PICK typed \in typing.palette : Kind(typed.path) = Kind(p) /\ writing = typed.writing
          BY <4>2
        <5>2. IsMeant(typed.path, writing)
          BY <5>1 DEF ScreenIInv, IsCase
        <5> QED
          BY <5>1, <5>2 DEF IsMeant
      <4> QED
        BY <3>4, <4>1, <4>2 DEF WasTyped
    <3> QED
      BY <3>1, <3>3, <3>5, MeantIsUnderstood
  <2> QED
    BY <2>1, <2>2 DEF MeaningIsKeptOrFlagged
<1> QED
  BY <1>1, ScreenInvariant, PTL

=============================================================================
