------------------------------ MODULE Decimals ------------------------------
(***************************************************************************)
(* Prices and quantities: 64-bit integers scaled by 10^8, printed by the   *)
(* order clients (toDecimalString) and parsed by the market data parsers:  *)
(* the strict one of binance_connector and the loose one, of which         *)
(* binance/ and binance_data_parser/ each have a copy.                     *)
(*                                                                         *)
(* DecimalPlaces and MaxValue stand for 8 and for the largest int64.  As   *)
(* the real ones do they satisfy MaxValue \div Scale >= 9, without which   *)
(* the strict parser's unsigned difference could wrap.  A character is its *)
(* code less that of '0', which is what both parsers compute with.         *)
(***************************************************************************)
EXTENDS Integers, Sequences, FiniteSets, SequencesExt

CONSTANTS DecimalPlaces, MaxValue

Scale == 10 ^ DecimalPlaces
MinValue == -MaxValue - 1

ASSUME WidthAssumption ==
  DecimalPlaces \in Nat \ {0} /\ MaxValue \in Nat /\ MaxValue \div Scale >= 9

Dot == -2
Minus == -3
Plus == -5
Letter == 49  \* any other character
Digit == 0..9

\* What a parser returns is <<value>>, or Refused when it throws.
Refused == <<>>

-----------------------------------------------------------------------------
\* Printing

\* The last n digits of k, leading zeros included.
Padded(k, n) == [i \in 1..n |-> (k \div 10 ^ (n - i)) % 10]

Digits(k) ==
  Padded(k, CHOOSE n \in 1..(k + 1) : 10 ^ n > k /\ (n = 1 \/ 10 ^ (n - 1) <= k))

WithoutTrailingZeros(digits) ==
  SubSeq(digits, 1, Max({i \in 1..Len(digits) : digits[i] # 0}))

\* Mutant: the fraction is printed as a number, without its leading zeros.
toDecimalStringUnpadded(value) ==
  LET absolute == IF value < 0 THEN -(value + 1) + 1 ELSE value
      fraction == absolute % Scale
  IN  (IF value < 0 THEN <<Minus>> ELSE <<>>)
        \o Digits(absolute \div Scale)
        \o (IF fraction = 0 THEN <<>> ELSE <<Dot>> \o WithoutTrailingZeros(Digits(fraction)))

toDecimalString(value) ==
  LET absolute == IF value < 0 THEN -(value + 1) + 1 ELSE value
      fraction == absolute % Scale
  IN  (IF value < 0 THEN <<Minus>> ELSE <<>>)
        \o Digits(absolute \div Scale)
        \o (IF fraction = 0 THEN <<>>
            ELSE <<Dot>> \o WithoutTrailingZeros(Padded(fraction, DecimalPlaces)))

-----------------------------------------------------------------------------
\* The strict parser

\* What the loop over the characters has gathered; "bad" is what it throws.
Gathering == [integer |-> 0, fraction |-> 0, scale |-> 1, dotted |-> FALSE,
              integerDigit |-> FALSE, fractionDigit |-> FALSE, bad |-> FALSE]

IntegerDigit(g, digit, limit) ==
  IF g.integer > (limit \div Scale - digit) \div 10
  THEN [g EXCEPT !.bad = TRUE]
  ELSE [g EXCEPT !.integerDigit = TRUE, !.integer = @ * 10 + digit]

\* Zeros beyond the last decimal place are let pass.
FractionDigit(g, digit) ==
  IF g.scale < Scale
  THEN [g EXCEPT !.fractionDigit = TRUE, !.fraction = @ * 10 + digit, !.scale = @ * 10]
  ELSE [g EXCEPT !.fractionDigit = TRUE, !.bad = digit # 0]

Gather(g, character, limit) ==
  IF g.bad THEN g
  ELSE IF character = Dot
       THEN IF g.dotted THEN [g EXCEPT !.bad = TRUE] ELSE [g EXCEPT !.dotted = TRUE]
  ELSE IF character \notin Digit THEN [g EXCEPT !.bad = TRUE]
  ELSE IF g.dotted THEN FractionDigit(g, character)
  ELSE IntegerDigit(g, character, limit)

Signed(text) == text # <<>> /\ Head(text) \in {Minus, Plus}
Negative(text) == text # <<>> /\ Head(text) = Minus

\* Mutant: the sum is not compared with the limit.
parseDecimalUnchecked(text) ==
  LET limit == IF Negative(text) THEN MaxValue + 1 ELSE MaxValue
      digits == IF Signed(text) THEN Tail(text) ELSE text
      g == FoldLeft(LAMBDA h, character : Gather(h, character, limit), Gathering, digits)
      scaled == g.integer * Scale
      fraction == g.fraction * (Scale \div g.scale)
  IN  IF \/ g.bad
         \/ ~g.integerDigit /\ ~g.fractionDigit
         \/ g.dotted /\ ~g.fractionDigit
         \/ g.integer > limit \div Scale
      THEN Refused
      ELSE <<IF Negative(text) THEN -(scaled + fraction) ELSE scaled + fraction>>

parseDecimal(text) ==
  LET limit == IF Negative(text) THEN MaxValue + 1 ELSE MaxValue
      digits == IF Signed(text) THEN Tail(text) ELSE text
      g == FoldLeft(LAMBDA h, character : Gather(h, character, limit), Gathering, digits)
      scaled == g.integer * Scale
      fraction == g.fraction * (Scale \div g.scale)
  IN  IF \/ g.bad
         \/ ~g.integerDigit /\ ~g.fractionDigit
         \/ g.dotted /\ ~g.fractionDigit
         \/ g.integer > limit \div Scale
         \/ fraction > limit - scaled
      THEN Refused
      ELSE <<IF Negative(text) THEN -(scaled + fraction) ELSE scaled + fraction>>

-----------------------------------------------------------------------------
\* The loose parsers: no character is looked at but the first '-' and the
\* first '.'.  A sum past MaxValue overflows, which is undefined.

Number(characters) == FoldLeft(LAMBDA n, character : n * 10 + character, 0, characters)

looseParseDecimal(text) ==
  LET digits == IF Negative(text) THEN Tail(text) ELSE text
      dots == {i \in 1..Len(digits) : digits[i] = Dot}
      dot == IF dots = {} THEN Len(digits) + 1 ELSE Min(dots)
      fraction == SubSeq(digits, dot + 1, Min({Len(digits), dot + DecimalPlaces}))
      result == Number(SubSeq(digits, 1, dot - 1)) * Scale
                  + Number(fraction) * 10 ^ (DecimalPlaces - Len(fraction))
  IN  <<IF Negative(text) THEN -result ELSE result>>

-----------------------------------------------------------------------------
\* What a text stands for, independently of either parser.

\* An optional sign, digits with at most one dot among or before them.
IsDecimal(text) ==
  LET from == IF Signed(text) THEN 2 ELSE 1
      dots == {i \in from..Len(text) : text[i] = Dot}
  IN  /\ \A i \in from..Len(text) : text[i] \in Digit \cup {Dot}
      /\ Cardinality(dots) <= 1
      /\ from <= Len(text) /\ text[Len(text)] # Dot

\* v is the value of the text, exactly: its digits, read as one number, are
\* 10^f times the value when f of them follow the dot.
StandsFor(text, v) ==
  LET places == {i \in 1..Len(text) : text[i] \in Digit}
      follow == {i \in places : \E j \in 1..i : text[j] = Dot}
      weight(i) == 10 ^ Cardinality({j \in places : j > i})
      number == MapThenSumSet(LAMBDA i : text[i] * weight(i), places)
  IN  v * 10 ^ Cardinality(follow) = Scale * (IF Negative(text) THEN -number ELSE number)
=============================================================================
