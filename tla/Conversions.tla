---------------------------- MODULE Conversions ----------------------------
(***************************************************************************)
(* The pure conversions of the repository, each against what it should     *)
(* say: decimals are typed character by character or printed from a value, *)
(* messages lose a key or get a value of another type or one more level,   *)
(* texts and bytes are typed.  A behaviour is about one of these subjects. *)
(***************************************************************************)
EXTENDS MarketMessages, Texts

CONSTANTS MaxLen,          \* characters of a decimal or a text, bytes
          TextCharacters,
          Bytes,
          MaxLevels        \* of one side of a message

VARIABLES subject,  \* "decimal", "text", "bytes" or the kind of message
          input,    \* what is converted
          from      \* <<the value printed>>, <<the key of a message that is damaged>> or <<>>

vars == <<subject, input, from>>

Kinds == DOMAIN Loose

\* Digits that carry, fill and vanish, and every other class of character.
Characters == {0, 1, 9, Dot, Minus, Plus, Letter}

-----------------------------------------------------------------------------
\* A message of each kind: its keys have all different values.
Keys == <<"s", "t", "p", "q", "E", "T", "m", "a", "f", "l", "u", "U", "b", "B", "A", "i", "L",
          "o", "h", "c", "v", "n", "V", "Q", "x", "P", "w", "O", "C", "F",
          "lastUpdateId", "bids", "asks">>

Sample(kind) ==
  LET table == Loose[kind]
      keys == {table[field][1] : field \in DOMAIN table}
      type(key) == table[CHOOSE field \in DOMAIN table : table[field][1] = key][2]
      number(key) == CHOOSE n \in DOMAIN Keys : Keys[n] = key
      decimal(key) == <<0, Dot>> \o Padded(number(key), DecimalPlaces)
  IN  [key \in keys |->
        CASE type(key) \in {"decimal", "string"} -> Json("string", decimal(key))
          [] type(key) = "levels" -> Json("levels", <<>>)
          [] type(key) = "flag" -> Json("flag", TRUE)
          [] type(key) = "number" -> Json("number", number(key))]

\* The same price in two texts, no decimal, no text.
Prices == {Json("string", <<1>>), Json("string", <<1, Dot, 0>>),
           Json("string", <<Letter>>), Json("number", <<1>>)}
Quantities == {Json("string", <<2>>)}

Init == \/ subject \in {"decimal", "text", "bytes"} /\ input = <<>> /\ from = <<>>
        \/ \E kind \in Kinds : subject = kind /\ input = Sample(kind) /\ from = <<>>

Types(kind, alphabet) ==
  /\ subject = kind /\ from = <<>> /\ Len(input) < MaxLen
  /\ \E character \in alphabet : input' = Append(input, character)
  /\ UNCHANGED <<subject, from>>

TypesDecimal == Types("decimal", Characters)
TypesText == Types("text", TextCharacters)
TypesBytes == Types("bytes", Bytes)

Prints ==
  /\ subject = "decimal" /\ input = <<>>
  /\ \E value \in MinValue..MaxValue : input' = toDecimalString(value) /\ from' = <<value>>
  /\ UNCHANGED subject

Loses ==
  /\ subject \in Kinds /\ from = <<>>
  /\ \E lost \in DOMAIN input : /\ input' = [key \in DOMAIN input \ {lost} |-> input[key]]
                                /\ from' = <<lost>>
  /\ UNCHANGED subject

Mistypes ==
  /\ subject \in Kinds /\ from = <<>>
  /\ \E key \in DOMAIN input, type \in {"number", "string", "flag", "levels", "negative"} :
       /\ type # input[key].json
       /\ input' = [input EXCEPT ![key] = Json(type, <<>>)] /\ from' = <<key>>
  /\ UNCHANGED subject

Flips ==
  /\ subject \in Kinds /\ from = <<>>
  /\ \E key \in DOMAIN input : /\ input[key].json = "flag" /\ input[key].value
                               /\ input' = [input EXCEPT ![key].value = FALSE]
  /\ UNCHANGED <<subject, from>>

AddsLevel ==
  /\ subject \in Kinds /\ from = <<>>
  /\ \E key \in DOMAIN input, price \in Prices, quantity \in Quantities, short \in BOOLEAN :
       /\ input[key].json = "levels" /\ Len(input[key].value) < MaxLevels
       /\ input' = [input EXCEPT ![key].value =
                      Append(@, IF short THEN <<price>> ELSE <<price, quantity>>)]
  /\ UNCHANGED <<subject, from>>

Next == TypesDecimal \/ TypesText \/ TypesBytes \/ Prints \/ Loses \/ Mistypes \/ Flips \/ AddsLevel

Spec == Init /\ [][Next]_vars

-----------------------------------------------------------------------------
(***************************************************************************)
(* A price or quantity an order client prints is the one the strict parser *)
(* reads, at every value and both limits.  What the strict parser returns  *)
(* is exactly what the text stands for, and it refuses no decimal that a   *)
(* 64-bit value can hold.  The loose parsers, which check nothing, agree   *)
(* with it on what it accepts, but for a leading '+' and the least value.  *)
(***************************************************************************)
Printed == subject = "decimal" /\ from # <<>> => parseDecimal(input) = from

StrictIsExact == subject = "decimal" =>
  LET parsed == parseDecimal(input)
  IN  IF parsed = Refused
      THEN IsDecimal(input) => \A v \in MinValue..MaxValue : ~StandsFor(input, v)
      ELSE /\ IsDecimal(input) /\ StandsFor(input, parsed[1])
           /\ parsed[1] \in MinValue..MaxValue
           /\ parsed[1] # MinValue /\ Head(input) # Plus => looseParseDecimal(input) = parsed

DecimalsAgree == StrictIsExact /\ Printed

(***************************************************************************)
(* What the strict parser makes of a message the loose parsers make of it  *)
(* too: ids, sides, every level of an update in its order, in a snapshot   *)
(* the first level at each price; the strict parser's timestamp of a trade *)
(* is the loose parsers' trade timestamp.  The loose parsers take every    *)
(* book message the strict one takes, and fill every member of their       *)
(* structures, no two from one key except a ticker's update ids, which are *)
(* its trade ids.  The tests' samples cannot tell the timestamps apart.    *)
(***************************************************************************)
SameUpdate(strict, loose) == normalize(loose) = strict
SameTrade(strict, loose) ==
  /\ strict.sequence = loose.tradeId /\ strict.exchangeTimestamp = loose.tradeTimestamp
  /\ strict.price = loose.price /\ strict.quantity = loose.quantity
  /\ strict.side = "Sell" <=> loose.buyerIsMaker
SameSnapshot(strict, loose) ==
  /\ strict.lastUpdateId = loose.lastUpdateId
  /\ EachPriceOnce(strict.bids) = loose.bids /\ EachPriceOnce(strict.asks) = loose.asks

ParsersAgree == subject \in DOMAIN Strict =>
  LET strict == strictParse(subject, input)
      loose == looseParse(subject, input)
  IN  /\ strict # Refused /\ subject # "trade" => loose # Refused
      /\ strict # Refused /\ loose # Refused =>
           CASE subject = "depthUpdate" -> SameUpdate(strict[1], loose[1])
             [] subject = "trade" -> SameTrade(strict[1], loose[1])
             [] subject = "depthSnapshot" -> SameSnapshot(strict[1], loose[1])

FromOneKey(field, other) ==
  subject = "ticker" /\ {field, other} \in {{"firstTradeId", "firstUpdateId"},
                                            {"lastTradeId", "lastUpdateId"}}

FieldsToldApart == subject \in Kinds /\ from = <<>> =>
  LET loose == looseParse(subject, input)
      type(field) == Loose[subject][field][2]
      levels == {key \in DOMAIN input : input[key].json = "levels"}
  IN  /\ (\A key \in levels : input[key].value = <<>>) => loose # Refused
      /\ loose # Refused =>
           /\ DOMAIN loose[1] = Fields(subject)
           /\ \A field, other \in Fields(subject) :
                /\ field # other /\ type(field) = type(other) /\ type(field) # "levels"
                /\ loose[1][field] = loose[1][other]
                => FromOneKey(field, other)

MessagesAgree == ParsersAgree /\ FieldsToldApart

-----------------------------------------------------------------------------
\* What the trimmings, splittings and encodings should return.

TrimsAgree ==
  LET spaces == {" "}
      blanks == {" ", "tab"}
      ends == {input[i] : i \in {1, Len(input)} \cap DOMAIN input}
  IN  /\ trim_1(input) = Stripped(input, spaces)
      /\ trim_2(input) = Stripped(input, spaces)
      /\ trim_3(input) = IF Blank(input, spaces) THEN Outside ELSE Stripped(input, spaces)
      /\ trim(input) = IF Blank(input, spaces) /\ Len(input) # 1 THEN Outside
                       ELSE Stripped(input, spaces)
      /\ strip(input) = IF Blank(input, blanks) THEN Outside ELSE Stripped(input, blanks)
      /\ "high" \notin Range(input) /\ input # <<>> =>
           /\ strip_fast(input) = Stripped(input, blanks)
           /\ remove_chars_from_string(input) = SelectSeq(input, LAMBDA c : c # "tab")

SplitsAgree ==
  LET parts == splitAll(input, ";")
      chunks(n) == stringToChunks(input, n)
  IN  /\ FlattenSeq([i \in DOMAIN parts |-> IF i = 1 THEN parts[i] ELSE <<";">> \o parts[i]])
           = input
      /\ \A part \in Range(parts) : ";" \notin Range(part)
      /\ split(input, {";"}) = SelectSeq(parts, LAMBDA part : part # <<>>)
      /\ \A n \in 0..MaxLen : FlattenSeq(chunks(n)) = input
      /\ \A n \in 1..MaxLen : \A i \in DOMAIN chunks(n) :
           Len(chunks(n)[i]) <= n /\ (i < Len(chunks(n)) => Len(chunks(n)[i]) = n)

\* The bytes that a URL-encoded text stands for.
UrlDecoded(text) ==
  LET value(digit) == IF digit < 65 THEN digit - 48 ELSE digit - 55
      starts == {i \in DOMAIN text : \A j \in {i - 1, i - 2} \cap DOMAIN text : text[j] # 37}
  IN  [n \in 1..Cardinality(starts) |->
        LET i == SetToSortSeq(starts, <)[n]
        IN  IF text[i] = 37 THEN 16 * value(text[i + 1]) + value(text[i + 2]) ELSE text[i]]

BytesReadBack ==
  LET encoded == base64Encode(input)
      codes == SelectSeq(encoded, LAMBDA code : code >= 0)
      bits == FlattenSeq([i \in DOMAIN codes |->
                [b \in 1..6 |-> (codes[i] \div 2 ^ (6 - b)) % 2]])
  IN  /\ hex2Bytes(bytesToHex(input)) = input
      /\ Len(input) = 1 => LET hex == intToHex(input[1])
                           IN  hex2Bytes(IF Len(hex) = 1 THEN <<0>> \o hex ELSE hex) = input
      /\ SubSeq(bits, 1, 8 * Len(input)) = Bits(input)
      /\ \A b \in (8 * Len(input) + 1)..Len(bits) : bits[b] = 0
      /\ Len(input) % 3 # 0 => Len(encoded) % 4 = 0
      /\ UrlDecoded(urlEncode(input)) = input

(***************************************************************************)
(* The trimmings agree with each other wherever they stay inside the text, *)
(* and leave it only for a blank or empty text or, with a table, for one   *)
(* past ASCII.  The splittings lose nothing and differ only in the empty   *)
(* parts; chunks are full but for the last.  Bytes are read back from      *)
(* their hexadecimal, Base64 and URL encodings; Base64's padding is right  *)
(* unless the length is a multiple of three, when two '=' are too many.    *)
(***************************************************************************)
TextsAgree ==
  /\ subject = "text" => TrimsAgree /\ SplitsAgree
  /\ subject = "bytes" => BytesReadBack
=============================================================================
