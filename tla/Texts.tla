------------------------------- MODULE Texts -------------------------------
(***************************************************************************)
(* utilities/: what StringUtilities, HexConverter, Base64 and the order    *)
(* clients' urlEncode and toHex return.  A text is a sequence of           *)
(* characters, "high" one whose char is negative (past ASCII); bytes are   *)
(* 0..255.  Outside stands for a read or a view outside the text, which is *)
(* undefined.                                                              *)
(***************************************************************************)
EXTENDS Integers, Sequences, FiniteSets, SequencesExt

Outside == <<"outside">>
NoText == <<>>

\* The text without the characters of the set at its two ends.
Stripped(text, set) ==
  LET kept == {i \in DOMAIN text : text[i] \notin set}
  IN  IF kept = {} THEN NoText ELSE SubSeq(text, Min(kept), Max(kept))

Blank(text, set) == \A i \in DOMAIN text : text[i] \in set

-----------------------------------------------------------------------------
\* Trimming.  The indices are those of the code, from 0, and unsigned.

\* The first index from beg on of a character that is not in the set.
FirstKept(text, set) ==
  Min({Len(text)} \cup {i \in 0..(Len(text) - 1) : text[i + 1] \notin set})

\* Where a loop that steps down from end stops: at 0 at the latest.
LastKept(text, set, end) ==
  Max({0} \cup {i \in 0..end : text[i + 1] \notin set})

\* substr(beg, count): a count that wraps below 0 reaches the end.
Substr(text, beg, count) ==
  SubSeq(text, beg + 1, IF count < 0 \/ beg + count > Len(text) THEN Len(text) ELSE beg + count)

trim_1(text) ==
  LET beg == FirstKept(text, {" "})
      end == LastKept(text, {" "}, Len(text) - 1)
  IN  Substr(text, beg, end - beg + 1)

trim_2(text) ==
  LET front(t) == SubSeq(t, FirstKept(t, {" "}) + 1, Len(t))
  IN  Reverse(front(Reverse(front(text))))

\* The text after erase(0, start), then end = length - start - 1, which wraps
\* when nothing is left: the loop then reads far outside.
EraseBothEnds(text, set) ==
  LET start == FirstKept(text, set)
      rest == SubSeq(text, start + 1, Len(text))
      end == Len(text) - start - 1
  IN  IF end < 0 THEN Outside ELSE SubSeq(rest, 1, LastKept(rest, set, end) + 1)

trim_3(text) == EraseBothEnds(text, {" "})
strip(text) == EraseBothEnds(text, {" ", "tab"})

\* The view's length, end - start + 1, wraps when the text is blank.
trim(text) ==
  LET start == FirstKept(text, {" "})
      end == LastKept(text, {" "}, Len(text) - 1)
  IN  IF Len(text) = 0 \/ end - start + 1 < 0 THEN Outside
      ELSE SubSeq(text, start + 1, end + 1)

\* The table is indexed by a char: a negative one is outside it.  Of an empty
\* text the last index is 2^32 - 1.
strip_fast(text) ==
  LET set == {" ", "tab"}
      left == FirstKept(text, set)
      right == LastKept(text, set, Len(text) - 1)
  IN  IF Len(text) = 0 THEN Outside
      ELSE IF left = Len(text) THEN NoText
      ELSE IF "high" \in {text[left + 1], text[right + 1]} THEN Outside
      ELSE SubSeq(text, left + 1, right + 1)

remove_chars_from_string(text) ==
  IF "high" \in {text[i] : i \in DOMAIN text} THEN Outside
  ELSE SelectSeq(text, LAMBDA c : c # "tab")

-----------------------------------------------------------------------------
\* Splitting

\* Mutant: an empty part is not kept.
splitAllKept(text, delimiter) ==
  FoldLeft(LAMBDA parts, c :
             IF c = delimiter
             THEN IF parts[Len(parts)] = NoText THEN parts ELSE Append(parts, NoText)
             ELSE [parts EXCEPT ![Len(parts)] = Append(@, c)],
           <<NoText>>, text)

\* Every delimiter ends a part; the rest, empty or not, is the last one.  The
\* delimiter is one character: with an empty one the loop of the code does not end.
splitAll(text, delimiter) ==
  FoldLeft(LAMBDA parts, c :
             IF c = delimiter THEN Append(parts, NoText)
             ELSE [parts EXCEPT ![Len(parts)] = Append(@, c)],
           <<NoText>>, text)

split(text, delimiters) ==
  LET parts == FoldLeft(LAMBDA p, c :
                 IF c \in delimiters THEN [first |-> NoText,
                                           output |-> IF p.first = NoText THEN p.output
                                                      ELSE Append(p.output, p.first)]
                 ELSE [p EXCEPT !.first = Append(@, c)],
               [first |-> NoText, output |-> <<>>], text)
  IN  IF parts.first = NoText THEN parts.output ELSE Append(parts.output, parts.first)

\* A chunk ends when its size is chunkSize exactly: a chunkSize of 0 ends the
\* first, empty, and then no other.
stringToChunks(text, chunkSize) ==
  LET cut == FoldLeft(LAMBDA c, idx :
               IF chunkSize = idx - c.prev
               THEN [prev |-> idx, chunks |-> Append(c.chunks, SubSeq(text, c.prev + 1, idx))]
               ELSE c,
             [prev |-> 0, chunks |-> <<>>], [i \in 1..Len(text) |-> i - 1])
  IN  Append(cut.chunks, SubSeq(text, cut.prev + 1, Len(text)))

-----------------------------------------------------------------------------
\* Bytes

bytesToHex(bytes) ==
  FlattenSeq([i \in DOMAIN bytes |-> <<bytes[i] \div 16, bytes[i] % 16>>])

\* A digit is its value here; of an odd length the last pair reads past the
\* view, where a string has a zero character, and hexCode makes it 0.
hex2Bytes(digits) ==
  [i \in 1..((Len(digits) + 1) \div 2) |->
     16 * digits[2 * i - 1] + (IF 2 * i > Len(digits) THEN 0 ELSE digits[2 * i])]

intToHex(num) ==
  LET length == CHOOSE n \in 1..8 : 16 ^ n > num /\ (n = 1 \/ 16 ^ (n - 1) <= num)
  IN  [i \in 1..length |-> (num \div 16 ^ (length - i)) % 16]

Bits(bytes) ==
  [i \in 1..(8 * Len(bytes)) |->
     (bytes[(i - 1) \div 8 + 1] \div 2 ^ (7 - ((i - 1) % 8))) % 2]

\* Six bits a character, the last filled up with zeros; of no bytes one
\* character all the same.  "=" is -1.
base64Encode(bytes) ==
  LET bits == Bits(bytes)
      bit(i) == IF i \in DOMAIN bits THEN bits[i] ELSE 0
      length == IF bytes = <<>> THEN 1 ELSE (Len(bits) + 5) \div 6
      encoded(n) == 32 * bit(6 * n - 5) + 16 * bit(6 * n - 4) + 8 * bit(6 * n - 3)
                      + 4 * bit(6 * n - 2) + 2 * bit(6 * n - 1) + bit(6 * n)
  IN  [n \in 1..length |-> encoded(n)]
        \o (IF Len(bytes) % 3 = 2 THEN <<-1>> ELSE <<-1, -1>>)

\* Letters, digits and four marks stay; "%" and two digits for the others.
Unreserved == (48..57) \cup (65..90) \cup (97..122) \cup {45, 95, 46, 126}

urlEncode(bytes) ==
  LET digit(d) == IF d < 10 THEN 48 + d ELSE 55 + d
  IN  FlattenSeq([i \in DOMAIN bytes |->
        IF bytes[i] \in Unreserved THEN <<bytes[i]>>
        ELSE <<37, digit(bytes[i] \div 16), digit(bytes[i] % 16)>>])
=============================================================================
