------------------------------- MODULE Printf -------------------------------
(***************************************************************************)
(* vsnprintf_impl of libs/libc/stdio.cpp and what it calls, except for the *)
(* floating-point conversions: the format is read character by character,  *)
(* the caller choosing the next one each time, and the arguments when they *)
(* are fetched.  Machine integers have the widths CharBits .. LongBits,    *)
(* IntegerBufferSize stands for PRINTF_INTEGER_BUFFER_SIZE.                *)
(***************************************************************************)
EXTENDS Integers, Sequences, SequencesExt, FiniteSets

CONSTANTS
  Alphabet,    \* the characters of formats
  MaxFormat,   \* bound: length of a format
  MaxWidth,    \* bound: widths and precisions written in digits
  Gadgets,     \* output gadgets: [function, max_chars]
  Room,        \* cells of the caller's buffer the model watches
  Values,      \* integer arguments
  Stars,       \* arguments of a *
  Lengths,     \* lengths of string arguments, -1 for NULL
  CharBits, ShortBits, IntBits, LongBits, IntegerBufferSize, PointerWidth

VARIABLES
  c,        \* *format
  left,     \* bound on what is left of the format
  at,       \* where format_string_loop is
  flags, width, precision,
  gadget, pos, buffer, \* buffer: cell -> which character of the output it holds
  sent,     \* how many characters gadget->function got
  asked     \* history: what the directive says, read by the standard's grammar

vars == <<c, left, at, flags, width, precision, gadget, pos, buffer, sent, asked>>
parsed == <<flags, width, precision>>
output == <<gadget, pos, buffer, sent>>

NUL == "NUL"
Untouched == -1
Terminator == 0

Digits == <<"0", "1", "2", "3", "4", "5", "6", "7", "8", "9">>
is_digit(ch) == ch \in Range(Digits)
DigitValue(ch) == (CHOOSE i \in 1 .. 10 : Digits[i] = ch) - 1

-----------------------------------------------------------------------------
(* What a directive asks for, by the grammar of the C standard alone:      *)
(* %[flags][width][.precision][length].  A negative * width is a '-' and a *)
(* width; a negative * precision is kept apart, as Negative.               *)

Omitted == -1
Negative == -2
Fresh == [part |-> "flags", flags |-> {}, width |-> 0, precision |-> Omitted,
          length |-> << >>]

(* a after the next character ch; star is the argument if ch is a *.       *)
Read(a, ch, star) ==
  CASE a.part = "flags" /\ ch \in {"0", "-", "+", " ", "#"} ->
         [a EXCEPT !.flags = @ \cup {ch}]
    [] a.part = "flags" /\ ch = "*" ->
         [a EXCEPT !.part = "width", !.width = IF star < 0 THEN -star ELSE star,
                   !.flags = IF star < 0 THEN @ \cup {"-"} ELSE @]
    [] ch = "." -> [a EXCEPT !.part = "precision", !.precision = 0]
    [] a.part = "precision" /\ ch = "*" ->
         [a EXCEPT !.precision = IF star < 0 THEN Negative ELSE star]
    [] a.part = "precision" /\ is_digit(ch) ->
         [a EXCEPT !.precision = 10 * @ + DigitValue(ch)]
    [] a.part \in {"flags", "width"} /\ is_digit(ch) /\ ~(a.part = "flags" /\ ch = "0") ->
         [a EXCEPT !.part = "width", !.width = 10 * @ + DigitValue(ch)]
    [] ch \in {"l", "h"} -> [a EXCEPT !.part = "length", !.length = Append(@, ch)]
    [] OTHER -> a

note(star) == asked' = Read(asked, c, star)

-----------------------------------------------------------------------------

Init ==
  /\ asked = Fresh
  /\ c \in Alphabet \cup {NUL} /\ left = MaxFormat
  /\ at = "loop"
  /\ flags = {} /\ width = 0 /\ precision = 0
  /\ gadget \in Gadgets /\ pos = 0 /\ sent = 0
  /\ buffer = [i \in Room |-> Untouched]

-----------------------------------------------------------------------------
(* The output gadget.                                                      *)

(* putchar_via_gadget for each character of text: pos counts all of them,  *)
(* those at or after max_chars go nowhere.                                 *)
put(text) ==
  LET written == pos .. (pos' - 1) IN
  /\ pos' = pos + Len(text)
  /\ IF gadget.function
     THEN /\ sent' = sent + Cardinality({i \in written : i < gadget.max_chars})
          /\ UNCHANGED buffer
     ELSE /\ buffer' = [i \in Room |-> IF i \in written /\ i < gadget.max_chars
                                       THEN i + 1 ELSE buffer[i]]
          /\ UNCHANGED sent
  /\ UNCHANGED gadget

Repeat(ch, n) == [i \in 1 .. (IF n < 0 THEN 0 ELSE n) |-> ch]

(* out_rev; text is in output order.                                       *)
out_rev(text, w, fl) ==
  LET blanks == Repeat(" ", w - Len(text))
  IN  IF "LEFT" \in fl THEN text \o blanks
      ELSE IF "ZEROPAD" \in fl THEN text ELSE blanks \o text

-----------------------------------------------------------------------------
(* Integers.  Buffers are kept in output order: buf[len++] = ch prepends.  *)

HexDigits == Digits \o <<"a", "b", "c", "d", "e", "f">>

RECURSIVE digits(_, _, _)
(* The do-while loop of print_integer, at most room digits.                *)
digits(value, base, room) ==
  IF value < base \/ room = 1 THEN <<HexDigits[(value % base) + 1]>>
  ELSE Append(digits(value \div base, base, room - 1), HexDigits[(value % base) + 1])

(* while ((len < n) && (len < PRINTF_INTEGER_BUFFER_SIZE)) buf[len++] = '0'*)
pad(text, n) ==
  LET wanted == IF n < IntegerBufferSize THEN n ELSE IntegerBufferSize
  IN  Repeat("0", wanted - Len(text)) \o text

prepend(ch, text) ==
  IF Len(text) < IntegerBufferSize THEN <<ch>> \o text ELSE text

(* print_integer_finalization that pads before it takes the sign off the   *)
(* width.                                                                  *)
FinalizeWidth(text, negative, base, prec, w, fl) ==
  LET padded == IF "LEFT" \notin fl /\ "ZEROPAD" \in fl THEN pad(text, w) ELSE text
      sign == IF negative THEN "-" ELSE IF "PLUS" \in fl THEN "+" ELSE " "
      precise == pad(padded, prec)
  IN  out_rev(IF negative \/ fl \cap {"PLUS", "SPACE"} # {}
              THEN prepend(sign, precise) ELSE precise, w, fl)

print_integer_finalization(text, negative, base, prec, w0, fl0) ==
  LET signed == negative \/ fl0 \cap {"PLUS", "SPACE"} # {}
      zeros == "LEFT" \notin fl0 /\ "ZEROPAD" \in fl0
      w == IF zeros /\ w0 # 0 /\ signed THEN w0 - 1 ELSE w0
      padded == pad(IF zeros THEN pad(text, w) ELSE text, prec)
      fl == IF base = 8 /\ Len(padded) > Len(text) THEN fl0 \ {"HASH"} ELSE fl0
      hash == fl \cap {"HASH", "POINTER"} # {}
      (* zeros of the padding that give way to the prefix *)
      full == "PRECISION" \notin fl /\ Len(padded) \in {prec, w} \ {0}
      spare == Len(padded) - Len(text)
      cut == IF ~full THEN 0
             ELSE IF base \in {2, 16} /\ spare >= 2 THEN 2
             ELSE IF spare >= 1 THEN 1 ELSE 0
      bare == SubSeq(padded, cut + 1, Len(padded))
      letter == IF base = 16 THEN prepend("x", bare)
                ELSE IF base = 2 THEN prepend("b", bare) ELSE bare
      prefixed == IF hash THEN prepend("0", letter) ELSE padded
      sign == IF negative THEN "-" ELSE IF "PLUS" \in fl THEN "+" ELSE " "
  IN  out_rev(IF signed THEN prepend(sign, prefixed) ELSE prefixed, w, fl)

print_integer(value, negative, base, prec, w, fl) ==
  LET zero == value = 0
      text == IF ~zero THEN digits(value, base, IntegerBufferSize)
              ELSE IF "PRECISION" \in fl THEN << >> ELSE <<"0">>
      hashless == IF zero /\ ("PRECISION" \notin fl \/ base = 16)
                  THEN fl \ {"HASH"} ELSE fl
  IN  print_integer_finalization(text, negative, base, prec, w, hashless)

-----------------------------------------------------------------------------
(* Parsing.                                                                *)

(* format++.                                                               *)
advance ==
  /\ left' = left - 1
  /\ c' \in IF left > 1 THEN Alphabet \cup {NUL} ELSE {NUL}

(* ADVANCE_IN_FORMAT_STRING, then on to next: the end of the format is the *)
(* end of the call.                                                        *)
ADVANCE(next) == advance /\ at' = IF c' = NUL THEN "terminate" ELSE next

stay(next) == at' = next /\ UNCHANGED <<c, left, asked>>

literal ==
  /\ at = "loop" /\ c \notin {"%", NUL}
  /\ put(<<c>>)
  /\ advance
  /\ UNCHANGED <<at, parsed, asked>>

percent ==
  /\ at = "loop" /\ c = "%"
  /\ ADVANCE("flags")
  /\ UNCHANGED <<parsed, output, asked>>

FlagOf == [ch \in {"0", "-", "+", " ", "#"} |->
             CASE ch = "0" -> "ZEROPAD" [] ch = "-" -> "LEFT" [] ch = "+" -> "PLUS"
               [] ch = " " -> "SPACE" [] ch = "#" -> "HASH"]

(* A parse_flags that does not move past a '#'.                            *)
ParseFlagsStuck ==
  /\ at = "flags"
  /\ IF c \in DOMAIN FlagOf
     THEN /\ flags' = flags \cup {FlagOf[c]}
          /\ IF c = "#" THEN UNCHANGED <<c, left>> ELSE advance
          /\ note(0) /\ UNCHANGED at
     ELSE stay("width") /\ UNCHANGED flags
  /\ UNCHANGED <<width, precision, output>>

parse_flags ==
  /\ at = "flags"
  /\ IF c \in DOMAIN FlagOf
     THEN flags' = flags \cup {FlagOf[c]} /\ advance /\ note(0) /\ UNCHANGED at
     ELSE stay("width") /\ UNCHANGED flags
  /\ UNCHANGED <<width, precision, output>>

(* One turn of atou; the format goes on with numbers within the bound.     *)
atou(n) == 10 * n + DigitValue(c)
advance_digit(n) == advance /\ (is_digit(c') => 10 * n + DigitValue(c') <= MaxWidth)

parse_width ==
  /\ at = "width"
  /\ \/ /\ is_digit(c)
        /\ width' = atou(width) /\ advance_digit(width') /\ note(0)
        /\ UNCHANGED <<at, flags>>
     \/ /\ c = "*" /\ width = 0
        /\ \E w \in Stars :
             /\ width' = IF w < 0 THEN -w ELSE w
             /\ flags' = IF w < 0 THEN flags \cup {"LEFT"} ELSE flags
             /\ note(w)
        /\ ADVANCE("precision")
     \/ /\ ~is_digit(c) /\ (c = "*" => width # 0)
        /\ stay("precision") /\ UNCHANGED <<width, flags>>
  /\ UNCHANGED <<precision, output>>

parse_precision ==
  /\ at = "precision"
  /\ IF c = "." THEN flags' = flags \cup {"PRECISION"} /\ ADVANCE("digits") /\ note(0)
                ELSE stay("length") /\ UNCHANGED flags
  /\ UNCHANGED <<width, precision, output>>

parse_digits ==
  /\ at \in {"digits", "more_digits"}
  /\ \/ /\ is_digit(c) /\ at' = "more_digits"
        /\ precision' = atou(precision) /\ advance_digit(precision') /\ note(0)
     \/ /\ c = "*" /\ at = "digits"
        /\ \E p \in Stars : precision' = (IF p > 0 THEN p ELSE 0) /\ note(p)
        /\ ADVANCE("length")
     \/ /\ ~is_digit(c) /\ (c = "*" => at = "more_digits")
        /\ stay("length") /\ UNCHANGED precision
  /\ UNCHANGED <<flags, width, output>>

(* The length field; 't', 'j' and 'z' are like 'l'.                        *)
parse_length ==
  /\ at = "length"
  /\ IF c \in {"l", "h"}
     THEN /\ flags' = flags \cup {IF c = "l" THEN "LONG" ELSE "SHORT"}
          /\ ADVANCE(IF c = "l" THEN "length_l" ELSE "length_h") /\ note(0)
     ELSE stay("specifier") /\ UNCHANGED flags
  /\ UNCHANGED <<width, precision, output>>

parse_length_again ==
  /\ at \in {"length_l", "length_h"}
  /\ IF (at = "length_l" /\ c = "l") \/ (at = "length_h" /\ c = "h")
     THEN /\ flags' = flags \cup {IF c = "l" THEN "LONG_LONG" ELSE "CHAR"}
          /\ ADVANCE("specifier") /\ note(0)
     ELSE stay("specifier") /\ UNCHANGED flags
  /\ UNCHANGED <<width, precision, output>>

-----------------------------------------------------------------------------
(* Conversions.  Each is the text it puts out, with the next character of  *)
(* the format and fresh flags, width and precision after it.  A format     *)
(* that ends after flags or digits gets here with its terminator, and the  *)
(* format++ goes past it: what is read from there on is undefined.         *)

(* convert that keeps the width for the next directive.                    *)
ConvertKeepsWidth(text) ==
  /\ put(text) /\ flags' = {} /\ precision' = 0 /\ asked' = Fresh /\ UNCHANGED width
  /\ IF c = NUL THEN at' = "overrun" /\ UNCHANGED <<c, left>>
                ELSE at' = "loop" /\ advance

convert(text) ==
  /\ put(text) /\ flags' = {} /\ width' = 0 /\ precision' = 0 /\ asked' = Fresh
  /\ IF c = NUL THEN at' = "overrun" /\ UNCHANGED <<c, left>>
                ELSE at' = "loop" /\ advance

Base == [ch \in {"d", "u", "x", "o", "b"} |->
           CASE ch = "x" -> 16 [] ch = "o" -> 8 [] ch = "b" -> 2 [] OTHER -> 10]

Bits == IF "LONG" \in flags THEN LongBits
        ELSE IF "CHAR" \in flags THEN CharBits
        ELSE IF "SHORT" \in flags THEN ShortBits ELSE IntBits

Unsigned(v, bits) == v % 2^bits
Signed(v, bits) == ((v + 2^(bits - 1)) % 2^bits) - 2^(bits - 1)

(* The argument v, as va_arg and the casts make it.                        *)
Argument(v) == IF c = "d" THEN Signed(v, Bits) ELSE Unsigned(v, Bits)

(* ABS_FOR_PRINTING: negation in the widest unsigned type.                 *)
ABS_FOR_PRINTING(x) == IF x > 0 THEN x ELSE (-x) % 2^LongBits

(* 'd', 'i', 'u', 'x', 'X', 'o', 'b'.                                      *)
integer_text(v) ==
  LET x == Argument(v)
      fl == flags \ ((IF Base[c] = 10 THEN {"HASH"} ELSE {})
                        \cup (IF "PRECISION" \in flags THEN {"ZEROPAD"} ELSE {})
                        \cup (IF c = "d" THEN {} ELSE {"PLUS", "SPACE"}))
  IN  print_integer(IF c = "d" THEN ABS_FOR_PRINTING(x) ELSE x, x < 0, Base[c],
                    precision, width, fl)

char_text ==
  IF "LEFT" \in flags THEN <<"c">> \o Repeat(" ", width - 1)
                      ELSE Repeat(" ", width - 1) \o <<"c">>

(* 's' with a string of n characters, n = -1 for NULL: the loops that      *)
(* count and put out its characters, and the text.  Of the string the      *)
(* loops only ask whether it is at its end.                                *)
PRINTF_MAX_POSSIBLE_BUFFER_SIZE == 2^(IntBits - 1) - 1

RECURSIVE strnlen_s(_, _)
strnlen_s(n, maxsize) ==
  IF n # 0 /\ maxsize # 0 THEN 1 + strnlen_s(n - 1, maxsize - 1) ELSE 0

(* LengthLimitPlain: as if every %s had a precision.                       *)
LengthLimitPlain == precision
LengthLimit == IF precision # 0 THEN precision ELSE PRINTF_MAX_POSSIBLE_BUFFER_SIZE

(* --precision wraps when it is not looked at.                             *)
RECURSIVE string_output(_, _)
string_output(n, prec) ==
  IF n # 0 /\ ("PRECISION" \notin flags \/ prec # 0)
  THEN <<"s">> \o string_output(n - 1, (prec - 1) % 2^IntBits) ELSE << >>

string_text(n) ==
  LET counted == strnlen_s(n, LengthLimit)
      l == IF "PRECISION" \in flags /\ ~(counted < precision) THEN precision ELSE counted
      padding == Repeat(" ", width - l)
  IN  IF n = -1 THEN out_rev(Repeat("s", 6), width, flags)
      ELSE IF "LEFT" \in flags THEN string_output(n, precision) \o padding
      ELSE padding \o string_output(n, precision)

pointer_text(v) ==
  LET fl == flags \cup {"ZEROPAD", "POINTER"} IN
  IF v = 0 THEN out_rev(Repeat("n", 5), PointerWidth, fl)
  ELSE print_integer(Unsigned(v, LongBits), FALSE, 16, precision, PointerWidth, fl)

(* %n stores pos where its argument points, in the caller's memory.        *)
specifier ==
  /\ at = "specifier"
  /\ \/ c \in DOMAIN Base /\ \E v \in Values : convert(integer_text(v))
     \/ c = "c" /\ convert(char_text)
     \/ c = "s" /\ \E n \in Lengths : convert(string_text(n))
     \/ c = "p" /\ \E v \in Values : convert(pointer_text(v))
     \/ c = "n" /\ convert(<< >>)
     \/ c \notin DOMAIN Base \cup {"c", "s", "p", "n"} /\ convert(<<c>>)

(* append_termination_with_gadget that always uses the last cell.          *)
TerminateLast ==
  /\ at = "terminate" \/ (at = "loop" /\ c = NUL)
  /\ at' = "done"
  /\ buffer' = [i \in Room |-> IF ~gadget.function /\ i = gadget.max_chars - 1
                                THEN Terminator ELSE buffer[i]]
  /\ UNCHANGED <<c, left, parsed, gadget, pos, sent, asked>>

(* The end of vsnprintf_impl; it returns pos.                              *)
End == IF pos < gadget.max_chars THEN pos ELSE gadget.max_chars - 1
append_termination ==
  /\ at = "terminate" \/ (at = "loop" /\ c = NUL)
  /\ at' = "done"
  /\ buffer' = [i \in Room |-> IF ~gadget.function /\ gadget.max_chars # 0 /\ i = End
                                THEN Terminator ELSE buffer[i]]
  /\ UNCHANGED <<c, left, parsed, gadget, pos, sent, asked>>

Next ==
  \/ literal \/ percent \/ parse_flags \/ parse_width \/ parse_precision
  \/ parse_digits \/ parse_length \/ parse_length_again \/ specifier
  \/ append_termination

(* One call, run to its end: nothing blocks.                               *)
Spec == Init /\ [][Next]_vars /\ WF_vars(Next)

-----------------------------------------------------------------------------

(* Types, and no directive leaves flags, width or precision to the next.   *)
TypeOK ==
  /\ left \in 0 .. MaxFormat /\ c \in Alphabet \cup {NUL}
  /\ flags \subseteq {"ZEROPAD", "LEFT", "PLUS", "SPACE", "HASH", "PRECISION",
                      "LONG", "LONG_LONG", "SHORT", "CHAR"}
  /\ width \in Nat /\ precision \in Nat /\ pos \in Nat
  /\ at = "loop" => flags = {} /\ width = 0 /\ precision = 0

(* snprintf's contract: whatever the directives and however long the       *)
(* output, the buffer holds the output's first characters, nothing at or   *)
(* after max_chars is touched, and at the end there is exactly one         *)
(* terminator, after the output or in the last cell.  A function gadget    *)
(* gets every character.                                                   *)
BufferHoldsPrefix ==
  /\ gadget.function => sent = pos /\ \A i \in Room : buffer[i] = Untouched
  /\ ~gadget.function => \A i \in Room :
       buffer[i] = IF at = "done" /\ gadget.max_chars # 0 /\ i = End THEN Terminator
                   ELSE IF i < pos /\ i < gadget.max_chars THEN i + 1 ELSE Untouched

(* The argument of a conversion, in the type that the length field names.  *)
StandardArgument(v) ==
  LET bits == IF asked.length = << >> THEN IntBits
              ELSE IF Head(asked.length) = "l" THEN LongBits
              ELSE IF Len(asked.length) = 1 THEN ShortBits ELSE CharBits
  IN  IF c = "d" THEN Signed(v, bits) ELSE Unsigned(v, bits)

(* The numeral of n, without leading zeros.                                *)
Numeral(n, base) ==
  LET places == CHOOSE k \in 1 .. LongBits : n < base^k /\ (k = 1 \/ n >= base^(k - 1))
  IN  [i \in 1 .. places |-> HexDigits[((n \div base^(places - i)) % base) + 1]]

(* The text the C standard asks of an integer conversion: sign or prefix,  *)
(* at least precision digits, and blanks or zeros up to the width.         *)
StandardText(v) ==
  LET x == StandardArgument(v)
      given == asked.precision # Omitted
      number == IF x = 0 /\ asked.precision = 0 THEN << >>
                ELSE Numeral(IF x < 0 THEN -x ELSE x, Base[c])
      precise == Repeat("0", asked.precision - Len(number)) \o number
      prefix == IF "#" \notin asked.flags THEN << >>
                ELSE IF c = "o" /\ (precise = << >> \/ Head(precise) # "0") THEN <<"0">>
                ELSE IF c = "x" /\ x # 0 THEN <<"0", "x">> ELSE << >>
      sign == IF x < 0 THEN <<"-">>
              ELSE IF c # "d" THEN << >>
              ELSE IF "+" \in asked.flags THEN <<"+">>
              ELSE IF " " \in asked.flags THEN <<" ">> ELSE << >>
      zeros == "0" \in asked.flags /\ "-" \notin asked.flags /\ ~given
      gap == asked.width - Len(sign \o prefix \o precise)
  IN  [fits |-> /\ Len(sign \o prefix \o precise) <= IntegerBufferSize
                /\ zeros => asked.width <= IntegerBufferSize,
       text |-> IF "-" \in asked.flags THEN sign \o prefix \o precise \o Repeat(" ", gap)
                ELSE IF zeros THEN sign \o prefix \o Repeat("0", gap) \o precise
                ELSE Repeat(" ", gap) \o sign \o prefix \o precise]

(* Every integer conversion puts out what the C standard asks for, in any  *)
(* combination of flags, width, precision, length, base and argument, as   *)
(* long as the text before blank padding fits print_integer's buffer.  Two *)
(* cases are left out because the code does differ: a negative * precision,*)
(* which it takes for 0 where the standard takes it as omitted, and %b, an *)
(* extension, which prefixes a zero printed with precision 0.              *)
IntegersAsStandard ==
  at = "specifier" /\ c \in (DOMAIN Base) \ {"b"} /\ asked.precision # Negative =>
    \A v \in Values :
      LET standard == StandardText(v) IN standard.fits => integer_text(v) = standard.text

(* %s shows the string up to the precision, padded to the width on the     *)
(* side the directive says, whatever strnlen_s counted and although the    *)
(* loop counts the precision down.  As above, a negative * precision,      *)
(* for which the code shows nothing, is left out.                          *)
StringsAsStandard ==
  at = "specifier" /\ c = "s" /\ asked.precision # Negative =>
    \A n \in Lengths \ {-1} :
      LET cut == asked.precision # Omitted /\ asked.precision < n
          text == Repeat("s", IF cut THEN asked.precision ELSE n)
          gap == Repeat(" ", asked.width - Len(text))
      IN  string_text(n) = IF "-" \in asked.flags THEN text \o gap ELSE gap \o text

(* Every call comes to its end: each turn of the loops of parse_flags,     *)
(* atou and format_string_loop moves on in the format.                     *)
CallEnds == <>(at \in {"done", "overrun"})

=============================================================================
