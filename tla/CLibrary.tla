------------------------------ MODULE CLibrary ------------------------------
(***************************************************************************)
(* libs/libc/string.cpp, ctype.cpp, the number parsing of stdlib.cpp and   *)
(* the number printing of terminal.cpp.  A small memory of characters is   *)
(* changed by calls; every loop of the code is a recursive operator that   *)
(* takes the same steps, and is compared with what the function is for.    *)
(* Calls keep to C's rules: what they are given lies in the memory, and    *)
(* only memmove is given blocks that overlap.                              *)
(***************************************************************************)
EXTENDS Integers, Sequences, SequencesExt, FiniteSetsExt

CONSTANTS
  Size,     \* how many characters the memory has
  Chars,    \* their values, 0 among them
  Numbers   \* arguments of printi

VARIABLE memory

Cells == 0 .. (Size - 1)
NUL == 0
blank == 32
minus == 45
zero == 48
INT_MIN == (-2147483647) - 1

-----------------------------------------------------------------------------
(* ctype.cpp.                                                              *)

Between(c, a, b) == a <= c /\ c <= b

islower(c) == Between(c, 97, 122)
isupper(c) == Between(c, 65, 90)
isalpha(c) == islower(c) \/ isupper(c)
isdigit(c) == Between(c, 48, 57)
isalnum(c) == isdigit(c) \/ isalpha(c)
isxdigit(c) == isdigit(c) \/ Between(c, 97, 102) \/ Between(c, 65, 70)
iscntrl(c) == Between(c, 0, 31) \/ c = 127
isgraph(c) == Between(c, 33, 126)
isspace(c) == c = 32 \/ Between(c, 9, 13)
isblank(c) == c \in {32, 9}
isprint(c) == isgraph(c) \/ c = 32
ispunct(c) ==
  Between(c, 33, 47) \/ Between(c, 58, 64) \/ Between(c, 91, 96) \/ Between(c, 123, 126)
toupper(c) == IF islower(c) THEN c - 32 ELSE c
tolower(c) == IF isupper(c) THEN c + 32 ELSE c

(* The character classes fit together as C wants them: every character is  *)
(* a control or a printing one, printing ones are the blank, letters,      *)
(* digits and punctuation, and the case functions are inverse.             *)
ASSUME ClassesFitTogether ==
  \A c \in 0 .. 127 :
    /\ iscntrl(c) <=> ~isprint(c)
    /\ isgraph(c) <=> isprint(c) /\ c # blank
    /\ ispunct(c) <=> isgraph(c) /\ ~isalnum(c)
    /\ isxdigit(c) => isalnum(c)
    /\ isblank(c) => isspace(c)
    /\ isspace(c) => ~isgraph(c)
    /\ islower(c) <=> isupper(toupper(c)) /\ ~isupper(c)
    /\ tolower(toupper(c)) = tolower(c) /\ toupper(tolower(c)) = toupper(c)

-----------------------------------------------------------------------------
(* Blocks: each operator gives the memory after the loop.                  *)

RECURSIVE memcpy(_, _, _, _)
memcpy(m, dest, src, len) ==
  IF len = 0 THEN m
  ELSE memcpy([m EXCEPT ![dest] = m[src]], dest + 1, src + 1, len - 1)

(* memmove that copies the last character first.                           *)
RECURSIVE MoveDown(_, _, _, _)
MoveDown(m, dest, src, len) ==
  IF len = 0 THEN m
  ELSE MoveDown([m EXCEPT ![dest + len - 1] = m[src + len - 1]], dest, src, len - 1)

(* Both branches go up; the one for src < dest is one character early.     *)
memmove(m, dest, src, len) ==
  IF src > dest THEN memcpy(m, dest, src, len)
  ELSE IF src < dest THEN memcpy(m, dest - 1, src - 1, len) ELSE m

RECURSIVE memset(_, _, _, _)
memset(m, dest, ch, len) ==
  IF len = 0 THEN m ELSE memset([m EXCEPT ![dest] = ch], dest + 1, ch, len - 1)

(* The results memcmp may have: the first difference compares ptr1[i] with *)
(* ptr2[2], whatever i is, and what lies there behind the memory is any    *)
(* character.                                                              *)
RECURSIVE memcmp_from(_, _, _, _, _)
memcmp_from(m, p1, p2, i, len) ==
  IF i = len THEN {0}
  ELSE IF m[p1 + i] = m[p2 + i] THEN memcmp_from(m, p1, p2, i + 1, len)
  ELSE {IF m[p1 + i] < third THEN -1 ELSE 1 :
          third \in IF p2 + 2 \in Cells THEN {m[p2 + 2]} ELSE Chars}
memcmp(m, p1, p2, len) == memcmp_from(m, p1, p2, 0, len)

nullptr == -1
RECURSIVE memchr(_, _, _, _)
memchr(m, src, ch, len) ==
  IF len = 0 THEN nullptr
  ELSE IF m[src] = ch THEN src ELSE memchr(m, src + 1, ch, len - 1)

-----------------------------------------------------------------------------
(* Strings.                                                                *)

RECURSIVE strlen(_, _)
strlen(m, str) == IF m[str] = NUL THEN 0 ELSE 1 + strlen(m, str + 1)

(* The character after the last one counted is read, too.                  *)
RECURSIVE strnlen(_, _, _)
strnlen(m, str, len) ==
  IF m[str] = NUL \/ len = 0 THEN 0 ELSE 1 + strnlen(m, str + 1, len - 1)

RECURSIVE strcmp(_, _, _)
strcmp(m, str1, str2) ==
  IF m[str1] # NUL /\ m[str2] # NUL /\ m[str1] = m[str2]
  THEN strcmp(m, str1 + 1, str2 + 1) ELSE m[str1] - m[str2]

(* strncmp without the test of len after the loop.                         *)
RECURSIVE CompareOn(_, _, _, _)
CompareOn(m, str1, str2, len) ==
  IF m[str1] # NUL /\ m[str2] # NUL /\ m[str1] = m[str2] /\ len # 0
  THEN CompareOn(m, str1 + 1, str2 + 1, len - 1) ELSE m[str1] - m[str2]

(* len-- is evaluated only when all before it holds, and wraps at 0.       *)
RECURSIVE strncmp(_, _, _, _)
strncmp(m, str1, str2, len) ==
  LET same == m[str1] # NUL /\ m[str2] # NUL /\ m[str1] = m[str2] IN
  IF same /\ len # 0 THEN strncmp(m, str1 + 1, str2 + 1, len - 1)
  ELSE IF ~same /\ len = 0 THEN 0 ELSE m[str1] - m[str2]

RECURSIVE strcpy(_, _, _)
strcpy(m, dest, src) ==
  IF m[src] = NUL THEN [m EXCEPT ![dest] = NUL]
  ELSE strcpy([m EXCEPT ![dest] = m[src]], dest + 1, src + 1)

(* The terminator is always written, after the len characters if need be.  *)
RECURSIVE strncpy(_, _, _, _)
strncpy(m, dest, src, len) ==
  IF m[src] = NUL \/ len = 0 THEN [m EXCEPT ![dest] = NUL]
  ELSE strncpy([m EXCEPT ![dest] = m[src]], dest + 1, src + 1, len - 1)

strcat(m, dest, src) == strcpy(m, dest + strlen(m, dest), src)
strncat(m, dest, src, len) == strncpy(m, dest + strlen(m, dest), src, len)

RECURSIVE strchr(_, _, _)
strchr(m, str, ch) ==
  IF m[str] # NUL /\ m[str] # ch THEN strchr(m, str + 1, ch)
  ELSE IF m[str] = ch THEN str ELSE nullptr

RECURSIVE search(_, _, _, _, _)
search(m, str, substr, a, b) ==
  IF m[b] = NUL THEN str
  ELSE IF m[a] = NUL THEN nullptr
  ELSE IF m[a] # m[b] THEN search(m, str + 1, substr, str + 1, substr)
  ELSE search(m, str, substr, a + 1, b + 1)
strstr(m, str, substr) == search(m, str, substr, str, substr)

RECURSIVE swap(_, _, _)
swap(m, i, j) ==
  IF i < j THEN swap([m EXCEPT ![i] = m[j], ![j] = m[i]], i + 1, j - 1) ELSE m
(* Of a string that is not empty: len - 1 wraps otherwise.                 *)
strrev(m, str) == swap(m, str, str + strlen(m, str) - 1)

-----------------------------------------------------------------------------
(* Numbers.                                                                *)

RECURSIVE atoi_from(_, _, _)
atoi_from(m, s, num) ==
  IF isdigit(m[s]) THEN atoi_from(m, s + 1, num * 10 + (m[s] - zero)) ELSE num
atoi(m, s) == atoi_from(m, s, 0)

RECURSIVE skip(_, _)
skip(m, s) == IF m[s] = blank THEN skip(m, s + 1) ELSE s

(* The loop of strtol: each digit replaces what the ones before it gave.   *)
RECURSIVE digits(_, _, _, _)
digits(m, s, base, ret_value) ==
  IF ~isalnum(m[s]) \/ (base = 10 /\ ~isdigit(m[s])) THEN ret_value
  ELSE digits(m, s + 1, base,
              IF base \notin {10, 16} THEN ret_value
              ELSE IF isdigit(m[s]) THEN (m[s] - zero) * base
              ELSE (tolower(m[s]) - 97 + 10) * base)

Hex(m, s) == m[s] = zero /\ m[s + 1] \in {88, 120}

strtol(m, nptr, base) ==
  LET s == skip(m, nptr)
      signed == IF m[s] = minus THEN s + 1 ELSE s
      prefixed == base \in {0, 16} /\ Hex(m, signed)
      start == IF prefixed THEN signed + 2 ELSE signed
      value == digits(m, start, IF prefixed THEN 16 ELSE IF base = 0 THEN 10 ELSE base, 0)
  IN  [value |-> IF m[s] = minus THEN -value ELSE value, endptr |-> start]

(* strtoll has the same code once more, from its loop over the digits ...  *)
RECURSIVE strtoll_digits(_, _, _, _)
strtoll_digits(m, s, base, ret_value) ==
  CASE ~isalnum(m[s]) -> ret_value
    [] isdigit(m[s]) /\ base \in {10, 16} ->
         strtoll_digits(m, s + 1, base, (m[s] - zero) * base)
    [] isalpha(m[s]) /\ base = 10 -> ret_value
    [] isalpha(m[s]) /\ base = 16 ->
         strtoll_digits(m, s + 1, base, ((tolower(m[s]) - 97) + 10) * base)
    [] OTHER -> strtoll_digits(m, s + 1, base, ret_value)

(* ... and back to the prefix.  StrtollUnguarded looks for the x only.     *)
StrtollUnguarded(m, s, base) ==
  IF base \in {0, 16} /\ s + 1 \in Cells /\ m[s + 1] \in {88, 120}
  THEN [start |-> s + 2, base |-> 16]
  ELSE [start |-> s, base |-> IF base = 0 THEN 10 ELSE base]
strtoll_prefix(m, s, base) ==
  IF base \in {0, 16} /\ m[s] = zero /\ m[s + 1] \in {88, 120}
  THEN [start |-> s + 2, base |-> 16]
  ELSE [start |-> s, base |-> IF base = 0 THEN 10 ELSE base]

RECURSIVE strtoll(_, _, _)
strtoll(m, nptr, base) ==
  IF m[nptr] = blank THEN strtoll(m, nptr + 1, base)
  ELSE LET is_neg == m[nptr] = minus
           prefix == strtoll_prefix(m, IF is_neg THEN nptr + 1 ELSE nptr, base)
           ret_value == strtoll_digits(m, prefix.start, prefix.base, 0)
       IN  [value |-> IF is_neg THEN -1 * ret_value ELSE ret_value,
            endptr |-> prefix.start]

RECURSIVE printed(_)
printed(num) ==
  IF num > 0 THEN Append(printed(num \div 10), (num % 10) + zero) ELSE << >>

(* printi without its special case.                                        *)
PrintiPlain(num) ==
  IF num = 0 THEN <<zero>>
  ELSE (IF num < 0 THEN <<minus>> ELSE << >>)
         \o printed(IF num = INT_MIN THEN num ELSE IF num < 0 THEN -num ELSE num)

(* terminal::printi.  -INT_MIN is INT_MIN again, and is printed as its     *)
(* first nine digits (C's division truncates) and an 8.                    *)
printi(num) ==
  LET magnitude == IF num = INT_MIN THEN num ELSE IF num < 0 THEN -num ELSE num IN
  IF num = 0 THEN <<zero>>
  ELSE (IF num < 0 THEN <<minus>> ELSE << >>)
         \o (IF magnitude <= 0 THEN Append(printed(-((magnitude + 8) \div 10)), 8 + zero)
                               ELSE printed(magnitude))

-----------------------------------------------------------------------------
(* Calls.                                                                  *)

Init == memory = [c \in Cells |-> NUL]

Block(p, len) == p + len <= Size
Terminated(p) == \E q \in Cells : q >= p /\ memory[q] = NUL
Apart(p, n, q, k) == p + n <= q \/ q + k <= p

(* The string at src, cut to len characters, fits at dest and is elsewhere.*)
Fits(dest, src, len) ==
  LET n == Min({len, strlen(memory, src)})
  IN  Block(dest, n + 1) /\ Apart(dest, n + 1, src, n + 1)

(* The string functions that write, with room for what they write.         *)
StringCall(dest, src, len) ==
  /\ Terminated(src)
  /\ \/ Fits(dest, src, Size) /\ memory' = strcpy(memory, dest, src)
     \/ Fits(dest, src, len) /\ memory' = strncpy(memory, dest, src, len)
     \/ /\ Terminated(dest)
        /\ LET end == dest + strlen(memory, dest) IN
           \/ Fits(end, src, Size) /\ memory' = strcat(memory, dest, src)
           \/ Fits(end, src, len) /\ memory' = strncat(memory, dest, src, len)
     \/ memory[src] # NUL /\ memory' = strrev(memory, src)

(* memmove is not called with src = 0 < dest, where it writes in front of  *)
(* the memory.                                                             *)
BlockCall(dest, src, len) ==
  /\ Block(dest, len) /\ Block(src, len)
  /\ \/ Apart(dest, len, src, len) /\ memory' = memcpy(memory, dest, src, len)
     \/ (src = 0 => dest = 0) /\ memory' = memmove(memory, dest, src, len)

Next ==
  \E dest \in Cells :
    \/ \E ch \in Chars, len \in 0 .. Size :
         Block(dest, len) /\ memory' = memset(memory, dest, ch, len)
    \/ \E src \in Cells, len \in 0 .. Size :
         StringCall(dest, src, len) \/ BlockCall(dest, src, len)

Spec == Init /\ [][Next]_memory

-----------------------------------------------------------------------------

(* The memory with the len characters at src also at dest.                 *)
Moved(dest, src, len) ==
  [c \in Cells |-> IF c \in dest .. (dest + len - 1) THEN memory[c - dest + src]
                                                     ELSE memory[c]]

(* Whatever the memory holds, the functions that write leave in it what    *)
(* was at src and nothing else changed: memcpy for blocks apart, memmove   *)
(* also for blocks that overlap, as long as it moves down; the string      *)
(* functions with one terminator after at most len characters.             *)
CopiesExact ==
  \A dest, src \in Cells, len \in 0 .. Size :
    /\ Block(dest, len) /\ Block(src, len) =>
         /\ Apart(dest, len, src, len) =>
              memcpy(memory, dest, src, len) = Moved(dest, src, len)
         /\ dest <= src => memmove(memory, dest, src, len) = Moved(dest, src, len)
    /\ Terminated(src) =>
         LET l == Min({len, strlen(memory, src)})
             end == dest + strlen(memory, dest)
         IN  /\ Fits(dest, src, len) =>
                  strncpy(memory, dest, src, len) =
                    [Moved(dest, src, l) EXCEPT ![dest + l] = NUL]
             /\ Fits(dest, src, Size) =>
                  strcpy(memory, dest, src) = Moved(dest, src, strlen(memory, src) + 1)
             /\ Terminated(dest) /\ Fits(end, src, len) =>
                  strncat(memory, dest, src, len) =
                    [Moved(end, src, l) EXCEPT ![end + l] = NUL]

(* The first n characters of the string at p.                              *)
Text(p, n) ==
  LET end == CHOOSE q \in Cells :
               q >= p /\ memory[q] = NUL /\ \A c \in p .. (q - 1) : memory[c] # NUL
  IN  [k \in 1 .. Min({n, end - p}) |-> memory[p + k - 1]]

Sign(n) == IF n < 0 THEN -1 ELSE IF n > 0 THEN 1 ELSE 0

(* s before t in the order of their characters: -1, 0 or 1.                *)
Order(s, t) ==
  IF s = t THEN 0
  ELSE IF IsPrefix(s, t) THEN -1 ELSE IF IsPrefix(t, s) THEN 1
  ELSE LET k == CHOOSE i \in DOMAIN s : s[i] # t[i] /\ \A j \in 1 .. (i - 1) : s[j] = t[j]
       IN  Sign(s[k] - t[k])

(* strcmp orders strings by their characters, strncmp by the first len of  *)
(* them, although its len wraps; strstr finds the first occurrence, also   *)
(* after partial matches, strchr and memchr the first match.  memcmp is 0  *)
(* for equal blocks only.  Its sign says which block is the smaller when   *)
(* their third characters are the first to differ, and otherwise nothing.  *)
ResultsExact ==
  \A p, q \in {c \in Cells : Terminated(c)} :
    LET first(S) == IF S = {} THEN nullptr ELSE Min(S)
        s == Text(p, Size)
        t == Text(q, Size)
    IN  /\ strlen(memory, p) = Len(s)
        /\ Sign(strcmp(memory, p, q)) = Order(s, t)
        /\ \A len \in 0 .. Size :
             /\ strnlen(memory, p, len) = Len(Text(p, len))
             /\ Sign(strncmp(memory, p, q, len)) = Order(Text(p, len), Text(q, len))
             /\ Block(p, len) /\ Block(q, len) =>
                  /\ 0 \in memcmp(memory, p, q, len) <=> Moved(p, q, len) = memory
                  /\ len > 2 /\ Moved(p, q, 2) = memory /\ memory[p + 2] # memory[q + 2] =>
                       memcmp(memory, p, q, len) = {Sign(memory[p + 2] - memory[q + 2])}
             /\ Block(p, len) => \A ch \in Chars :
                  memchr(memory, p, ch, len) =
                    first({c \in p .. (p + len - 1) : memory[c] = ch})
        /\ strstr(memory, p, q) = first({c \in p .. (p + Len(s)) : IsPrefix(t, Text(c, Size))})
        /\ \A ch \in Chars :
             strchr(memory, p, ch) = first({c \in p .. (p + Len(s)) : memory[c] = ch})

(* printi and atoi are inverse to each other for numerals without leading  *)
(* zeros, and printi is right at both ends of int's range: the digits give *)
(* the number back when they are summed up on the negative side.           *)
NumeralsRoundTrip ==
  /\ \A p \in {c \in Cells : Terminated(c)} :
       LET s == Text(p, Size) IN
       s # << >> /\ (\A k \in DOMAIN s : isdigit(s[k])) /\ (s[1] = zero => Len(s) = 1) =>
         printi(atoi(memory, p)) = s
  /\ \A num \in Numbers :
       LET text == printi(num)
           numeral == IF num < 0 THEN Tail(text) ELSE text
       IN  /\ num < 0 => Head(text) = minus
           /\ FoldLeft(LAMBDA n, ch : n * 10 - (ch - zero), 0, numeral) =
                IF num < 0 THEN num ELSE -num

(* The memory with ch behind the string at p, and a terminator at its end. *)
Behind(p, ch) ==
  [c \in Cells |-> IF c <= p + strlen(memory, p) THEN memory[c]
                   ELSE IF c = Size - 1 THEN NUL ELSE ch]

(* The parsers look ahead for "0x" and still read no character behind the  *)
(* terminator: whatever lies there, value and endptr are the same, and     *)
(* endptr is a position of the string or its end.  The two copies of the   *)
(* code, strtol and strtoll, agree for every string and base.              *)
ParsesOwnString ==
  \A p \in {c \in Cells : Terminated(c)}, base \in {0, 8, 10, 16} :
    LET result == strtol(memory, p, base) IN
    /\ result.endptr \in p .. (p + strlen(memory, p))
    /\ \A ch \in Chars : /\ strtol(Behind(p, ch), p, base) = result
                         /\ strtoll(Behind(p, ch), p, base) = result

=============================================================================
