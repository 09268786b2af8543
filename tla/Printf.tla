------------------------------- MODULE Printf -------------------------------
(***************************************************************************)
(* vsnprintf of libc/vsprintf.c, one iteration of its loop at a time.      *)
(* Characters are one-letter strings.  The argument list is a sequence of  *)
(* stack words: numbers below Word, the number of values of an int, or     *)
(* pointers to strings (sequences, or NULL); a long long takes two words.  *)
(* A long is as wide as an int on this machine.                            *)
(***************************************************************************)
EXTENDS Common, Functions

CONSTANTS NUL,     \* the character that ends a string
          Word,    \* 2^32 in the code
          Room     \* the memory the model watches: a buffer and what follows it

ASSUME PrintfAssumption == Word \in Nat \ {0} /\ Room \in Nat

VARIABLE vs   \* the locals of vsnprintf, its buffer, and ret when it has returned

DIGITS == <<"0", "1", "2", "3", "4", "5", "6", "7", "8", "9", "A", "B", "C", "D", "E", "F">>
LDIGITS == <<"0", "1", "2", "3", "4", "5", "6", "7", "8", "9", "a", "b", "c", "d", "e", "f">>
is_digit(c) == c \in {DIGITS[i] : i \in 1 .. 10}
DigitOf(c) == (CHOOSE i \in 1 .. 10 : DIGITS[i] = c) - 1

Repeat(c, k) == [i \in 1 .. k |-> c]
Greater(a, b) == IF a > b THEN a ELSE b

\* What an int, and a long long of two words, holds.
Signed(word) == IF word >= Word \div 2 THEN word - Word ELSE word
SignedPair(low, high) == low + Word * Signed(high)

\* get_atoi: how many digits the text starts with, and their number.
DigitsAhead(text) ==
    Min({k \in 0 .. Len(text) : k = Len(text) \/ ~is_digit(text[k + 1])})
get_atoi(text) ==
    LET res[k \in 0 .. DigitsAhead(text)] == IF k = 0 THEN 0 ELSE res[k - 1] * 10 + DigitOf(text[k])
    IN  res[DigitsAhead(text)]

-----------------------------------------------------------------------------
\* Mutant of Stored: one character too many.
Stored_one_more(pos, max) == pos <= max

\* bputc stores a character if there is room for it and counts it anyway.
Stored(pos, max) == pos < max
bputc(v, text) ==
    [v EXCEPT !.n = @ + Len(text),
              !.buf = [i \in DOMAIN @ |->
                        IF i - v.n + 1 \in DOMAIN text /\ Stored(i, v.size)
                        THEN text[i - v.n + 1] ELSE @[i]]]

\* Mutant of Aligned: zeros go in front of the sign.
Aligned_sign_inside(flags, npad, altb, number) ==
    CASE "left" \in flags -> altb \o number \o Repeat(" ", npad)
      [] "zero" \in flags -> Repeat("0", npad) \o altb \o number
      [] OTHER -> Repeat(" ", npad) \o altb \o number

\* Sign and prefix (altb), the number, and what fills up the width.
Aligned(flags, npad, altb, number) ==
    CASE "left" \in flags -> altb \o number \o Repeat(" ", npad)
      [] "zero" \in flags -> altb \o Repeat("0", npad) \o number
      [] OTHER -> Repeat(" ", npad) \o altb \o number

\* The text of a number.
fmt_int(num, base, width, flags0) ==
    LET flags == IF "left" \in flags0 THEN flags0 \ {"zero"} ELSE flags0
        digits == IF "small" \in flags THEN LDIGITS ELSE DIGITS
        negative == "signed" \in flags /\ num < 0
        n == (IF negative THEN -num ELSE num) % Word
        sign == CASE negative -> <<"-">>
                  [] ~negative /\ "plus" \in flags -> <<"+">>
                  [] ~negative /\ "plus" \notin flags /\ "space" \in flags -> <<" ">>
                  [] OTHER -> << >>
        nbuf[m \in 0 .. n] == IF m < base THEN <<digits[m + 1]>>
                           ELSE Append(nbuf[m \div base], digits[(m % base) + 1])
        prefix == CASE "alternate" \in flags /\ base = 8 -> <<"0">>
                    [] "alternate" \in flags /\ base = 16 ->
                        <<"0", IF "small" \in flags THEN "x" ELSE "X">>
                    [] OTHER -> << >>
        altb == sign \o prefix
        npad == Greater(0, width - Len(nbuf[n]) - Len(altb))
    IN  Aligned(flags, npad, altb, nbuf[n])

\* fmt_str, and fmt_chr, whose text is one character.
fmt_str(text, width, flags) ==
    LET pad == Repeat(" ", Greater(0, width - Len(text)))
    IN  IF "left" \in flags THEN text \o pad ELSE pad \o text

-----------------------------------------------------------------------------
\* The call.  Memory after the buffer is watched; a NULL buffer has size 0.
vsnprintf(size, fmt, ap) ==
    [fmt |-> Append(fmt, NUL), ap |-> ap, size |-> size,
     buf |-> [i \in 0 .. Room - 1 |-> NULL], n |-> 0,
     state |-> "S_DEFAULT", flags |-> {}, width |-> 0, lflags |-> 0, ret |-> NULL]

\* After the loop: n is counted back and the text ended.
Terminated(v) ==
    LET n == (v.n - 1) % Word IN
    [v EXCEPT !.n = n, !.ret = Signed(n),
              !.buf = CASE n < v.size -> [@ EXCEPT ![n] = NUL]
                        [] n >= v.size /\ v.size > 0 -> [@ EXCEPT ![v.size - 1] = NUL]
                        [] OTHER -> @]

\* The end of an iteration that has seen c: the loop ends with a NUL.
Iterated(c, v) == vs' = IF c = NUL THEN Terminated(v) ELSE v

Skip(k) == [vs EXCEPT !.fmt = SubSeq(@, k + 1, Len(@))]   \* fmt moves on
In(state) == vs # NULL /\ vs.ret = NULL /\ vs.state = state

S_DEFAULT ==
    /\ In("S_DEFAULT")
    /\ LET c == Head(vs.fmt) IN
       Iterated(c, IF c = "%" THEN [Skip(1) EXCEPT !.state = "S_FLAGS", !.flags = {}]
                   ELSE bputc(Skip(1), <<c>>))

FLAG == [c \in {"#", "0", "-", " ", "+"} |->
            CASE c = "#" -> "alternate" [] c = "0" -> "zero" [] c = "-" -> "left"
              [] c = " " -> "space" [] c = "+" -> "plus"]
S_FLAGS ==
    /\ In("S_FLAGS")
    /\ LET c == Head(vs.fmt) IN
       Iterated(c, CASE c \in DOMAIN FLAG -> [Skip(1) EXCEPT !.flags = @ \cup {FLAG[c]}]
                     [] c \in {"'", "I"} -> Skip(1)
                     [] OTHER -> [vs EXCEPT !.width = 0, !.state = "S_WIDTH"])

S_WIDTH ==
    /\ In("S_WIDTH")
    /\ LET c == Head(vs.fmt)
           star == Signed(Head(vs.ap))
       IN
       Iterated(c, CASE c = "*" -> [Skip(1) EXCEPT !.ap = Tail(@), !.width = Greater(star, -star),
                                                   !.flags = IF star < 0 THEN @ \cup {"left"} ELSE @]
                     [] is_digit(c) /\ c # "0" ->
                            [Skip(DigitsAhead(vs.fmt)) EXCEPT !.width = get_atoi(vs.fmt)]
                     [] OTHER -> [vs EXCEPT !.state = "S_PRECIS"])

\* The precision is skipped; a star takes its argument but stays in fmt.
S_PRECIS ==
    /\ In("S_PRECIS")
    /\ LET c == Head(vs.fmt)
           digits == DigitsAhead(Skip(1).fmt)
       IN
       Iterated(c, [(IF c # "." THEN vs
                     ELSE IF vs.fmt[2] = "*" THEN [Skip(1) EXCEPT !.ap = Tail(@)]
                     ELSE Skip(1 + digits))
                    EXCEPT !.lflags = 0, !.state = "S_LENGTH"])

L_CHAR == 1
L_SHORT == 2
L_LONG == 3
L_LLONG == 4
L_DOUBLE == 5
S_LENGTH ==
    /\ In("S_LENGTH")
    /\ LET c == Head(vs.fmt) IN
       Iterated(c, CASE c = "h" -> [Skip(1) EXCEPT !.lflags = IF @ = L_CHAR THEN L_SHORT ELSE L_CHAR]
                     [] c = "l" -> [Skip(1) EXCEPT !.lflags = IF @ = L_LONG THEN L_LLONG ELSE L_LONG]
                     [] c = "L" -> [Skip(1) EXCEPT !.lflags = L_DOUBLE]
                     [] OTHER -> [vs EXCEPT !.state = "S_CONV"])

BASE == [c \in {"d", "i", "u", "x", "X", "o", "b"} |->
            CASE c \in {"x", "X"} -> 16 [] c = "o" -> 8 [] c = "b" -> 2 [] OTHER -> 10]

\* lflags & (L_LLONG | L_DOUBLE), with the values above: all but two.
TwoWords == vs.lflags \in {L_CHAR, L_LLONG, L_DOUBLE}

\* The end of a conversion that takes k words and puts text.
Converted(c, k, text) ==
    Iterated(c, bputc([Skip(1) EXCEPT !.state = "S_DEFAULT", !.ap = SubSeq(@, k + 1, Len(@))], text))

S_CONV ==
    /\ In("S_CONV")
    /\ LET c == Head(vs.fmt)
           number == IF TwoWords THEN SignedPair(vs.ap[1], vs.ap[2])
                     ELSE IF c \in {"d", "i"} \/ vs.lflags = L_LONG THEN Signed(vs.ap[1])
                     ELSE vs.ap[1]
           flags == vs.flags \cup CASE c \in {"d", "i"} -> {"signed"}
                                    [] c = "x" -> {"small"} [] OTHER -> {}
       IN
       CASE c \in DOMAIN BASE ->
                Converted(c, IF TwoWords THEN 2 ELSE 1, fmt_int(number, BASE[c], vs.width, flags))
         [] c = "p" -> Converted(c, 1, fmt_int(Signed(vs.ap[1]), 16, vs.width,
                                               vs.flags \cup {"small", "alternate"}))
         [] c = "s" -> Converted(c, 1, fmt_str(IF vs.ap[1] = NULL
                                               THEN <<"(", "n", "u", "l", "l", ")">>
                                               ELSE vs.ap[1], vs.width, vs.flags))
         [] c = "c" -> Converted(vs.ap[1], 1, fmt_str(<<vs.ap[1]>>, vs.width, vs.flags))
         [] c = "%" -> Converted(c, 0, <<"%">>)
         [] OTHER -> Converted(c, 0, <<"%", c>>)

Loop == S_DEFAULT \/ S_FLAGS \/ S_WIDTH \/ S_PRECIS \/ S_LENGTH \/ S_CONV
=============================================================================
