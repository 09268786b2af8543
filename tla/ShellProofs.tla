---------------------------- MODULE ShellProofs ----------------------------
(***************************************************************************)
(* Theorems about vsnprintf and the shell: for every format, every size,   *)
(* every line and words of any width.  A direct call owes vsnprintf the    *)
(* arguments its format asks for (ArgsMatch); the shell's calls have them. *)
(***************************************************************************)
EXTENDS Shell, CommonProofs

\* A sequence of whatever: what the properties need of a text is its length.
IsText(s) == \E S : s \in Seq(S)

\* What the caller of vsnprintf owes it: an argument of its kind for every
\* star and every conversion.
Number(w) == w \in 0 .. Word - 1
ArgsMatch ==
    vs # NULL /\ vs.ret = NULL =>
        LET c == Head(vs.fmt) IN
        /\ vs.state = "S_WIDTH" /\ c = "*" => Number(Head(vs.ap))
        /\ vs.state = "S_CONV" /\ c \in DOMAIN BASE \cup {"p"} => Number(vs.ap[1])
        /\ vs.state = "S_CONV" /\ c \in DOMAIN BASE /\ TwoWords => Number(vs.ap[2])
        /\ vs.state = "S_CONV" /\ c = "s" => vs.ap[1] = NULL \/ IsText(vs.ap[1])

-----------------------------------------------------------------------------
\* The call of vsnprintf under way.
IsCall(v) ==
    v = [fmt |-> v.fmt, ap |-> v.ap, size |-> v.size, buf |-> v.buf, n |-> v.n, state |-> v.state,
         flags |-> v.flags, width |-> v.width, lflags |-> v.lflags, ret |-> v.ret]
Watched(buf, size) ==
    /\ buf = [i \in 0 .. Room - 1 |-> buf[i]]
    /\ \A i \in size .. Room - 1 : buf[i] = NULL
Ok(v) ==
    /\ IsCall(v)
    /\ IsText(v.fmt) /\ v.n \in Nat /\ v.width \in Int /\ v.size \in 0 .. Room
    /\ Watched(v.buf, v.size)
Ended(v) == v.size > 0 => \E i \in 0 .. v.size - 1 : v.buf[i] = NUL
CallOk == vs # NULL => Ok(vs) /\ (vs.ret # NULL => Ended(vs))

\* The calls the shell makes, and how far each can have got.
Letters == {"\n", "$", "H", "U", "M", "S", "X", "?", " "}
Short(t) == IsText(t) /\ Len(t) + 2 <= BufSize
Single(call) == \E c \in Letters : call = << <<c>>, << >> >>
WithText(call) == \E c \in Letters : \E t : Short(t) /\ call = << <<"%", "s", c>>, <<t>> >>
Prints(calls) == \E S : calls \in Seq(S) /\ \A call \in S : Single(call) \/ WithText(call)

Underway(v) ==
    \/ v.state = "S_DEFAULT" /\ v.n + 1 <= BufSize /\ v.fmt = <<NUL>>
    \/ v.state = "S_DEFAULT" /\ v.n + 2 <= BufSize /\ \E c \in Letters : v.fmt = <<c, NUL>>
    \/ /\ v.n = 0 /\ \E t : Short(t) /\ v.ap = <<t>>
       /\ \/ v.state = "S_DEFAULT" /\ \E c \in Letters : v.fmt = <<"%", "s", c, NUL>>
          \/ /\ v.state \in {"S_FLAGS", "S_WIDTH", "S_PRECIS", "S_LENGTH", "S_CONV"}
             /\ v.flags = {} /\ (v.state # "S_FLAGS" => v.width = 0)
             /\ \E c \in Letters : v.fmt = <<"s", c, NUL>>
InSession ==
    pc # "direct" =>
        /\ Prints(prints)
        /\ vs # NULL => /\ vs.size = BufSize
                        /\ vs.ret = NULL => Underway(vs)
                        /\ vs.ret # NULL => vs.ret \in 0 .. BufSize - 1

\* The words of the line lie behind each other, each with its end.
EndIn(buf, p, q) == \E i \in p .. q : buf[i] = NUL
Apart ==
    /\ args \in Seq(1 .. LineMax)
    /\ \A k \in 1 .. Len(args) : EndIn(cmd_buf, args[k], LineMax)
    /\ \A k \in 1 .. Len(args) - 1 : EndIn(cmd_buf, args[k], args[k + 1] - 1)
WordsApart ==
    /\ cmd_buf = [i \in 1 .. LineMax |-> cmd_buf[i]]
    /\ pc \in {"first", "more", "run"} => Apart
    /\ pc = "first" => args = << >> /\ EndIn(cmd_buf, 1, LineMax)
    /\ pc \in {"more", "run"} => args # << >>
    /\ pc = "more" /\ next_token # NULL =>
        /\ next_token \in 1 .. LineMax
        /\ EndIn(cmd_buf, next_token, LineMax) /\ EndIn(cmd_buf, args[Len(args)], next_token - 1)

-----------------------------------------------------------------------------
\* Texts.

LEMMA TextLen == ASSUME NEW s, IsText(s) PROVE Len(s) \in Nat
BY DEF IsText

LEMMA TextFew ==
    /\ IsText(<< >>)
    /\ \A a : IsText(<<a>>) /\ Len(<<a>>) = 1
    /\ \A a, b : IsText(<<a, b>>) /\ Len(<<a, b>>) = 2
<1>1. << >> \in Seq({})
  OBVIOUS
<1>2. ASSUME NEW a PROVE <<a>> \in Seq({a}) /\ Len(<<a>>) = 1
  OBVIOUS
<1>3. ASSUME NEW a, NEW b PROVE <<a, b>> \in Seq({a, b}) /\ Len(<<a, b>>) = 2
  OBVIOUS
<1> QED BY <1>1, <1>2, <1>3, Zenon DEF IsText

LEMMA TextConcat ==
    ASSUME NEW s, NEW t, IsText(s), IsText(t)
    PROVE  IsText(s \o t) /\ Len(s \o t) = Len(s) + Len(t)
<1>1. PICK S : s \in Seq(S)
  BY Zenon DEF IsText
<1>2. PICK T : t \in Seq(T)
  BY Zenon DEF IsText
<1>3. s \in Seq(S \cup T) /\ t \in Seq(S \cup T)
  BY <1>1, <1>2
<1>4. s \o t \in Seq(S \cup T) /\ Len(s \o t) = Len(s) + Len(t)
  BY <1>3, ConcatProperties
<1> QED BY <1>4, Zenon DEF IsText

LEMMA TextRepeat ==
    ASSUME NEW c, NEW k \in Nat
    PROVE  IsText(Repeat(c, k)) /\ Len(Repeat(c, k)) = k
<1>1. Repeat(c, k) \in Seq({c}) /\ Len(Repeat(c, k)) = k
  BY DEF Repeat
<1> QED BY <1>1, Zenon DEF IsText

LEMMA TextSub ==
    ASSUME NEW s, IsText(s), NEW k \in Nat
    PROVE  IsText(SubSeq(s, k + 1, Len(s)))
<1>1. PICK S : s \in Seq(S)
  BY Zenon DEF IsText
<1>2. SubSeq(s, k + 1, Len(s)) \in Seq(S)
  BY <1>1
<1> QED BY <1>2, Zenon DEF IsText

-----------------------------------------------------------------------------
\* Numbers and numerals.

\* A value computed digit by digit: the function exists, and is a number.
Values(f, d, b, k) == f = [i \in 0 .. k |-> IF i = 0 THEN 0 ELSE f[i - 1] * b + d[i]]

LEMMA ValuesExist ==
    ASSUME NEW b, NEW n \in Nat, NEW d
    PROVE  \A k \in 0 .. n : \E f : Values(f, d, b, k)
<1> DEFINE Bad == {k \in 0 .. n : ~ \E f : Values(f, d, b, k)}
<1>1. ASSUME Bad # {} PROVE FALSE
  <2>1. Bad \in SUBSET Nat
    OBVIOUS
  <2> DEFINE m == Min(Bad)
  <2>2. m \in Bad /\ \A y \in Bad : m <= y
    BY <1>1, <2>1, MinNat, Zenon
  <2> HIDE DEF m
  <2>3. CASE m = 0
    <3> DEFINE g == [i \in 0 .. 0 |-> 0]
    <3>1. g = [i \in 0 .. 0 |-> IF i = 0 THEN 0 ELSE g[i - 1] * b + d[i]]
      OBVIOUS
    <3>2. Values(g, d, b, 0)
      BY <3>1, Zenon DEF Values
    <3> QED BY <2>2, <2>3, <3>2, Zenon
  <2>4. CASE m # 0
    <3>0. m \in 0 .. n /\ \A y \in Bad : m <= y
      BY <2>2, Zenon
    <3>1. m - 1 \in 0 .. n /\ m - 1 \notin Bad /\ m \in Nat
      <4> HIDE DEF Bad
      <4> QED BY <3>0, <2>4
    <3>2. PICK f : Values(f, d, b, m - 1)
      BY <3>1, Zenon
    <3> DEFINE g == [i \in 0 .. m |-> IF i = m THEN f[m - 1] * b + d[m] ELSE f[i]]
    <3>3. \A i \in 0 .. m - 1 : f[i] = IF i = 0 THEN 0 ELSE f[i - 1] * b + d[i]
      BY <3>2, Zenon DEF Values
    <3>4. \A i \in 0 .. m : g[i] = IF i = 0 THEN 0 ELSE g[i - 1] * b + d[i]
      <4> TAKE i \in 0 .. m
      <4>1. CASE i = m
        <5>0. m - 1 \in 0 .. m /\ m - 1 # m /\ m \in 0 .. m
          BY <3>1, <2>4
        <5>1. g[i] = f[m - 1] * b + d[m] /\ g[m - 1] = f[m - 1] /\ i # 0
          BY <5>0, <4>1, <2>4, Zenon
        <5> QED BY <5>1, <4>1, Zenon
      <4>2. CASE i # m
        <5>1. i \in 0 .. m - 1 /\ g[i] = f[i] /\ (i # 0 => g[i - 1] = f[i - 1])
          BY <3>1, <4>2
        <5> QED BY <5>1, <3>3, Zenon
      <4> QED BY <4>1, <4>2
    <3>5. g = [i \in 0 .. m |-> IF i = 0 THEN 0 ELSE g[i - 1] * b + d[i]]
      <4>1. g = [i \in 0 .. m |-> g[i]]
        OBVIOUS
      <4> HIDE DEF g
      <4> QED BY <4>1, <3>4, Zenon
    <3>6. Values(g, d, b, m)
      BY <3>5, Zenon DEF Values
    <3> QED BY <2>2, <3>6, Zenon
  <2> QED BY <2>3, <2>4
<1> QED BY <1>1, Zenon

LEMMA ValuesTyped ==
    ASSUME NEW b \in Int, NEW k \in Nat, NEW d \in [1 .. k -> Int], NEW f, Values(f, d, b, k)
    PROVE  f[k] \in Int
<1>1. \A i \in 0 .. k : f[i] = IF i = 0 THEN 0 ELSE f[i - 1] * b + d[i]
  BY Zenon DEF Values
<1> DEFINE Bad == {i \in 0 .. k : f[i] \notin Int}
<1>2. ASSUME Bad # {} PROVE FALSE
  <2>1. Bad \in SUBSET Nat
    OBVIOUS
  <2> DEFINE m == Min(Bad)
  <2>2. m \in Bad /\ \A y \in Bad : m <= y
    BY <1>2, <2>1, MinNat, Zenon
  <2> HIDE DEF m
  <2>3. m \in 0 .. k /\ f[m] \notin Int
    BY <2>2, Zenon
  <2>4. m # 0 => m - 1 \in 0 .. k /\ m - 1 \notin Bad /\ m \in 1 .. k
    <3> HIDE DEF Bad
    <3> QED BY <2>2, <2>3
  <2>5. m # 0 => f[m - 1] \in Int /\ d[m] \in Int
    BY <2>4, Zenon
  <2>6. f[m] = IF m = 0 THEN 0 ELSE f[m - 1] * b + d[m]
    BY <1>1, <2>3, Zenon
  <2> QED BY <2>3, <2>5, <2>6
<1>3. k \in 0 .. k
  OBVIOUS
<1> QED BY <1>2, <1>3, Zenon

LEMMA DigitOfTyped ==
    ASSUME NEW c, is_digit(c)
    PROVE  DigitOf(c) \in Int
<1>1. \E i \in 1 .. 10 : DIGITS[i] = c
  BY Zenon DEF is_digit
<1>2. (CHOOSE i \in 1 .. 10 : DIGITS[i] = c) \in 1 .. 10
  BY <1>1, Zenon
<1> DEFINE d == CHOOSE i \in 1 .. 10 : DIGITS[i] = c
<1>3. DigitOf(c) = d - 1 /\ d \in 1 .. 10
  BY <1>2, Zenon DEF DigitOf
<1> HIDE DEF d
<1> QED BY <1>3

LEMMA DigitsAheadTyped ==
    ASSUME NEW S, NEW text \in Seq(S)
    PROVE  DigitsAhead(text) \in 0 .. Len(text) /\ \A k \in 1 .. DigitsAhead(text) : is_digit(text[k])
<1> DEFINE Ends == {k \in 0 .. Len(text) : k = Len(text) \/ ~is_digit(text[k + 1])}
<1>1. Ends \in SUBSET Nat /\ Len(text) \in Ends
  OBVIOUS
<1>2. Min(Ends) \in Ends /\ \A y \in Ends : Min(Ends) <= y
  BY <1>1, MinNat, Zenon
<1> DEFINE m == Min(Ends)
<1>3. DigitsAhead(text) = m
  BY DEF DigitsAhead
<1>4. m \in 0 .. Len(text)
  BY <1>2, Zenon
<1>5. ASSUME NEW k \in 1 .. m PROVE is_digit(text[k])
  <2> HIDE DEF m
  <2>1. k - 1 \in 0 .. Len(text) /\ ~(m <= k - 1) /\ k - 1 # Len(text) /\ (k - 1) + 1 = k
    BY <1>4
  <2>2. k - 1 \notin Ends
    BY <1>2, <2>1, Zenon DEF m
  <2>3. is_digit(text[(k - 1) + 1])
    BY <2>1, <2>2, Zenon
  <2> QED BY <2>1, <2>3
<1> QED BY <1>3, <1>4, <1>5

LEMMA AtoiTyped ==
    ASSUME NEW S, NEW text \in Seq(S)
    PROVE  get_atoi(text) \in Int
<1> DEFINE k == DigitsAhead(text)
           d == [i \in 1 .. k |-> DigitOf(text[i])]
           res == CHOOSE f : f = [i \in 0 .. k |-> IF i = 0 THEN 0 ELSE f[i - 1] * 10 + DigitOf(text[i])]
<1>1. k \in Nat /\ \A i \in 1 .. k : is_digit(text[i])
  BY DigitsAheadTyped
<1> HIDE DEF k
<1>2. d \in [1 .. k -> Int]
  BY <1>1, DigitOfTyped
<1>3. PICK f : Values(f, d, 10, k)
  <2> HIDE DEF d
  <2>1. 10 \in Int /\ k \in 0 .. k
    BY <1>1
  <2> QED BY <1>1, <1>2, <2>1, ValuesExist, Zenon
<1>4. \A f1 : Values(f1, d, 10, k)
         <=> f1 = [i \in 0 .. k |-> IF i = 0 THEN 0 ELSE f1[i - 1] * 10 + DigitOf(text[i])]
  <2> TAKE f1
  <2>1. \A i \in 0 .. k : i # 0 => d[i] = DigitOf(text[i])
    BY <1>1
  <2> HIDE DEF d
  <2>2. [i \in 0 .. k |-> IF i = 0 THEN 0 ELSE f1[i - 1] * 10 + d[i]]
        = [i \in 0 .. k |-> IF i = 0 THEN 0 ELSE f1[i - 1] * 10 + DigitOf(text[i])]
    BY <2>1, Zenon
  <2> QED BY <2>2, Zenon DEF Values
<1>5. Values(res, d, 10, k)
  BY <1>3, <1>4, Zenon
<1>6. res[k] \in Int
  <2> HIDE DEF d, res
  <2>1. 10 \in Int
    OBVIOUS
  <2> QED BY <1>1, <1>2, <1>5, <2>1, ValuesTyped, Zenon
<1>7. get_atoi(text) = res[k]
  BY Zenon DEF get_atoi, k
<1> QED BY <1>6, <1>7

LEMMA StrtolTyped ==
    ASSUME NEW S, NEW str \in Seq(S), NEW base0 \in {0, 10}
    PROVE  strtol(str, base0) \in Int
<1> DEFINE signed == str # << >> /\ str[1] \in {"-", "+"}
           s == IF signed THEN Tail(str) ELSE str
           hex == Len(s) > 1 /\ s[1] = "0" /\ s[2] \in {"x", "X"} /\ base0 \in {0, 16}
           octal == base0 = 0 /\ ~hex /\ s # << >> /\ s[1] = "0"
           base == IF base0 # 0 THEN base0 ELSE IF hex THEN 16 ELSE IF octal THEN 8 ELSE 10
           t == IF hex THEN SubSeq(s, 3, Len(s)) ELSE s
           Ends == {i \in 0 .. Len(t) : i = Len(t) \/ DigitValue(t[i + 1]) >= base}
           k == Min(Ends)
           d == [i \in 1 .. k |-> DigitValue(t[i])]
           num == CHOOSE f : f = [i \in 0 .. k |-> IF i = 0 THEN 0 ELSE f[i - 1] * base + DigitValue(t[i])]
<1>1. strtol(str, base0) = IF signed /\ str[1] = "-" THEN -num[k] ELSE num[k]
  BY Zenon DEF strtol
<1>2. s \in Seq(S)
  BY DEF s
<1> HIDE DEF s
<1>3. t \in Seq(S)
  BY <1>2
<1>4. base \in Int
  OBVIOUS
<1> HIDE DEF t, base
<1>5. Ends \in SUBSET Nat /\ Len(t) \in Ends
  BY <1>3
<1>6. k \in Nat
  BY <1>5, MinNat, Zenon
<1> HIDE DEF k
<1>7. d \in [1 .. k -> Int]
  <2>1. \A c : DigitValue(c) \in Int
    <3> TAKE c
    <3> DEFINE D == {i \in 1 .. 16 : c = DIGITS[i] \/ c = LDIGITS[i]}
    <3>0. D \in SUBSET Nat
      OBVIOUS
    <3>1. D # {} => Min(D) \in 1 .. 16
      BY <3>0, MinNat, Zenon
    <3>2. DigitValue(c) = IF D = {} THEN Word ELSE Min(D) - 1
      BY Zenon DEF DigitValue
    <3> HIDE DEF D
    <3> QED BY <3>1, <3>2, PrintfAssumption
  <2> QED BY <2>1
<1>8. \A f1 : Values(f1, d, base, k)
         <=> f1 = [i \in 0 .. k |-> IF i = 0 THEN 0 ELSE f1[i - 1] * base + DigitValue(t[i])]
  <2> TAKE f1
  <2>1. \A i \in 0 .. k : i # 0 => d[i] = DigitValue(t[i])
    BY <1>6
  <2> HIDE DEF d
  <2>2. [i \in 0 .. k |-> IF i = 0 THEN 0 ELSE f1[i - 1] * base + d[i]]
        = [i \in 0 .. k |-> IF i = 0 THEN 0 ELSE f1[i - 1] * base + DigitValue(t[i])]
    BY <2>1, Zenon
  <2> QED BY <2>2, Zenon DEF Values
<1>9. \E f : Values(f, d, base, k)
  <2>1. k \in 0 .. k
    BY <1>6
  <2> QED BY <1>6, <2>1, ValuesExist, Zenon
<1>10. Values(num, d, base, k)
  BY <1>8, <1>9, Zenon
<1>11. num[k] \in Int
  <2> HIDE DEF d, num
  <2> QED BY <1>4, <1>6, <1>7, <1>10, ValuesTyped, Zenon
<1> HIDE DEF num
<1> QED BY <1>1, <1>11

LEMMA DivShrinks ==
    ASSUME NEW m \in Nat, NEW b \in Nat \ {0, 1}, NEW i \in 0 .. m, ~(i < b)
    PROVE  i \div b \in 0 .. m /\ i \div b < i
<1>1. i \div b \in Nat /\ i % b \in 0 .. b - 1 /\ i = b * (i \div b) + (i % b) /\ i \in Nat
  <2>1. i \in Nat /\ b \in Nat \ {0}
    OBVIOUS
  <2> QED BY <2>1, DivMod, Zenon
<1> DEFINE q == i \div b
<1> HIDE DEF q
<1>2. q \in Nat /\ b * q <= i
  BY <1>1 DEF q
<1>3. q = 0 \/ 2 * q <= b * q
  BY <1>2
<1>4. q < i
  BY <1>2, <1>3
<1> QED BY <1>2, <1>4 DEF q

\* The digits of a number, from its last on.
Numerals(f, d, b, n) ==
    f = [m \in 0 .. n |-> IF m < b THEN <<d[m + 1]>> ELSE Append(f[m \div b], d[(m % b) + 1])]

LEMMA NumeralsExist ==
    ASSUME NEW b \in Nat \ {0, 1}, NEW n \in Nat, NEW d
    PROVE  \A k \in 0 .. n : \E f : Numerals(f, d, b, k)
<1> DEFINE Bad == {k \in 0 .. n : ~ \E f : Numerals(f, d, b, k)}
<1>1. ASSUME Bad # {} PROVE FALSE
  <2>1. Bad \in SUBSET Nat
    OBVIOUS
  <2> DEFINE m == Min(Bad)
  <2>2. m \in Bad /\ \A y \in Bad : m <= y
    BY <1>1, <2>1, MinNat, Zenon
  <2> HIDE DEF m
  <2>3. CASE m = 0
    <3> DEFINE g == [i \in 0 .. 0 |-> <<d[1]>>]
    <3>1. g = [i \in 0 .. 0 |-> IF i < b THEN <<d[i + 1]>> ELSE Append(g[i \div b], d[(i % b) + 1])]
      OBVIOUS
    <3>2. Numerals(g, d, b, 0)
      BY <3>1, Zenon DEF Numerals
    <3> QED BY <2>2, <2>3, <3>2, Zenon
  <2>4. CASE m # 0
    <3>0. m \in 0 .. n /\ \A y \in Bad : m <= y
      BY <2>2, Zenon
    <3>1. m - 1 \in 0 .. n /\ m - 1 \notin Bad /\ m \in Nat
      <4> HIDE DEF Bad
      <4> QED BY <3>0, <2>4
    <3>2. PICK f : Numerals(f, d, b, m - 1)
      BY <3>1, Zenon
    <3> DEFINE last == IF m < b THEN <<d[m + 1]>> ELSE Append(f[m \div b], d[(m % b) + 1])
               g == [i \in 0 .. m |-> IF i = m THEN last ELSE f[i]]
    <3>3. \A i \in 0 .. m - 1 : f[i] = IF i < b THEN <<d[i + 1]>> ELSE Append(f[i \div b], d[(i % b) + 1])
      BY <3>2, Zenon DEF Numerals
    <3>4. \A i \in 0 .. m : ~(i < b) => i \div b \in 0 .. m /\ i \div b # m
      BY <3>1, DivShrinks
    <3>5. \A i \in 0 .. m : g[i] = IF i < b THEN <<d[i + 1]>> ELSE Append(g[i \div b], d[(i % b) + 1])
      <4> TAKE i \in 0 .. m
      <4> DEFINE q == i \div b
                 r == i % b
      <4>1. ~(i < b) => g[q] = f[q]
        BY <3>4, Zenon
      <4>2. CASE i = m
        BY <4>1, <4>2, Zenon
      <4>3. CASE i # m
        <5>1. i \in 0 .. m - 1
          BY <3>1, <4>3
        <5>2. g[i] = f[i]
          BY <4>3, Zenon
        <5> QED BY <4>1, <5>1, <5>2, <3>3, Zenon
      <4> QED BY <4>2, <4>3
    <3>6. g = [i \in 0 .. m |-> IF i < b THEN <<d[i + 1]>> ELSE Append(g[i \div b], d[(i % b) + 1])]
      <4>1. g = [i \in 0 .. m |-> g[i]]
        OBVIOUS
      <4> HIDE DEF g
      <4> QED BY <4>1, <3>5, Zenon
    <3>7. Numerals(g, d, b, m)
      BY <3>6, Zenon DEF Numerals
    <3> QED BY <2>2, <3>7, Zenon
  <2> QED BY <2>3, <2>4
<1> QED BY <1>1, Zenon

LEMMA NumeralsTyped ==
    ASSUME NEW S, NEW b \in Nat \ {0, 1}, NEW n \in Nat, NEW d \in [1 .. b -> S], NEW f, Numerals(f, d, b, n)
    PROVE  f[n] \in Seq(S)
<1>1. \A i \in 0 .. n : f[i] = IF i < b THEN <<d[i + 1]>> ELSE Append(f[i \div b], d[(i % b) + 1])
  BY Zenon DEF Numerals
<1> DEFINE Bad == {i \in 0 .. n : f[i] \notin Seq(S)}
<1>2. ASSUME Bad # {} PROVE FALSE
  <2>1. Bad \in SUBSET Nat
    OBVIOUS
  <2> DEFINE m == Min(Bad)
  <2>2. m \in Bad /\ \A y \in Bad : m <= y
    BY <1>2, <2>1, MinNat, Zenon
  <2> HIDE DEF m
  <2>3. m \in 0 .. n /\ f[m] \notin Seq(S)
    BY <2>2, Zenon
  <2>4. f[m] = IF m < b THEN <<d[m + 1]>> ELSE Append(f[m \div b], d[(m % b) + 1])
    BY <1>1, <2>3, Zenon
  <2>5. CASE m < b
    <3>1. m + 1 \in 1 .. b
      BY <2>3, <2>5
    <3>2. d[m + 1] \in S
      BY <3>1
    <3> QED BY <2>3, <2>4, <2>5, <3>2
  <2>6. CASE ~(m < b)
    <3> DEFINE q == m \div b
               r == (m % b) + 1
    <3>0. q \in 0 .. n /\ q < m
      BY <2>3, <2>6, DivShrinks, Zenon
    <3>1. q \in 0 .. n /\ ~(m <= q)
      <4> HIDE DEF q
      <4> QED BY <2>3, <3>0
    <3>2. r \in 1 .. b
      BY <2>3
    <3> HIDE DEF q, r
    <3>3. q \notin Bad
      BY <2>2, <3>1, Zenon
    <3>4. f[q] \in Seq(S) /\ d[r] \in S
      BY <3>1, <3>2, <3>3
    <3>5. Append(f[q], d[r]) \in Seq(S)
      BY <3>4
    <3> QED BY <2>3, <2>4, <2>6, <3>5, Zenon DEF q, r
  <2> QED BY <2>5, <2>6
<1>3. n \in 0 .. n
  OBVIOUS
<1> QED BY <1>2, <1>3, Zenon

LEMMA GreaterTyped ==
    ASSUME NEW w \in Int
    PROVE  Greater(0, w) \in Nat
BY DEF Greater

\* The text of a number is a text, whatever base, width and flags.
LEMMA FmtIntTyped ==
    ASSUME NEW num \in Int, NEW base \in {2, 8, 10, 16}, NEW width \in Int, NEW flags0
    PROVE  IsText(fmt_int(num, base, width, flags0))
<1> DEFINE flags == IF "left" \in flags0 THEN flags0 \ {"zero"} ELSE flags0
           digits == IF "small" \in flags THEN LDIGITS ELSE DIGITS
           negative == "signed" \in flags /\ num < 0
           n == (IF negative THEN -num ELSE num) % Word
           sign == CASE negative -> <<"-">>
                     [] ~negative /\ "plus" \in flags -> <<"+">>
                     [] ~negative /\ "plus" \notin flags /\ "space" \in flags -> <<" ">>
                     [] OTHER -> << >>
           nbuf == CHOOSE f : f = [m \in 0 .. n |-> IF m < base THEN <<digits[m + 1]>>
                                    ELSE Append(f[m \div base], digits[(m % base) + 1])]
           prefix == CASE "alternate" \in flags /\ base = 8 -> <<"0">>
                       [] "alternate" \in flags /\ base = 16 ->
                           <<"0", IF "small" \in flags THEN "x" ELSE "X">>
                       [] OTHER -> << >>
           altb == sign \o prefix
           npad == Greater(0, width - Len(nbuf[n]) - Len(altb))
<1>1. fmt_int(num, base, width, flags0) = Aligned(flags, npad, altb, nbuf[n])
  BY Zenon DEF fmt_int
<1> HIDE DEF flags
<1>2. n \in Nat
  BY PrintfAssumption
<1>3. base \in Nat \ {0, 1}
  OBVIOUS
<1> HIDE DEF digits, n
<1> DEFINE S == {digits[i] : i \in 1 .. base}
           d == [i \in 1 .. base |-> digits[i]]
<1>6. d \in [1 .. base -> S]
  OBVIOUS
<1>7. \A f : Numerals(f, d, base, n)
         <=> f = [m \in 0 .. n |-> IF m < base THEN <<digits[m + 1]>>
                                    ELSE Append(f[m \div base], digits[(m % base) + 1])]
  <2> TAKE f
  <2>1. \A m \in 0 .. n : (m < base => d[m + 1] = digits[m + 1]) /\ d[(m % base) + 1] = digits[(m % base) + 1]
    <3> TAKE m \in 0 .. n
    <3>1. (m < base => m + 1 \in 1 .. base) /\ (m % base) + 1 \in 1 .. base
      BY <1>2
    <3> QED BY <3>1, Zenon
  <2> HIDE DEF d
  <2>2. [m \in 0 .. n |-> IF m < base THEN <<d[m + 1]>> ELSE Append(f[m \div base], d[(m % base) + 1])]
        = [m \in 0 .. n |-> IF m < base THEN <<digits[m + 1]>> ELSE Append(f[m \div base], digits[(m % base) + 1])]
    BY <2>1, Zenon
  <2> QED BY <2>2, Zenon DEF Numerals
<1> HIDE DEF d, S
<1>8. \E f : Numerals(f, d, base, n)
  <2>1. n \in 0 .. n
    BY <1>2
  <2> QED BY <1>2, <1>3, <2>1, NumeralsExist, Zenon
<1>9. Numerals(nbuf, d, base, n)
  BY <1>7, <1>8, Zenon
<1> HIDE DEF nbuf
<1>10. IsText(nbuf[n])
  BY <1>2, <1>3, <1>6, <1>9, NumeralsTyped, Zenon DEF IsText
<1>11. sign \in {<<"-">>, <<"+">>, <<" ">>, << >>}
  BY Zenon
<1>12. prefix \in {<<"0">>, <<"0", "x">>, <<"0", "X">>, << >>}
  BY Zenon
<1> HIDE DEF sign, prefix
<1>13. IsText(sign) /\ IsText(prefix)
  BY <1>11, <1>12, TextFew, Zenon
<1>14. IsText(altb)
  BY <1>13, TextConcat, Zenon
<1> DEFINE number == nbuf[n]
<1> HIDE DEF altb, number
<1>15. npad \in Nat
  <2>1. width - Len(number) - Len(altb) \in Int
    BY <1>10, <1>14, TextLen DEF number
  <2> QED BY <2>1, GreaterTyped, Zenon DEF number
<1> HIDE DEF npad
<1>16. IsText(Repeat(" ", npad)) /\ IsText(Repeat("0", npad))
  BY <1>15, TextRepeat, Zenon
<1>17. Aligned(flags, npad, altb, number) \in
         {altb \o number \o Repeat(" ", npad), altb \o Repeat("0", npad) \o number,
          Repeat(" ", npad) \o altb \o number}
  BY Zenon DEF Aligned
<1>18. IsText(number)
  BY <1>10 DEF number
<1>19. IsText(Aligned(flags, npad, altb, number))
  BY <1>14, <1>16, <1>17, <1>18, TextConcat, Zenon
<1> QED BY <1>1, <1>19, Zenon DEF number

LEMMA FmtStrTyped ==
    ASSUME NEW text, IsText(text), NEW width \in Int, NEW flags
    PROVE  IsText(fmt_str(text, width, flags))
<1> DEFINE pad == Repeat(" ", Greater(0, width - Len(text)))
<1>1. IsText(pad)
  <2>1. width - Len(text) \in Int
    BY TextLen
  <2> QED BY <2>1, GreaterTyped, TextRepeat, Zenon
<1>2. fmt_str(text, width, flags) = IF "left" \in flags THEN text \o pad ELSE pad \o text
  BY Zenon DEF fmt_str
<1> HIDE DEF pad
<1> QED BY <1>1, <1>2, TextConcat, Zenon

\* Without a width a text is put as it is.
LEMMA FmtStrIs ==
    ASSUME NEW text, IsText(text)
    PROVE  fmt_str(text, 0, {}) = text
<1>1. Greater(0, 0 - Len(text)) = 0
  BY TextLen DEF Greater
<1>2. Repeat(" ", 0) = << >>
  BY DEF Repeat
<1>3. fmt_str(text, 0, {}) = << >> \o text
  BY <1>1, <1>2, Zenon DEF fmt_str
<1> QED BY <1>3 DEF IsText

-----------------------------------------------------------------------------
\* The parts of an iteration.
With(v, fmt, ap, state, flags, width, lflags) ==
    [fmt |-> fmt, ap |-> ap, size |-> v.size, buf |-> v.buf, n |-> v.n, state |-> state,
     flags |-> flags, width |-> width, lflags |-> lflags, ret |-> v.ret]

LEMMA WithOk ==
    ASSUME NEW v, Ok(v), NEW fmt, IsText(fmt), NEW width \in Int, NEW ap, NEW state, NEW flags, NEW lflags,
           NEW w, w = With(v, fmt, ap, state, flags, width, lflags)
    PROVE  /\ Ok(w) /\ w.ret = v.ret /\ w.size = v.size /\ w.n = v.n /\ w.fmt = fmt /\ w.ap = ap
           /\ w.state = state /\ w.flags = flags /\ w.width = width
<1>1. /\ w.ret = v.ret /\ w.size = v.size /\ w.n = v.n /\ w.fmt = fmt /\ w.ap = ap
      /\ w.state = state /\ w.flags = flags /\ w.width = width /\ w.lflags = lflags /\ w.buf = v.buf
  BY DEF With
<1>2. IsCall(w)
  <2>1. w = [fmt |-> fmt, ap |-> ap, size |-> v.size, buf |-> v.buf, n |-> v.n, state |-> state,
             flags |-> flags, width |-> width, lflags |-> lflags, ret |-> v.ret]
    BY DEF With
  <2> QED BY <1>1, <2>1, Zenon DEF IsCall
<1>3. Ok(w)
  BY <1>1, <1>2, Zenon DEF Ok
<1> QED BY <1>1, <1>3, Zenon

LEMMA BputcOk ==
    ASSUME NEW v, Ok(v), NEW text, IsText(text)
    PROVE  LET w == bputc(v, text) IN
           /\ Ok(w) /\ w.ret = v.ret /\ w.size = v.size /\ w.n = v.n + Len(text) /\ w.fmt = v.fmt
           /\ w.state = v.state
<1> DEFINE w == bputc(v, text)
           n == v.n + Len(text)
           buf == [i \in DOMAIN v.buf |->
                     IF i - v.n + 1 \in DOMAIN text /\ Stored(i, v.size) THEN text[i - v.n + 1] ELSE v.buf[i]]
<1>1. w = [v EXCEPT !.n = n, !.buf = buf]
  BY Zenon DEF bputc
<1>2. IsCall(v)
  BY Zenon DEF Ok
<1>3. DOMAIN v.buf = 0 .. Room - 1 /\ v.size \in 0 .. Room /\ Room \in Nat
      /\ \A i \in v.size .. Room - 1 : v.buf[i] = NULL
  BY PrintfAssumption DEF Ok, Watched
<1>4. buf = [i \in 0 .. Room - 1 |-> buf[i]]
  BY <1>3
<1>5. \A i \in v.size .. Room - 1 : buf[i] = NULL
  <2> TAKE i \in v.size .. Room - 1
  <2>1. ~(i < v.size) /\ i \in 0 .. Room - 1
    BY <1>3
  <2>2. v.buf[i] = NULL
    BY <1>3
  <2> QED BY <1>3, <2>1, <2>2, Zenon DEF Stored
<1> HIDE DEF n, buf
<1>6. w = [fmt |-> v.fmt, ap |-> v.ap, size |-> v.size, buf |-> buf, n |-> n, state |-> v.state,
           flags |-> v.flags, width |-> v.width, lflags |-> v.lflags, ret |-> v.ret]
  BY <1>1, <1>2 DEF IsCall
<1> HIDE DEF w
<1>7. /\ w.fmt = v.fmt /\ w.ap = v.ap /\ w.size = v.size /\ w.buf = buf /\ w.n = n /\ w.state = v.state
      /\ w.flags = v.flags /\ w.width = v.width /\ w.lflags = v.lflags /\ w.ret = v.ret
  BY <1>6
<1>8. IsCall(w)
  BY <1>6, <1>7, Zenon DEF IsCall
<1>9. n \in Nat
  BY TextLen DEF n, Ok
<1>10. Ok(w)
  BY <1>4, <1>5, <1>7, <1>8, <1>9, Zenon DEF Ok, Watched
<1> QED BY <1>7, <1>10, Zenon DEF w, n

LEMMA TerminatedOk ==
    ASSUME NEW v, Ok(v)
    PROVE  LET w == Terminated(v) IN
           /\ Ok(w) /\ Ended(w) /\ w.size = v.size /\ w.ret = Signed((v.n - 1) % Word)
<1> DEFINE w == Terminated(v)
           n == (v.n - 1) % Word
           ret == Signed(n)
           buf == CASE n < v.size -> [v.buf EXCEPT ![n] = NUL]
                    [] n >= v.size /\ v.size > 0 -> [v.buf EXCEPT ![v.size - 1] = NUL]
                    [] OTHER -> v.buf
<1>1. w = [v EXCEPT !.n = n, !.ret = ret, !.buf = buf]
  BY Zenon DEF Terminated
<1>2. IsCall(v)
  BY Zenon DEF Ok
<1>3. DOMAIN v.buf = 0 .. Room - 1 /\ v.size \in 0 .. Room /\ Room \in Nat
      /\ (\A i \in v.size .. Room - 1 : v.buf[i] = NULL) /\ v.buf = [i \in 0 .. Room - 1 |-> v.buf[i]]
  BY PrintfAssumption DEF Ok, Watched
<1>4. n \in Nat
  BY PrintfAssumption DEF Ok
<1>5. Watched(buf, v.size) /\ (v.size > 0 => \E i \in 0 .. v.size - 1 : buf[i] = NUL)
  <2> DEFINE b == v.buf
             z == v.size
  <2> HIDE DEF n, b, z
  <2>1. z \in 0 .. Room /\ Room \in Nat /\ (\A i \in z .. Room - 1 : b[i] = NULL) /\ b = [i \in 0 .. Room - 1 |-> b[i]]
    BY <1>3, Zenon DEF b, z
  <2>2. ASSUME NEW k \in 0 .. z - 1
        PROVE  LET c == [b EXCEPT ![k] = NUL] IN Watched(c, z) /\ c[k] = NUL
    <3> DEFINE c == [b EXCEPT ![k] = NUL]
    <3>1. k \in 0 .. Room - 1 /\ DOMAIN b = 0 .. Room - 1
      BY <2>1
    <3>2. c = [i \in 0 .. Room - 1 |-> IF i = k THEN NUL ELSE b[i]]
      BY <2>1, <3>1
    <3> HIDE DEF c
    <3>3. c = [i \in 0 .. Room - 1 |-> c[i]]
      BY <3>2
    <3>4. c[k] = NUL
      BY <3>1, <3>2
    <3>5. \A i \in z .. Room - 1 : i \in 0 .. Room - 1 /\ i # k
      BY <2>1
    <3>6. \A i \in z .. Room - 1 : c[i] = NULL
      BY <2>1, <3>2, <3>5, Zenon
    <3> QED BY <3>3, <3>4, <3>6, Zenon DEF Watched, c
  <2>3. CASE n < z
    <3>1. n \in 0 .. z - 1
      BY <1>4, <2>1, <2>3
    <3>2. buf = [b EXCEPT ![n] = NUL]
      <4>1. ~(n >= z /\ z > 0)
        BY <1>4, <2>1, <2>3
      <4> QED BY <2>3, <4>1, Zenon DEF b, z
    <3> QED BY <2>2, <3>1, <3>2, Zenon DEF z
  <2>4. CASE ~(n < z) /\ z > 0
    <3>1. z - 1 \in 0 .. z - 1 /\ n >= z
      BY <1>4, <2>1, <2>4
    <3>2. buf = [b EXCEPT ![z - 1] = NUL]
      BY <2>4, <3>1, Zenon DEF b, z
    <3> QED BY <2>2, <3>1, <3>2, Zenon DEF z
  <2>5. CASE ~(n < z) /\ ~(z > 0)
    <3>1. buf = b
      BY <2>5, Zenon DEF b, z
    <3> QED BY <2>1, <2>5, <3>1, Zenon DEF Watched, z
  <2> QED BY <2>3, <2>4, <2>5
<1> HIDE DEF n, ret, buf
<1>6. w = [fmt |-> v.fmt, ap |-> v.ap, size |-> v.size, buf |-> buf, n |-> n, state |-> v.state,
           flags |-> v.flags, width |-> v.width, lflags |-> v.lflags, ret |-> ret]
  BY <1>1, <1>2 DEF IsCall
<1> HIDE DEF w
<1>7. /\ w.fmt = v.fmt /\ w.ap = v.ap /\ w.size = v.size /\ w.buf = buf /\ w.n = n /\ w.state = v.state
      /\ w.flags = v.flags /\ w.width = v.width /\ w.lflags = v.lflags /\ w.ret = ret
  BY <1>6
<1>8. IsCall(w)
  BY <1>6, <1>7, Zenon DEF IsCall
<1>9. Ok(w) /\ Ended(w)
  BY <1>4, <1>5, <1>7, <1>8, Zenon DEF Ok, Ended
<1> QED BY <1>7, <1>9, Zenon DEF w, ret, n

\* An iteration that leaves v: the call goes on, or ends.
LEMMA IteratedOk ==
    ASSUME NEW c, NEW v, Ok(v), v.ret = NULL, Iterated(c, v), vs # NULL
    PROVE  /\ vs' # NULL => Ok(vs') /\ vs'.size = v.size
           /\ vs' # NULL /\ vs'.ret # NULL => Ended(vs')
<1>1. CASE c = NUL
  BY <1>1, TerminatedOk, Zenon DEF Iterated
<1>2. CASE c # NUL
  BY <1>2, Zenon DEF Iterated
<1> QED BY <1>1, <1>2

\* w is t but for what is given.
Changed(t, w, fmt, ap, state, flags, width, lflags) ==
    /\ Ok(w) /\ w.ret = t.ret /\ w.size = t.size /\ w.n = t.n
    /\ w.fmt = fmt /\ w.ap = ap /\ w.state = state /\ w.flags = flags /\ w.width = width

LEMMA SetFmt ==
    ASSUME NEW t, Ok(t), NEW x, IsText(x), NEW w, w = [t EXCEPT !.fmt = x]
    PROVE  Changed(t, w, x, t.ap, t.state, t.flags, t.width, t.lflags)
<1>1. w = With(t, x, t.ap, t.state, t.flags, t.width, t.lflags)
  BY Zenon DEF Ok, IsCall, With
<1>2. IsText(x) /\ t.width \in Int
  BY Zenon DEF Ok
<1> QED BY <1>1, <1>2, WithOk, SMT DEF Changed

LEMMA SetStateFlags ==
    ASSUME NEW t, Ok(t), NEW x, NEW y, NEW w, w = [t EXCEPT !.state = x, !.flags = y]
    PROVE  Changed(t, w, t.fmt, t.ap, x, y, t.width, t.lflags)
<1>1. w = With(t, t.fmt, t.ap, x, y, t.width, t.lflags)
  BY Zenon DEF Ok, IsCall, With
<1>2. IsText(t.fmt) /\ t.width \in Int
  BY Zenon DEF Ok
<1> QED BY <1>1, <1>2, WithOk, SMT DEF Changed

LEMMA SetFlags ==
    ASSUME NEW t, Ok(t), NEW x, NEW w, w = [t EXCEPT !.flags = x]
    PROVE  Changed(t, w, t.fmt, t.ap, t.state, x, t.width, t.lflags)
<1>1. w = With(t, t.fmt, t.ap, t.state, x, t.width, t.lflags)
  BY Zenon DEF Ok, IsCall, With
<1>2. IsText(t.fmt) /\ t.width \in Int
  BY Zenon DEF Ok
<1> QED BY <1>1, <1>2, WithOk, SMT DEF Changed

LEMMA SetWidthState ==
    ASSUME NEW t, Ok(t), NEW x, NEW y, x \in Int, NEW w, w = [t EXCEPT !.width = x, !.state = y]
    PROVE  Changed(t, w, t.fmt, t.ap, y, t.flags, x, t.lflags)
<1>1. w = With(t, t.fmt, t.ap, y, t.flags, x, t.lflags)
  BY Zenon DEF Ok, IsCall, With
<1>2. IsText(t.fmt) /\ x \in Int
  BY Zenon DEF Ok
<1> QED BY <1>1, <1>2, WithOk, SMT DEF Changed

LEMMA SetApWidthFlags ==
    ASSUME NEW t, Ok(t), NEW x, NEW y, NEW z, y \in Int, NEW w, w = [t EXCEPT !.ap = x, !.width = y, !.flags = z]
    PROVE  Changed(t, w, t.fmt, x, t.state, z, y, t.lflags)
<1>1. w = With(t, t.fmt, x, t.state, z, y, t.lflags)
  BY Zenon DEF Ok, IsCall, With
<1>2. IsText(t.fmt) /\ y \in Int
  BY Zenon DEF Ok
<1> QED BY <1>1, <1>2, WithOk, SMT DEF Changed

LEMMA SetWidth ==
    ASSUME NEW t, Ok(t), NEW x, x \in Int, NEW w, w = [t EXCEPT !.width = x]
    PROVE  Changed(t, w, t.fmt, t.ap, t.state, t.flags, x, t.lflags)
<1>1. w = With(t, t.fmt, t.ap, t.state, t.flags, x, t.lflags)
  BY Zenon DEF Ok, IsCall, With
<1>2. IsText(t.fmt) /\ x \in Int
  BY Zenon DEF Ok
<1> QED BY <1>1, <1>2, WithOk, SMT DEF Changed

LEMMA SetState ==
    ASSUME NEW t, Ok(t), NEW x, NEW w, w = [t EXCEPT !.state = x]
    PROVE  Changed(t, w, t.fmt, t.ap, x, t.flags, t.width, t.lflags)
<1>1. w = With(t, t.fmt, t.ap, x, t.flags, t.width, t.lflags)
  BY Zenon DEF Ok, IsCall, With
<1>2. IsText(t.fmt) /\ t.width \in Int
  BY Zenon DEF Ok
<1> QED BY <1>1, <1>2, WithOk, SMT DEF Changed

LEMMA SetAp ==
    ASSUME NEW t, Ok(t), NEW x, NEW w, w = [t EXCEPT !.ap = x]
    PROVE  Changed(t, w, t.fmt, x, t.state, t.flags, t.width, t.lflags)
<1>1. w = With(t, t.fmt, x, t.state, t.flags, t.width, t.lflags)
  BY Zenon DEF Ok, IsCall, With
<1>2. IsText(t.fmt) /\ t.width \in Int
  BY Zenon DEF Ok
<1> QED BY <1>1, <1>2, WithOk, SMT DEF Changed

LEMMA SetLflagsState ==
    ASSUME NEW t, Ok(t), NEW x, NEW y, NEW w, w = [t EXCEPT !.lflags = x, !.state = y]
    PROVE  Changed(t, w, t.fmt, t.ap, y, t.flags, t.width, x)
<1>1. w = With(t, t.fmt, t.ap, y, t.flags, t.width, x)
  BY Zenon DEF Ok, IsCall, With
<1>2. IsText(t.fmt) /\ t.width \in Int
  BY Zenon DEF Ok
<1> QED BY <1>1, <1>2, WithOk, SMT DEF Changed

LEMMA SetLflags ==
    ASSUME NEW t, Ok(t), NEW x, NEW w, w = [t EXCEPT !.lflags = x]
    PROVE  Changed(t, w, t.fmt, t.ap, t.state, t.flags, t.width, x)
<1>1. w = With(t, t.fmt, t.ap, t.state, t.flags, t.width, x)
  BY Zenon DEF Ok, IsCall, With
<1>2. IsText(t.fmt) /\ t.width \in Int
  BY Zenon DEF Ok
<1> QED BY <1>1, <1>2, WithOk, SMT DEF Changed

LEMMA SetStateAp ==
    ASSUME NEW t, Ok(t), NEW x, NEW y, NEW w, w = [t EXCEPT !.state = x, !.ap = y]
    PROVE  Changed(t, w, t.fmt, y, x, t.flags, t.width, t.lflags)
<1>1. w = With(t, t.fmt, y, x, t.flags, t.width, t.lflags)
  BY Zenon DEF Ok, IsCall, With
<1>2. IsText(t.fmt) /\ t.width \in Int
  BY Zenon DEF Ok
<1> QED BY <1>1, <1>2, WithOk, SMT DEF Changed

\* The format behind its first k characters.
Rest(k) == SubSeq(vs.fmt, k + 1, Len(vs.fmt))

LEMMA SkipOk ==
    ASSUME Ok(vs), NEW k \in Nat
    PROVE  Changed(vs, Skip(k), Rest(k), vs.ap, vs.state, vs.flags, vs.width, vs.lflags)
<1> DEFINE w == Skip(k)
<1>1. w = [vs EXCEPT !.fmt = Rest(k)]
  BY Zenon DEF Skip, Rest
<1>2. IsText(Rest(k))
  <2>1. IsText(vs.fmt)
    BY Zenon DEF Ok
  <2> QED BY <2>1, TextSub, Zenon DEF Rest
<1> HIDE DEF w
<1>3. Changed(vs, w, Rest(k), vs.ap, vs.state, vs.flags, vs.width, vs.lflags)
  BY <1>1, <1>2, SetFmt, Zenon
<1> QED BY <1>3, Zenon DEF w

\* What an iteration may leave, before its end is looked at.
Kept(v) == Ok(v) /\ v.ret = NULL /\ v.size = vs.size

LEMMA SkipKept ==
    ASSUME Ok(vs), vs.ret = NULL, NEW k \in Nat
    PROVE  /\ Kept(Skip(k)) /\ Ok(Skip(k)) /\ Skip(k).fmt = Rest(k) /\ Skip(k).ap = vs.ap
           /\ Skip(k).state = vs.state /\ Skip(k).n = vs.n
BY SkipOk, Zenon DEF Changed, Kept

\* S_DEFAULT puts a character, or starts a conversion.
LEMMA DefaultOk ==
    ASSUME S_DEFAULT, Ok(vs)
    PROVE  \E v : /\ Kept(v) /\ Iterated(Head(vs.fmt), v) /\ v.fmt = Rest(1)
                  /\ Head(vs.fmt) = "%" =>
                        v.state = "S_FLAGS" /\ v.flags = {} /\ v.n = vs.n /\ v.ap = vs.ap
                  /\ Head(vs.fmt) # "%" => v.state = "S_DEFAULT" /\ v.n = vs.n + 1
<1> DEFINE c == Head(vs.fmt)
           s == Skip(1)
           a == [s EXCEPT !.state = "S_FLAGS", !.flags = {}]
           b == bputc(s, <<c>>)
<1>1. /\ vs.ret = NULL /\ vs.state = "S_DEFAULT"
      /\ (c = "%" /\ Iterated(c, a)) \/ (c # "%" /\ Iterated(c, b))
  BY Zenon DEF S_DEFAULT, In
<1> HIDE DEF c
<1>2. Kept(s) /\ Ok(s) /\ s.fmt = Rest(1) /\ s.ap = vs.ap /\ s.state = vs.state /\ s.n = vs.n
  <2>1. 1 \in Nat
    OBVIOUS
  <2> QED BY <1>1, <2>1, SkipKept, Zenon
<1> HIDE DEF s
<1>3. Kept(b) /\ b.fmt = Rest(1) /\ b.state = "S_DEFAULT" /\ b.n = vs.n + 1
  <2>1. IsText(<<c>>) /\ Len(<<c>>) = 1
    BY TextFew, Zenon
  <2>2. /\ Ok(b) /\ b.ret = s.ret /\ b.size = s.size /\ b.n = s.n + Len(<<c>>) /\ b.fmt = s.fmt
        /\ b.state = s.state
    BY <1>2, <2>1, BputcOk, Zenon
  <2> HIDE DEF b
  <2> QED BY <1>1, <1>2, <2>1, <2>2, Zenon DEF Kept
<1>4. Kept(a) /\ a.fmt = Rest(1) /\ a.state = "S_FLAGS" /\ a.flags = {} /\ a.n = vs.n /\ a.ap = vs.ap
  <2>1. a = [s EXCEPT !.state = "S_FLAGS", !.flags = {}]
    BY Zenon
  <2> HIDE DEF a
  <2>2. Changed(s, a, s.fmt, s.ap, "S_FLAGS", {}, s.width, s.lflags)
    BY <1>2, <2>1, SetStateFlags, Zenon
  <2> QED BY <1>2, <2>2, Zenon DEF Changed, Kept
<1> HIDE DEF a, b
<1> QED BY <1>1, <1>3, <1>4, Zenon DEF c

\* Nothing but the state changes until the letter of the conversion.
Passes(v, state) ==
    v.state = state /\ v.fmt = vs.fmt /\ v.ap = vs.ap /\ v.n = vs.n /\ v.flags = vs.flags

LEMMA FlagsOk ==
    ASSUME S_FLAGS, Ok(vs)
    PROVE  \E v : /\ Kept(v) /\ Iterated(Head(vs.fmt), v)
                  /\ Head(vs.fmt) = "s" => Passes(v, "S_WIDTH") /\ v.width = 0
<1> DEFINE c == Head(vs.fmt)
           s == Skip(1)
           x == s.flags \cup {FLAG[c]}
           a == [s EXCEPT !.flags = x]
           b == [vs EXCEPT !.width = 0, !.state = "S_WIDTH"]
<1>1. vs.ret = NULL /\ ((c # "s" /\ Iterated(c, a)) \/ (c # "s" /\ Iterated(c, s)) \/ Iterated(c, b))
  <2>1. "s" \notin DOMAIN FLAG /\ "s" \notin {"'", "I"}
    BY DEF FLAG
  <2> DEFINE v == CASE c \in DOMAIN FLAG -> a [] c \in {"'", "I"} -> s [] OTHER -> b
  <2>2. vs.ret = NULL /\ Iterated(c, v)
    BY Zenon DEF S_FLAGS, In
  <2> HIDE DEF a, b, s, c
  <2>3. CASE c \in DOMAIN FLAG
    <3>1. c \notin {"'", "I"} /\ c # "s"
      BY <2>3 DEF FLAG
    <3>2. v = a
      BY <2>3, <3>1, Zenon
    <3> HIDE DEF v
    <3> QED BY <2>2, <3>1, <3>2, Zenon
  <2>4. CASE c \notin DOMAIN FLAG /\ c \in {"'", "I"}
    <3>1. v = s
      BY <2>4, Zenon
    <3> HIDE DEF v
    <3> QED BY <2>1, <2>2, <2>4, <3>1, Zenon
  <2>5. CASE c \notin DOMAIN FLAG /\ c \notin {"'", "I"}
    <3>1. v = b
      BY <2>5, Zenon
    <3> HIDE DEF v
    <3> QED BY <2>2, <3>1, Zenon
  <2> HIDE DEF v
  <2> QED BY <2>3, <2>4, <2>5, Zenon
<1>2. Kept(s) /\ Ok(s)
  <2>1. 1 \in Nat
    OBVIOUS
  <2> QED BY <1>1, <2>1, SkipKept, Zenon
<1> HIDE DEF s, c
<1>3. Kept(a)
  <2>1. a = [s EXCEPT !.flags = x]
    BY Zenon
  <2> HIDE DEF a, x
  <2>2. Changed(s, a, s.fmt, s.ap, s.state, x, s.width, s.lflags)
    BY <1>2, <2>1, SetFlags, Zenon
  <2> QED BY <1>2, <2>2, Zenon DEF Changed, Kept
<1>4. Kept(b) /\ Passes(b, "S_WIDTH") /\ b.width = 0
  <2>1. b = [vs EXCEPT !.width = 0, !.state = "S_WIDTH"] /\ 0 \in Int
    OBVIOUS
  <2> HIDE DEF b
  <2>2. Changed(vs, b, vs.fmt, vs.ap, "S_WIDTH", vs.flags, 0, vs.lflags)
    BY <2>1, SetWidthState, Zenon
  <2> QED BY <1>1, <2>2, Zenon DEF Changed, Kept, Passes
<1> HIDE DEF a, b
<1> QED BY <1>1, <1>2, <1>3, <1>4, Zenon DEF c

LEMMA NumberIs ==
    ASSUME NEW w, Number(w)
    PROVE  w \in Int /\ Signed(w) \in Int
BY PrintfAssumption DEF Number, Signed

LEMMA NotDigit == ~is_digit("s")
BY DEF is_digit, DIGITS

LEMMA WidthOk ==
    ASSUME S_WIDTH, Ok(vs), Head(vs.fmt) = "*" => Number(Head(vs.ap))
    PROVE  \E v : /\ Kept(v) /\ Iterated(Head(vs.fmt), v)
                  /\ Head(vs.fmt) = "s" => Passes(v, "S_PRECIS") /\ v.width = vs.width
<1> DEFINE c == Head(vs.fmt)
           star == Signed(Head(vs.ap))
           k == DigitsAhead(vs.fmt)
           s == Skip(1)
           r == Skip(k)
           x == Tail(s.ap)
           y == Greater(star, -star)
           z == IF star < 0 THEN s.flags \cup {"left"} ELSE s.flags
           w == get_atoi(vs.fmt)
           a == [s EXCEPT !.ap = x, !.width = y, !.flags = z]
           b == [r EXCEPT !.width = w]
           d == [vs EXCEPT !.state = "S_PRECIS"]
<1>1. /\ vs.ret = NULL
      /\ (c = "*" /\ Iterated(c, a)) \/ (c # "s" /\ Iterated(c, b)) \/ Iterated(c, d)
  BY NotDigit, Zenon DEF S_WIDTH, In
<1>2. 1 \in Nat /\ IsText(vs.fmt)
  BY Zenon DEF Ok
<1>3. k \in Nat /\ w \in Int
  <2>1. PICK S : vs.fmt \in Seq(S)
    BY <1>2, Zenon DEF IsText
  <2>2. k \in 0 .. Len(vs.fmt) /\ w \in Int
    BY <2>1, DigitsAheadTyped, AtoiTyped, Zenon
  <2> HIDE DEF k
  <2> QED BY <2>2
<1> HIDE DEF k, w
<1>4. Kept(s) /\ Ok(s) /\ Kept(r) /\ Ok(r)
  BY <1>1, <1>2, <1>3, SkipKept, Zenon
<1> HIDE DEF s, r
<1>5. ASSUME c = "*" PROVE Kept(a)
  <2>1. star \in Int
    BY <1>5, NumberIs, Zenon
  <2> HIDE DEF star
  <2>2. y \in Int
    BY <2>1 DEF Greater
  <2>3. a = [s EXCEPT !.ap = x, !.width = y, !.flags = z]
    BY Zenon
  <2> HIDE DEF a, x, y, z
  <2>4. Changed(s, a, s.fmt, x, s.state, z, y, s.lflags)
    BY <1>4, <2>2, <2>3, SetApWidthFlags, Zenon
  <2> QED BY <1>4, <2>4, Zenon DEF Changed, Kept
<1>6. Kept(b)
  <2>1. b = [r EXCEPT !.width = w]
    BY Zenon
  <2> HIDE DEF b
  <2>2. Changed(r, b, r.fmt, r.ap, r.state, r.flags, w, r.lflags)
    BY <1>3, <1>4, <2>1, SetWidth, Zenon
  <2> QED BY <1>4, <2>2, Zenon DEF Changed, Kept
<1>7. Kept(d) /\ Passes(d, "S_PRECIS") /\ d.width = vs.width
  <2>1. d = [vs EXCEPT !.state = "S_PRECIS"]
    BY Zenon
  <2> HIDE DEF d
  <2>2. Changed(vs, d, vs.fmt, vs.ap, "S_PRECIS", vs.flags, vs.width, vs.lflags)
    BY <2>1, SetState, Zenon
  <2> QED BY <1>1, <2>2, Zenon DEF Changed, Kept, Passes
<1>8. c = "*" => c # "s"
  OBVIOUS
<1> HIDE DEF a, b, c, d
<1> QED BY <1>1, <1>5, <1>6, <1>7, <1>8, Zenon DEF c

LEMMA PrecisOk ==
    ASSUME S_PRECIS, Ok(vs)
    PROVE  \E v : /\ Kept(v) /\ Iterated(Head(vs.fmt), v)
                  /\ Head(vs.fmt) = "s" => Passes(v, "S_LENGTH") /\ v.width = vs.width
<1> DEFINE c == Head(vs.fmt)
           s == Skip(1)
           k == DigitsAhead(s.fmt)
           x == Tail(s.ap)
           t == IF c # "." THEN vs ELSE IF vs.fmt[2] = "*" THEN [s EXCEPT !.ap = x] ELSE Skip(1 + k)
           v == [t EXCEPT !.lflags = 0, !.state = "S_LENGTH"]
<1>1. vs.ret = NULL /\ Iterated(c, v)
  BY Zenon DEF S_PRECIS, In
<1>2. Kept(vs) /\ 1 \in Nat
  BY <1>1, Zenon DEF Kept
<1>3. Kept(s) /\ Ok(s) /\ s.fmt = Rest(1)
  BY <1>1, <1>2, SkipKept, Zenon
<1> HIDE DEF s
<1>4. 1 + k \in Nat
  <2>1. PICK S : s.fmt \in Seq(S)
    BY <1>3, Zenon DEF Ok, IsText
  <2>2. k \in 0 .. Len(s.fmt)
    BY <2>1, DigitsAheadTyped, Zenon
  <2> HIDE DEF k
  <2> QED BY <2>2
<1> HIDE DEF k
<1>5. Kept(Skip(1 + k))
  BY <1>1, <1>4, SkipKept, Zenon
<1>6. Kept([s EXCEPT !.ap = x])
  <2> DEFINE a == [s EXCEPT !.ap = x]
  <2>1. a = [s EXCEPT !.ap = x]
    BY Zenon
  <2> HIDE DEF a, x
  <2>2. Changed(s, a, s.fmt, x, s.state, s.flags, s.width, s.lflags)
    BY <1>3, <2>1, SetAp, Zenon
  <2>3. Kept(a)
    BY <1>3, <2>2, Zenon DEF Changed, Kept
  <2> QED BY <2>3, Zenon DEF a
<1>7. Kept(t) /\ (c = "s" => t = vs)
  <2>1. c = "s" => c # "."
    OBVIOUS
  <2> QED BY <1>2, <1>5, <1>6, <2>1, Zenon
<1>8. v = [t EXCEPT !.lflags = 0, !.state = "S_LENGTH"]
  BY Zenon
<1> HIDE DEF t, v, c
<1>9. Changed(t, v, t.fmt, t.ap, "S_LENGTH", t.flags, t.width, 0)
  BY <1>7, <1>8, SetLflagsState, Zenon DEF Kept
<1>10. Kept(v) /\ (c = "s" => Passes(v, "S_LENGTH") /\ v.width = vs.width)
  BY <1>7, <1>9, Zenon DEF Changed, Kept, Passes
<1> QED BY <1>1, <1>10, Zenon DEF c

LEMMA LengthOk ==
    ASSUME S_LENGTH, Ok(vs)
    PROVE  \E v : /\ Kept(v) /\ Iterated(Head(vs.fmt), v)
                  /\ Head(vs.fmt) = "s" => Passes(v, "S_CONV") /\ v.width = vs.width
<1> DEFINE c == Head(vs.fmt)
           s == Skip(1)
           x == IF s.lflags = L_CHAR THEN L_SHORT ELSE L_CHAR
           y == IF s.lflags = L_LONG THEN L_LLONG ELSE L_LONG
           set(l) == [s EXCEPT !.lflags = l]
           d == [vs EXCEPT !.state = "S_CONV"]
           v == CASE c = "h" -> set(x) [] c = "l" -> set(y) [] c = "L" -> set(L_DOUBLE) [] OTHER -> d
<1>1. vs.ret = NULL /\ Iterated(c, v)
  BY Zenon DEF S_LENGTH, In
<1>2. Kept(s) /\ Ok(s)
  <2>1. 1 \in Nat
    OBVIOUS
  <2> QED BY <1>1, <2>1, SkipKept, Zenon
<1> HIDE DEF s, x, y
<1>3. ASSUME NEW l PROVE Kept(set(l))
  <2> DEFINE a == set(l)
  <2>1. a = [s EXCEPT !.lflags = l]
    BY Zenon
  <2> HIDE DEF a
  <2>2. Changed(s, a, s.fmt, s.ap, s.state, s.flags, s.width, l)
    BY <1>2, <2>1, SetLflags, Zenon
  <2>3. Kept(a)
    BY <1>2, <2>2, Zenon DEF Changed, Kept
  <2> QED BY <2>3, Zenon DEF a
<1>4. Kept(d) /\ Passes(d, "S_CONV") /\ d.width = vs.width
  <2>1. d = [vs EXCEPT !.state = "S_CONV"]
    BY Zenon
  <2> HIDE DEF d
  <2>2. Changed(vs, d, vs.fmt, vs.ap, "S_CONV", vs.flags, vs.width, vs.lflags)
    BY <2>1, SetState, Zenon
  <2> QED BY <1>1, <2>2, Zenon DEF Changed, Kept, Passes
<1>5. c = "s" => c # "h" /\ c # "l" /\ c # "L"
  OBVIOUS
<1> HIDE DEF set, d, c
<1>6. Kept(v) /\ (c = "s" => v = d)
  BY <1>3, <1>4, <1>5, Zenon
<1> HIDE DEF v
<1> QED BY <1>1, <1>4, <1>6, Zenon DEF c

LEMMA ConvertedOk ==
    ASSUME NEW c, NEW k, NEW text, Converted(c, k, text), Ok(vs), vs.ret = NULL, IsText(text)
    PROVE  \E v : /\ Kept(v) /\ Iterated(c, v)
                  /\ v.fmt = Rest(1) /\ v.state = "S_DEFAULT" /\ v.n = vs.n + Len(text)
<1> DEFINE s == Skip(1)
           x == SubSeq(s.ap, k + 1, Len(s.ap))
           t == [s EXCEPT !.state = "S_DEFAULT", !.ap = x]
           v == bputc(t, text)
<1>1. Iterated(c, v)
  BY Zenon DEF Converted
<1>2. Kept(s) /\ Ok(s) /\ s.fmt = Rest(1) /\ s.n = vs.n
  <2>1. 1 \in Nat
    OBVIOUS
  <2> QED BY <2>1, SkipKept, Zenon
<1> HIDE DEF s
<1>3. t = [s EXCEPT !.state = "S_DEFAULT", !.ap = x]
  BY Zenon
<1> HIDE DEF t, x
<1>4. Changed(s, t, s.fmt, x, "S_DEFAULT", s.flags, s.width, s.lflags)
  BY <1>2, <1>3, SetStateAp, Zenon
<1>5. Ok(t) /\ t.ret = NULL /\ t.size = vs.size /\ t.fmt = Rest(1) /\ t.n = vs.n /\ t.state = "S_DEFAULT"
  BY <1>2, <1>4, Zenon DEF Changed, Kept
<1>6. Ok(v) /\ v.ret = t.ret /\ v.size = t.size /\ v.n = t.n + Len(text) /\ v.fmt = t.fmt /\ v.state = t.state
  BY <1>5, BputcOk, Zenon
<1> HIDE DEF v
<1> QED BY <1>1, <1>5, <1>6, Zenon DEF Kept

NullText == <<"(", "n", "u", "l", "l", ")">>
Pointed(p) == IF p = NULL THEN NullText ELSE p

\* S_CONV: with arguments of the right kind, each conversion puts a text.
LEMMA ConvOk ==
    ASSUME S_CONV, Ok(vs), ArgsMatch, vs # NULL
    PROVE  \E c, v : /\ Kept(v) /\ Iterated(c, v)
                     /\ v.fmt = Rest(1) /\ v.state = "S_DEFAULT"
                     /\ Head(vs.fmt) = "s" =>
                          c = "s" /\ v.n = vs.n + Len(fmt_str(Pointed(vs.ap[1]), vs.width, vs.flags))
<1> DEFINE c == Head(vs.fmt)
           two == TwoWords
           number == IF two THEN SignedPair(vs.ap[1], vs.ap[2])
                     ELSE IF c \in {"d", "i"} \/ vs.lflags = L_LONG THEN Signed(vs.ap[1])
                     ELSE vs.ap[1]
           flags == vs.flags \cup CASE c \in {"d", "i"} -> {"signed"}
                                    [] c = "x" -> {"small"} [] OTHER -> {}
           words == IF two THEN 2 ELSE 1
           ptr == vs.flags \cup {"small", "alternate"}
           Number1 == fmt_int(number, BASE[c], vs.width, flags)
           Number2 == fmt_int(Signed(vs.ap[1]), 16, vs.width, ptr)
           Text1 == fmt_str(Pointed(vs.ap[1]), vs.width, vs.flags)
           Text2 == fmt_str(<<vs.ap[1]>>, vs.width, vs.flags)
           Leaves(e, v, text) == /\ Kept(v) /\ Iterated(e, v)
                                 /\ v.fmt = Rest(1) /\ v.state = "S_DEFAULT" /\ v.n = vs.n + Len(text)
<1>1. vs.ret = NULL /\ vs.state = "S_CONV" /\ vs.width \in Int
  BY Zenon DEF S_CONV, In, Ok
<1>2. \/ c \in DOMAIN BASE /\ Converted(c, words, Number1)
      \/ c = "p" /\ Converted(c, 1, Number2)
      \/ c = "s" /\ Converted(c, 1, Text1)
      \/ c # "s" /\ \E e, k, text : Converted(e, k, text) /\ text \in {Text2, <<"%">>, <<"%", c>>}
  BY Zenon DEF S_CONV, NullText, Pointed
<1>3. "s" \notin DOMAIN BASE
  BY DEF BASE
<1>4. ASSUME c \in DOMAIN BASE PROVE IsText(Number1)
  <2>1. Number(vs.ap[1]) /\ (two => Number(vs.ap[2]))
    BY <1>1, <1>4, Zenon DEF ArgsMatch
  <2>2. BASE[c] \in {2, 8, 10, 16}
    BY <1>4 DEF BASE
  <2>3. /\ vs.ap[1] \in Int /\ Signed(vs.ap[1]) \in Int
        /\ two => vs.ap[2] \in Int /\ Signed(vs.ap[2]) \in Int
    BY <2>1, NumberIs, Zenon
  <2>4. two => SignedPair(vs.ap[1], vs.ap[2]) \in Int
    BY <2>3, PrintfAssumption DEF SignedPair
  <2>5. number \in Int
    BY <2>3, <2>4, Zenon
  <2> HIDE DEF number, flags
  <2> QED BY <1>1, <2>2, <2>5, FmtIntTyped, Zenon
<1>5. ASSUME c = "p" PROVE IsText(Number2)
  <2>1. Number(vs.ap[1])
    BY <1>1, <1>5, Zenon DEF ArgsMatch
  <2>2. Signed(vs.ap[1]) \in Int /\ 16 \in {2, 8, 10, 16}
    BY <2>1, NumberIs, Zenon
  <2> QED BY <1>1, <2>2, FmtIntTyped, Zenon
<1>6. ASSUME c = "s" PROVE IsText(Text1)
  <2>1. vs.ap[1] = NULL \/ IsText(vs.ap[1])
    BY <1>1, <1>6, Zenon DEF ArgsMatch
  <2>2. NullText \in Seq({"(", "n", "u", "l", ")"})
    BY DEF NullText
  <2>3. IsText(Pointed(vs.ap[1]))
    BY <2>1, <2>2, Zenon DEF Pointed, IsText
  <2> QED BY <1>1, <2>3, FmtStrTyped, Zenon
<1>7. IsText(Text2) /\ IsText(<<"%">>) /\ IsText(<<"%", c>>)
  BY <1>1, TextFew, FmtStrTyped, Zenon
<1>8. ASSUME NEW e, NEW k, NEW text, Converted(e, k, text), IsText(text)
      PROVE  \E v : Leaves(e, v, text)
  BY <1>1, <1>8, ConvertedOk, Zenon
<1> HIDE DEF c, Number1, Number2, Text1, Text2, words
<1>9. CASE c \in DOMAIN BASE /\ Converted(c, words, Number1)
  <2>1. PICK v : Leaves(c, v, Number1)
    BY <1>4, <1>8, <1>9, Zenon
  <2> QED BY <1>3, <1>9, <2>1, Zenon DEF c
<1>10. CASE c = "p" /\ Converted(c, 1, Number2)
  <2>1. PICK v : Leaves(c, v, Number2)
    BY <1>5, <1>8, <1>10, Zenon
  <2>2. c # "s"
    BY <1>10
  <2> QED BY <2>1, <2>2, Zenon DEF c
<1>11. CASE c = "s" /\ Converted(c, 1, Text1)
  <2>1. PICK v : Leaves(c, v, Text1)
    BY <1>6, <1>8, <1>11, Zenon
  <2> QED BY <1>11, <2>1, Zenon DEF c, Text1
<1>12. CASE c # "s" /\ \E e, k, text : Converted(e, k, text) /\ text \in {Text2, <<"%">>, <<"%", c>>}
  <2>1. PICK e, k, text : Converted(e, k, text) /\ text \in {Text2, <<"%">>, <<"%", c>>}
    BY <1>12, Zenon
  <2>2. PICK v : Leaves(e, v, text)
    BY <1>7, <1>8, <2>1, Zenon
  <2> QED BY <1>12, <2>2, Zenon DEF c
<1> QED BY <1>2, <1>9, <1>10, <1>11, <1>12, Zenon

\* An iteration of any state: the call stays in its buffer.
LEMMA LoopOk ==
    ASSUME Loop, CallOk, ArgsMatch
    PROVE  /\ CallOk'
           /\ vs' # NULL => vs'.size = vs.size
<1>1. vs # NULL /\ vs.ret = NULL
  BY Zenon DEF Loop, S_DEFAULT, S_FLAGS, S_WIDTH, S_PRECIS, S_LENGTH, S_CONV, In
<1>2. Ok(vs)
  BY <1>1, Zenon DEF CallOk
<1>3. ASSUME S_WIDTH, Head(vs.fmt) = "*" PROVE Number(Head(vs.ap))
  BY <1>3, Zenon DEF ArgsMatch, S_WIDTH, In
<1>4. \E c, v : Kept(v) /\ Iterated(c, v)
  <2>1. CASE S_DEFAULT
    BY <1>2, <2>1, DefaultOk, Zenon
  <2>2. CASE S_FLAGS
    BY <1>2, <2>2, FlagsOk, Zenon
  <2>3. CASE S_WIDTH
    BY <1>2, <1>3, <2>3, WidthOk, Zenon
  <2>4. CASE S_PRECIS
    BY <1>2, <2>4, PrecisOk, Zenon
  <2>5. CASE S_LENGTH
    BY <1>2, <2>5, LengthOk, Zenon
  <2>6. CASE S_CONV
    BY <1>1, <1>2, <2>6, ConvOk, Zenon
  <2> QED BY <2>1, <2>2, <2>3, <2>4, <2>5, <2>6, Zenon DEF Loop
<1>5. PICK c, v : Kept(v) /\ Iterated(c, v)
  BY <1>4, Zenon
<1>6. /\ vs' # NULL => Ok(vs') /\ vs'.size = v.size
      /\ vs' # NULL /\ vs'.ret # NULL => Ended(vs')
  BY <1>1, <1>5, IteratedOk, Zenon DEF Kept
<1> QED BY <1>5, <1>6, Zenon DEF CallOk, Kept

-----------------------------------------------------------------------------
\* The shell's own calls.

LEMMA Behind ==
    ASSUME NEW S, NEW s \in Seq(S), NEW t \in Seq(S), Len(s) = Len(t) + 1,
           \A i \in 1 .. Len(t) : t[i] = s[i + 1]
    PROVE  SubSeq(s, 1 + 1, Len(s)) = t
<1> DEFINE r == SubSeq(s, 2, Len(s))
<1>1. r \in Seq(S) /\ Len(r) = Len(t) /\ \A i \in 1 .. Len(t) : r[i] = s[i + 1]
  BY SubSeqProperties
<1> HIDE DEF r
<1>2. r = t
  BY <1>1, SeqEqual
<1>3. 1 + 1 = 2
  OBVIOUS
<1> QED BY <1>2, <1>3, Zenon DEF r

LEMMA FmtIs ==
    /\ \A a : Head(<<a>>) = a
    /\ \A a, b : Head(<<a, b>>) = a /\ SubSeq(<<a, b>>, 1 + 1, Len(<<a, b>>)) = <<b>>
    /\ \A a, b, c : Head(<<a, b, c>>) = a /\ SubSeq(<<a, b, c>>, 1 + 1, Len(<<a, b, c>>)) = <<b, c>>
    /\ \A a, b, c, d : /\ Head(<<a, b, c, d>>) = a
                       /\ SubSeq(<<a, b, c, d>>, 1 + 1, Len(<<a, b, c, d>>)) = <<b, c, d>>
<1>1. ASSUME NEW a PROVE Head(<<a>>) = a
  OBVIOUS
<1>2. ASSUME NEW a, NEW b
      PROVE  Head(<<a, b>>) = a /\ SubSeq(<<a, b>>, 1 + 1, Len(<<a, b>>)) = <<b>>
  <2> DEFINE s == <<a, b>>
             t == <<b>>
             S == {a, b}
  <2>1. s \in Seq(S) /\ t \in Seq(S) /\ Len(s) = 2 /\ Len(t) = 1 /\ Head(s) = a
    OBVIOUS
  <2>2. \A i \in 1 .. 1 : t[i] = s[i + 1]
    OBVIOUS
  <2>3. Len(s) = Len(t) + 1
    BY <2>1
  <2> HIDE DEF s, t, S
  <2>4. SubSeq(s, 1 + 1, Len(s)) = t
    BY <2>1, <2>2, <2>3, Behind, Zenon
  <2> QED BY <2>1, <2>4, Zenon DEF s, t
<1>3. ASSUME NEW a, NEW b, NEW c
      PROVE  Head(<<a, b, c>>) = a /\ SubSeq(<<a, b, c>>, 1 + 1, Len(<<a, b, c>>)) = <<b, c>>
  <2> DEFINE s == <<a, b, c>>
             t == <<b, c>>
             S == {a, b, c}
  <2>1. s \in Seq(S) /\ t \in Seq(S) /\ Len(s) = 3 /\ Len(t) = 2 /\ Head(s) = a
    OBVIOUS
  <2>2. \A i \in 1 .. 2 : t[i] = s[i + 1]
    OBVIOUS
  <2>3. Len(s) = Len(t) + 1
    BY <2>1
  <2> HIDE DEF s, t, S
  <2>4. SubSeq(s, 1 + 1, Len(s)) = t
    BY <2>1, <2>2, <2>3, Behind, Zenon
  <2> QED BY <2>1, <2>4, Zenon DEF s, t
<1>4. ASSUME NEW a, NEW b, NEW c, NEW d
      PROVE  Head(<<a, b, c, d>>) = a /\ SubSeq(<<a, b, c, d>>, 1 + 1, Len(<<a, b, c, d>>)) = <<b, c, d>>
  <2> DEFINE s == <<a, b, c, d>>
             t == <<b, c, d>>
             S == {a, b, c, d}
  <2>1. s \in Seq(S) /\ t \in Seq(S) /\ Len(s) = 4 /\ Len(t) = 3 /\ Head(s) = a
    OBVIOUS
  <2>2. \A i \in 1 .. 3 : t[i] = s[i + 1]
    OBVIOUS
  <2>3. Len(s) = Len(t) + 1
    BY <2>1
  <2> HIDE DEF s, t, S
  <2>4. SubSeq(s, 1 + 1, Len(s)) = t
    BY <2>1, <2>2, <2>3, Behind, Zenon
  <2> QED BY <2>1, <2>4, Zenon DEF s, t
<1> QED BY <1>1, <1>2, <1>3, <1>4, Zenon

LEMMA SFmt ==
    ASSUME NEW d, vs.fmt = <<"s", d, NUL>>
    PROVE  Head(vs.fmt) = "s" /\ Rest(1) = <<d, NUL>> /\ NUL # "s"
<1>1. \A a : Head(<<a, d, NUL>>) = a /\ SubSeq(<<a, d, NUL>>, 1 + 1, Len(<<a, d, NUL>>)) = <<d, NUL>>
  BY FmtIs, SMT
<1>2. Head(<<"s", d, NUL>>) = "s" /\ SubSeq(<<"s", d, NUL>>, 1 + 1, Len(<<"s", d, NUL>>)) = <<d, NUL>>
  BY <1>1, Zenon
<1>3. NUL # "s"
  BY ShellAssumption
<1> QED BY <1>2, <1>3, Zenon DEF Rest

LEMMA PercentFmt ==
    ASSUME NEW d, vs.fmt = <<"%", "s", d, NUL>>
    PROVE  Head(vs.fmt) = "%" /\ Rest(1) = <<"s", d, NUL>>
<1>1. \A a, b : /\ Head(<<a, b, d, NUL>>) = a
               /\ SubSeq(<<a, b, d, NUL>>, 1 + 1, Len(<<a, b, d, NUL>>)) = <<b, d, NUL>>
  BY FmtIs, SMT
<1>2. /\ Head(<<"%", "s", d, NUL>>) = "%"
      /\ SubSeq(<<"%", "s", d, NUL>>, 1 + 1, Len(<<"%", "s", d, NUL>>)) = <<"s", d, NUL>>
  BY <1>1, Zenon
<1> QED BY <1>2, Zenon DEF Rest

LEMMA LettersApart == \A c \in Letters : c # "%" /\ c # "s"
BY DEF Letters

Runs(v) ==
    /\ v.size = BufSize
    /\ v.ret = NULL => Underway(v)
    /\ v.ret # NULL => v.ret \in 0 .. BufSize - 1

LEMMA GoesOn ==
    ASSUME NEW c, NEW v, Iterated(c, v), c # NUL, Kept(v), Underway(v), vs.size = BufSize
    PROVE  Runs(vs')
BY Zenon DEF Iterated, Kept, Runs

LEMMA Ends ==
    ASSUME NEW v, Iterated(NUL, v), Kept(v), vs.size = BufSize,
           vs.n \in Nat, v.n = vs.n + 1, vs.n + 1 <= BufSize
    PROVE  Runs(vs')
<1>1. vs' = Terminated(v)
  BY Zenon DEF Iterated
<1>2. vs'.size = v.size /\ vs'.ret = Signed((v.n - 1) % Word)
  BY <1>1, TerminatedOk, Zenon DEF Kept
<1>3. Signed((v.n - 1) % Word) = vs.n /\ vs.n \in 0 .. BufSize - 1
  <2> DEFINE n == vs.n
  <2> HIDE DEF n
  <2>1. n \in Nat /\ v.n = n + 1 /\ n + 1 <= BufSize
    BY Zenon DEF n
  <2>2. BufSize \in Nat /\ Word \in Nat /\ 2 * BufSize <= Word
    BY ShellAssumption, PrintfAssumption
  <2>3. (n + 1) - 1 = n
    BY <2>1
  <2>4. n < Word /\ ~(n >= Word \div 2) /\ n \in 0 .. BufSize - 1
    BY <2>1, <2>2
  <2>5. n % Word = n
    BY <2>1, <2>2, <2>4
  <2>6. Signed(n) = n
    BY <2>4, Zenon DEF Signed
  <2> QED BY <2>1, <2>3, <2>4, <2>5, <2>6, Zenon DEF n
<1>4. vs'.ret \in 0 .. BufSize - 1
  BY <1>2, <1>3, Zenon
<1>5. vs'.ret # NULL
  BY <1>4, ShellAssumption
<1> QED BY <1>2, <1>4, <1>5, Zenon DEF Runs, Kept

\* The parts of Underway.
LastChar(v) == v.state = "S_DEFAULT" /\ v.n + 1 <= BufSize /\ v.fmt = <<NUL>>
OneLeft(v) == v.state = "S_DEFAULT" /\ v.n + 2 <= BufSize /\ \E c \in Letters : v.fmt = <<c, NUL>>
HoldsText(v) == v.n = 0 /\ \E t : Short(t) /\ v.ap = <<t>>
BeforeText(v) == v.state = "S_DEFAULT" /\ HoldsText(v) /\ \E c \in Letters : v.fmt = <<"%", "s", c, NUL>>
AtText(v) ==
    /\ v.state \in {"S_FLAGS", "S_WIDTH", "S_PRECIS", "S_LENGTH", "S_CONV"}
    /\ HoldsText(v) /\ v.flags = {} /\ (v.state # "S_FLAGS" => v.width = 0)
    /\ \E c \in Letters : v.fmt = <<"s", c, NUL>>

LEMMA UnderwayParts ==
    ASSUME NEW v
    PROVE  Underway(v) <=> LastChar(v) \/ OneLeft(v) \/ BeforeText(v) \/ AtText(v)
BY Zenon DEF Underway, LastChar, OneLeft, BeforeText, AtText, HoldsText

\* The shell keeps its side of the contract.
LEMMA SessionArgs ==
    ASSUME vs # NULL /\ vs.ret = NULL => Underway(vs)
    PROVE  ArgsMatch
<1> SUFFICES ASSUME vs # NULL, vs.ret = NULL PROVE ArgsMatch
  BY Zenon DEF ArgsMatch
<1> DEFINE c == Head(vs.fmt)
<1>1. LastChar(vs) \/ OneLeft(vs) \/ BeforeText(vs) \/ AtText(vs)
  BY UnderwayParts, Zenon
<1>2. CASE AtText(vs)
  <2>1. c = "s"
    BY <1>2, SFmt, Zenon DEF AtText
  <2>2. "s" \notin DOMAIN BASE \cup {"p"} /\ "s" # "*"
    BY DEF BASE
  <2>3. PICK t : Short(t) /\ vs.ap = <<t>>
    BY <1>2, Zenon DEF AtText, HoldsText
  <2>4. vs.ap[1] = t
    BY <2>3
  <2>5. IsText(vs.ap[1])
    BY <2>3, <2>4, Zenon DEF Short
  <2> QED BY <2>1, <2>2, <2>5, Zenon DEF ArgsMatch
<1>3. CASE LastChar(vs) \/ OneLeft(vs) \/ BeforeText(vs)
  <2>1. vs.state = "S_DEFAULT"
    BY <1>3, Zenon DEF LastChar, OneLeft, BeforeText
  <2>2. vs.state # "S_WIDTH" /\ vs.state # "S_CONV"
    BY <2>1
  <2> QED BY <2>2, Zenon DEF ArgsMatch
<1> QED BY <1>1, <1>2, <1>3

LEMMA DefaultRuns ==
    ASSUME S_DEFAULT, Ok(vs), vs.size = BufSize, Underway(vs)
    PROVE  Runs(vs')
<1> DEFINE c == Head(vs.fmt)
<1>1. vs.state = "S_DEFAULT" /\ vs.n \in Nat
  BY Zenon DEF S_DEFAULT, In, Ok
<1>2. vs.state \notin {"S_FLAGS", "S_WIDTH", "S_PRECIS", "S_LENGTH", "S_CONV"}
  BY <1>1
<1>3. LastChar(vs) \/ OneLeft(vs) \/ BeforeText(vs)
  BY <1>2, UnderwayParts, Zenon DEF AtText
<1>4. PICK v : /\ Kept(v) /\ Iterated(c, v) /\ v.fmt = Rest(1)
               /\ c = "%" => v.state = "S_FLAGS" /\ v.flags = {} /\ v.n = vs.n /\ v.ap = vs.ap
               /\ c # "%" => v.state = "S_DEFAULT" /\ v.n = vs.n + 1
  BY DefaultOk, Zenon
<1>5. NUL # "%" /\ BufSize \in Nat
  BY ShellAssumption, PrintfAssumption
<1>6. CASE LastChar(vs)
  <2>1. c = NUL /\ vs.n + 1 <= BufSize
    BY <1>6, FmtIs, Zenon DEF LastChar
  <2> QED BY <1>1, <1>4, <1>5, <2>1, Ends, Zenon
<1>7. CASE OneLeft(vs)
  <2>1. PICK d \in Letters : vs.fmt = <<d, NUL>>
    BY <1>7, Zenon DEF OneLeft
  <2>2. c = d /\ Rest(1) = <<NUL>>
    BY <2>1, FmtIs, Zenon DEF Rest
  <2>3. c # "%"
    BY <2>1, <2>2, LettersApart, Zenon
  <2>4. vs.n + 2 <= BufSize
    BY <1>7, Zenon DEF OneLeft
  <2>5. vs.n + 1 <= BufSize /\ (vs.n + 1) + 1 <= BufSize
    BY <1>1, <1>5, <2>4
  <2>6. CASE c = NUL
    BY <1>1, <1>4, <2>3, <2>5, <2>6, Ends, Zenon
  <2>7. CASE c # NUL
    <3>1. LastChar(v)
      BY <1>4, <2>2, <2>3, <2>5, Zenon DEF LastChar
    <3> QED BY <1>4, <2>7, <3>1, GoesOn, UnderwayParts, Zenon
  <2> QED BY <2>6, <2>7
<1>8. CASE BeforeText(vs)
  <2>1. PICK d \in Letters : vs.fmt = <<"%", "s", d, NUL>>
    BY <1>8, Zenon DEF BeforeText
  <2>2. c = "%" /\ Rest(1) = <<"s", d, NUL>>
    BY <2>1, PercentFmt, Zenon
  <2>3. c # NUL
    BY <1>5, <2>2, Zenon
  <2>4. HoldsText(v)
    BY <1>4, <1>8, <2>2, Zenon DEF BeforeText, HoldsText
  <2>5. AtText(v)
    BY <1>4, <2>1, <2>2, <2>4, Zenon DEF AtText
  <2> QED BY <1>4, <2>3, <2>5, GoesOn, UnderwayParts, Zenon
<1> QED BY <1>3, <1>6, <1>7, <1>8, Zenon

\* Between the percent sign and the letter s nothing happens.
LEMMA PassesRuns ==
    ASSUME NEW v, NEW state, Kept(v), Iterated(Head(vs.fmt), v), vs.size = BufSize, AtText(vs),
           state \in {"S_WIDTH", "S_PRECIS", "S_LENGTH", "S_CONV"},
           Head(vs.fmt) = "s" => Passes(v, state) /\ v.width = 0
    PROVE  Runs(vs')
<1>1. PICK d \in Letters : vs.fmt = <<"s", d, NUL>>
  BY Zenon DEF AtText
<1>2. Head(vs.fmt) = "s" /\ "s" # NUL
  BY <1>1, SFmt, Zenon
<1>3. state \in {"S_FLAGS", "S_WIDTH", "S_PRECIS", "S_LENGTH", "S_CONV"}
  BY Zenon
<1>4. v.state = state /\ v.fmt = vs.fmt /\ v.ap = vs.ap /\ v.n = vs.n /\ v.flags = vs.flags /\ v.width = 0
  BY <1>2, Zenon DEF Passes
<1>5. HoldsText(v)
  BY <1>4, Zenon DEF AtText, HoldsText
<1>6. AtText(v)
  BY <1>3, <1>4, <1>5, Zenon DEF AtText
<1> QED BY <1>2, <1>6, GoesOn, UnderwayParts, Zenon

LEMMA ConvRuns ==
    ASSUME S_CONV, Ok(vs), vs # NULL, vs.size = BufSize, AtText(vs)
    PROVE  Runs(vs')
<1>1. PICK d \in Letters : vs.fmt = <<"s", d, NUL>>
  BY Zenon DEF AtText
<1>2. Head(vs.fmt) = "s" /\ "s" # NUL /\ Rest(1) = <<d, NUL>>
  BY <1>1, SFmt, Zenon
<1>3. vs.width = 0 /\ vs.flags = {} /\ vs.n = 0
  <2>1. vs.state = "S_CONV"
    BY Zenon DEF S_CONV, In
  <2>2. vs.state # "S_FLAGS"
    BY <2>1
  <2> QED BY <2>2, Zenon DEF AtText, HoldsText
<1>4. PICK t : Short(t) /\ vs.ap = <<t>>
  BY Zenon DEF AtText, HoldsText
<1>5. vs.ap[1] = t
  BY <1>4
<1>6. ArgsMatch
  BY SessionArgs, UnderwayParts, Zenon
<1>7. PICK c, v : /\ Kept(v) /\ Iterated(c, v)
                  /\ v.fmt = Rest(1) /\ v.state = "S_DEFAULT"
                  /\ Head(vs.fmt) = "s" =>
                       c = "s" /\ v.n = vs.n + Len(fmt_str(Pointed(vs.ap[1]), vs.width, vs.flags))
  BY <1>6, ConvOk, Zenon
<1>8. IsText(Pointed(t)) /\ Len(Pointed(t)) + 2 <= BufSize
  <2>1. CASE t = NULL
    <3>1. NullText \in Seq({"(", "n", "u", "l", ")"}) /\ Len(NullText) = 6
      BY DEF NullText
    <3>2. 6 + 2 <= BufSize
      BY ShellAssumption, PrintfAssumption
    <3> QED BY <2>1, <3>1, <3>2, Zenon DEF Pointed, IsText
  <2>2. CASE t # NULL
    BY <1>4, <2>2, Zenon DEF Pointed, Short
  <2> QED BY <2>1, <2>2
<1>9. fmt_str(Pointed(t), 0, {}) = Pointed(t)
  BY <1>8, FmtStrIs, Zenon
<1>10. v.n = 0 + Len(Pointed(t)) /\ c = "s"
  BY <1>2, <1>3, <1>5, <1>7, <1>9, Zenon
<1>11. Len(Pointed(t)) \in Nat
  BY <1>8, TextLen, Zenon
<1>12. v.n + 2 <= BufSize
  BY <1>8, <1>10, <1>11
<1>13. OneLeft(v)
  BY <1>2, <1>7, <1>12, Zenon DEF OneLeft
<1> QED BY <1>2, <1>7, <1>10, <1>13, GoesOn, UnderwayParts, Zenon

LEMMA LoopRuns ==
    ASSUME Loop, CallOk, vs.size = BufSize, Underway(vs)
    PROVE  Runs(vs')
<1>1. vs # NULL /\ vs.ret = NULL
  BY Zenon DEF Loop, S_DEFAULT, S_FLAGS, S_WIDTH, S_PRECIS, S_LENGTH, S_CONV, In
<1>2. Ok(vs)
  BY <1>1, Zenon DEF CallOk
<1>3. CASE S_DEFAULT
  BY <1>2, <1>3, DefaultRuns, Zenon
<1>4. ASSUME NEW state, vs.state = state, state # "S_DEFAULT"
      PROVE  AtText(vs) /\ (state # "S_FLAGS" => vs.width = 0)
  <2>1. AtText(vs)
    BY <1>4, UnderwayParts, Zenon DEF LastChar, OneLeft, BeforeText
  <2> QED BY <1>4, <2>1, Zenon DEF AtText
<1>5. CASE S_FLAGS
  <2>1. vs.state = "S_FLAGS" /\ "S_FLAGS" # "S_DEFAULT"
    BY <1>5 DEF S_FLAGS, In
  <2>2. PICK v : /\ Kept(v) /\ Iterated(Head(vs.fmt), v)
                 /\ Head(vs.fmt) = "s" => Passes(v, "S_WIDTH") /\ v.width = 0
    BY <1>2, <1>5, FlagsOk, Zenon
  <2> QED BY <1>4, <2>1, <2>2, PassesRuns, Zenon
<1>6. CASE S_WIDTH
  <2>1. vs.state = "S_WIDTH" /\ "S_WIDTH" # "S_DEFAULT" /\ "S_WIDTH" # "S_FLAGS"
    BY <1>6 DEF S_WIDTH, In
  <2>2. Head(vs.fmt) = "*" => Number(Head(vs.ap))
    <3>1. ArgsMatch
      BY SessionArgs, Zenon
    <3> QED BY <1>1, <2>1, <3>1, Zenon DEF ArgsMatch
  <2>3. PICK v : /\ Kept(v) /\ Iterated(Head(vs.fmt), v)
                 /\ Head(vs.fmt) = "s" => Passes(v, "S_PRECIS") /\ v.width = vs.width
    BY <1>2, <1>6, <2>2, WidthOk, Zenon
  <2> QED BY <1>4, <2>1, <2>3, PassesRuns, Zenon
<1>7. CASE S_PRECIS
  <2>1. vs.state = "S_PRECIS" /\ "S_PRECIS" # "S_DEFAULT" /\ "S_PRECIS" # "S_FLAGS"
    BY <1>7 DEF S_PRECIS, In
  <2>2. PICK v : /\ Kept(v) /\ Iterated(Head(vs.fmt), v)
                 /\ Head(vs.fmt) = "s" => Passes(v, "S_LENGTH") /\ v.width = vs.width
    BY <1>2, <1>7, PrecisOk, Zenon
  <2> QED BY <1>4, <2>1, <2>2, PassesRuns, Zenon
<1>8. CASE S_LENGTH
  <2>1. vs.state = "S_LENGTH" /\ "S_LENGTH" # "S_DEFAULT" /\ "S_LENGTH" # "S_FLAGS"
    BY <1>8 DEF S_LENGTH, In
  <2>2. PICK v : /\ Kept(v) /\ Iterated(Head(vs.fmt), v)
                 /\ Head(vs.fmt) = "s" => Passes(v, "S_CONV") /\ v.width = vs.width
    BY <1>2, <1>8, LengthOk, Zenon
  <2> QED BY <1>4, <2>1, <2>2, PassesRuns, Zenon
<1>9. CASE S_CONV
  <2>1. vs.state = "S_CONV" /\ "S_CONV" # "S_DEFAULT"
    BY <1>9 DEF S_CONV, In
  <2> QED BY <1>1, <1>2, <1>4, <1>9, <2>1, ConvRuns, Zenon
<1> QED BY <1>3, <1>5, <1>6, <1>7, <1>8, <1>9, Zenon DEF Loop

-----------------------------------------------------------------------------
\* The words of a line.

\* Pieces that lie between the bounds b are no longer than from the first to
\* the last of them.
LEMMA FlattenBound ==
    ASSUME NEW S, NEW s \in Seq(Seq(S)), NEW b \in [1 .. Len(s) + 1 -> Int],
           \A k \in 1 .. Len(s) : Len(s[k]) <= b[k + 1] - b[k]
    PROVE  Len(FlattenSeq(s)) <= b[Len(s) + 1] - b[1]
<1>1. CASE s = << >>
  <2>1. Len(s) = 0 /\ Len(<< >>) = 0 /\ 1 \in 1 .. Len(s) + 1
    BY <1>1
  <2>2. b[1] \in Int
    BY <2>1
  <2>3. Len(FlattenSeq(s)) = 0
    BY <1>1, <2>1, FlattenSeqEmpty, Zenon
  <2> QED BY <2>1, <2>2, <2>3
<1>2. CASE s # << >>
  <2> DEFINE n == Len(s)
  <2>1. n \in Nat /\ n \in 1 .. n
    BY <1>2
  <2>2. PICK f : Flattens(f, s, n) /\ FlattenSeq(s) = f[n]
    BY <1>2, FlattenSeqIs, Zenon
  <2>3. \A i \in 1 .. n : f[i] \in Seq(S)
    BY <2>1, <2>2, FlattensType, Zenon
  <2>4. \A i \in 1 .. n : (i = 1 => f[i] = s[i]) /\ (i # 1 => f[i] = f[i - 1] \o s[i])
    BY <2>2, Zenon DEF Flattens
  <2>5. \A i \in 1 .. n : s[i] \in Seq(S)
    OBVIOUS
  <2>6. \A k \in 1 .. n + 1 : b[k] \in Int
    BY Zenon
  <2>7. \A k \in 1 .. n : Len(s[k]) <= b[k + 1] - b[k]
    BY Zenon
  <2> HIDE DEF n
  <2> DEFINE Bad == {k \in 1 .. n : ~(Len(f[k]) <= b[k + 1] - b[1])}
  <2>8. ASSUME Bad # {} PROVE FALSE
    <3>1. Bad \in SUBSET Nat
      OBVIOUS
    <3> DEFINE m == Min(Bad)
    <3>2. m \in Bad /\ \A y \in Bad : m <= y
      BY <2>8, <3>1, MinNat, Zenon
    <3> HIDE DEF m
    <3>3. m \in 1 .. n /\ ~(Len(f[m]) <= b[m + 1] - b[1])
      BY <3>2, Zenon
    <3>4. m # 1 => m - 1 \in 1 .. n /\ m - 1 \notin Bad
      <4> HIDE DEF Bad
      <4> QED BY <2>1, <3>2, <3>3
    <3>5. m # 1 => Len(f[m - 1]) <= b[(m - 1) + 1] - b[1]
      BY <3>4, Zenon
    <3>6. (m - 1) + 1 = m /\ m \in 1 .. n + 1 /\ m + 1 \in 1 .. n + 1 /\ 1 \in 1 .. n + 1
      BY <2>1, <3>3
    <3>7. b[m] \in Int /\ b[m + 1] \in Int /\ b[1] \in Int
      BY <2>6, <3>6, Zenon
    <3>8. CASE m = 1
      <4>1. f[m] = s[m]
        BY <2>4, <3>3, <3>8, Zenon
      <4> QED BY <2>7, <3>3, <3>8, <4>1, Zenon
    <3>9. CASE m # 1
      <4>1. f[m] = f[m - 1] \o s[m]
        BY <2>4, <3>3, <3>9, Zenon
      <4>2. f[m - 1] \in Seq(S) /\ s[m] \in Seq(S)
        BY <2>3, <2>5, <3>3, <3>4, <3>9, Zenon
      <4>3. Len(f[m]) = Len(f[m - 1]) + Len(s[m])
        <5>1. Len(f[m - 1] \o s[m]) = Len(f[m - 1]) + Len(s[m])
          BY <4>2, ConcatProperties, Zenon
        <5> QED BY <4>1, <5>1, Zenon
      <4>4. Len(f[m - 1]) \in Nat /\ Len(s[m]) \in Nat
        BY <4>2
      <4>5. Len(s[m]) <= b[m + 1] - b[m] /\ Len(f[m - 1]) <= b[m] - b[1]
        BY <2>7, <3>3, <3>5, <3>6, <3>9, Zenon
      <4> DEFINE x == Len(f[m - 1])
                 y == Len(s[m])
                 z == Len(f[m])
      <4>6. z = x + y /\ x \in Nat /\ y \in Nat /\ y <= b[m + 1] - b[m] /\ x <= b[m] - b[1]
            /\ ~(z <= b[m + 1] - b[1])
        BY <3>3, <4>3, <4>4, <4>5, Zenon
      <4> HIDE DEF x, y, z
      <4> QED BY <3>7, <4>6
    <3> QED BY <3>8, <3>9
  <2>9. Len(f[n]) <= b[n + 1] - b[1]
    BY <2>1, <2>8, Zenon
  <2> QED BY <2>2, <2>9, Zenon DEF n
<1> QED BY <1>1, <1>2

Chars == {cmd_buf[i] : i \in 1 .. LineMax} \cup {" "}

LEMMA Widths == BufSize \in Nat /\ LineMax \in Nat /\ 1 <= LineMax /\ LineMax <= BufSize /\ 8 <= BufSize
BY ShellAssumption, PrintfAssumption

\* A string that ends before q.
LEMMA EndOfIs ==
    ASSUME NEW p \in 1 .. LineMax, NEW q \in 1 .. LineMax, EndIn(cmd_buf, p, q), NEW delims, NUL \in delims
    PROVE  EndOf(p, delims) \in p .. q /\ cmd_buf[EndOf(p, delims)] \in delims
           /\ \A i \in p .. EndOf(p, delims) - 1 : cmd_buf[i] \notin delims
<1> DEFINE E == {i \in p .. LineMax : cmd_buf[i] \in delims}
<1>1. PICK i \in p .. q : cmd_buf[i] = NUL
  BY Zenon DEF EndIn
<1>2. i \in p .. LineMax /\ E \in SUBSET Nat
  BY Widths
<1>3. i \in E
  BY <1>1, <1>2, Zenon
<1>4. Min(E) \in E /\ \A y \in E : Min(E) <= y
  BY <1>2, <1>3, MinNat, Zenon
<1> DEFINE e == Min(E)
<1> HIDE DEF e
<1>5. e \in p .. LineMax /\ cmd_buf[e] \in delims /\ e <= i
  BY <1>3, <1>4, Zenon DEF e
<1>6. e \in p .. q
  BY <1>5, Widths
<1>7. ASSUME NEW j \in p .. e - 1 PROVE cmd_buf[j] \notin delims
  <2>1. j \in p .. LineMax /\ ~(e <= j)
    BY <1>5, Widths
  <2> QED BY <1>4, <2>1, Zenon DEF e
<1>8. e = EndOf(p, delims)
  BY Zenon DEF e, EndOf
<1> HIDE DEF E
<1> QED BY <1>5, <1>6, <1>7, <1>8, Zenon

LEMMA StringIs ==
    ASSUME NEW p \in 1 .. LineMax, NEW q \in 1 .. LineMax, EndIn(cmd_buf, p, q)
    PROVE  StringAt(p) \in Seq(Chars) /\ Len(StringAt(p)) <= q - p
<1> DEFINE e == EndOf(p, {NUL})
<1>1. e \in p .. q
  BY EndOfIs, Zenon
<1> HIDE DEF e
<1>2. \A i \in p .. e - 1 : cmd_buf[i] \in Chars
  <2> TAKE i \in p .. e - 1
  <2>1. i \in 1 .. LineMax
    BY <1>1, Widths
  <2> QED BY <2>1, Zenon DEF Chars
<1>3. p \in Int /\ e - 1 \in Int
  BY <1>1, Widths
<1>4. /\ SubSeq(cmd_buf, p, e - 1) \in Seq(Chars)
      /\ Len(SubSeq(cmd_buf, p, e - 1)) = IF p <= e - 1 THEN (e - 1) - p + 1 ELSE 0
  BY <1>2, <1>3, SubSeqProperties, Zenon
<1>5. (IF p <= e - 1 THEN (e - 1) - p + 1 ELSE 0) <= q - p
  BY <1>1, Widths
<1> QED BY <1>4, <1>5, Zenon DEF StringAt, e

LEMMA ApartOrder ==
    ASSUME Apart, NEW k \in 1 .. Len(args) - 1
    PROVE  args[k] <= args[k + 1] - 1 /\ args[k + 1] - 1 \in 1 .. LineMax
<1>1. PICK i \in args[k] .. args[k + 1] - 1 : cmd_buf[i] = NUL
  BY Zenon DEF Apart, EndIn
<1>2. k \in 1 .. Len(args) /\ k + 1 \in 1 .. Len(args) /\ args \in Seq(1 .. LineMax)
  BY DEF Apart
<1>3. args[k] \in 1 .. LineMax /\ args[k + 1] \in 1 .. LineMax
  BY <1>2, ElementOfSeq, Zenon
<1> QED BY <1>1, <1>3, Widths

\* The words together are no longer than the rest of the line.
LEMMA WordsBound ==
    ASSUME Apart, NEW i \in 1 .. Len(args)
    PROVE  Words(i) \in Seq(Chars) /\ Len(Words(i)) <= (LineMax + 1) - args[i]
<1> DEFINE n == Len(args) - i + 1
           piece(k) == Append(StringAt(args[i + k - 1]), " ")
           s == [k \in 1 .. n |-> piece(k)]
           b == [k \in 1 .. n + 1 |-> IF k = n + 1 THEN LineMax + 1 ELSE args[i + k - 1]]
<1>1. args \in Seq(1 .. LineMax) /\ Len(args) \in Nat
  BY DEF Apart
<1>2. n \in Nat /\ n >= 1 /\ i + n - 1 = Len(args)
  BY <1>1
<1>3. ASSUME NEW k \in 1 .. n
      PROVE  i + k - 1 \in 1 .. Len(args) /\ args[i + k - 1] \in 1 .. LineMax
  <2>1. i + k - 1 \in 1 .. Len(args)
    BY <1>1
  <2> QED BY <1>1, <2>1, ElementOfSeq, Zenon
<1>4. b \in [1 .. n + 1 -> Int]
  <2>1. ASSUME NEW k \in 1 .. n + 1 PROVE (IF k = n + 1 THEN LineMax + 1 ELSE args[i + k - 1]) \in Int
    <3>1. CASE k = n + 1
      BY <3>1, Widths
    <3>2. CASE k # n + 1
      <4>1. k \in 1 .. n
        BY <1>2, <3>2
      <4> HIDE DEF n
      <4>2. args[i + k - 1] \in Int
        BY <1>3, <4>1, Widths
      <4> QED BY <3>2, <4>2, Zenon
    <3> QED BY <3>1, <3>2
  <2> HIDE DEF n
  <2> QED BY <2>1, Zenon
<1>5. ASSUME NEW k \in 1 .. n
      PROVE  piece(k) \in Seq(Chars) /\ Len(piece(k)) <= b[k + 1] - b[k]
  <2> DEFINE p == args[i + k - 1]
  <2>1. i + k - 1 \in 1 .. Len(args) /\ p \in 1 .. LineMax
    BY <1>3, Zenon
  <2>2. b[k] = p
    <3>1. k # n + 1 /\ k \in 1 .. n + 1
      BY <1>2
    <3> QED BY <3>1, Zenon
  <2>3. StringAt(p) \in Seq(Chars) /\ Len(StringAt(p)) + 1 <= b[k + 1] - p
    <3>1. CASE k = n
      <4>1. EndIn(cmd_buf, p, LineMax)
        BY <2>1, Zenon DEF Apart
      <4>2. LineMax \in 1 .. LineMax
        BY Widths
      <4> HIDE DEF p
      <4>3. StringAt(p) \in Seq(Chars) /\ Len(StringAt(p)) <= LineMax - p
        BY <2>1, <4>1, <4>2, StringIs, Zenon
      <4>4. k + 1 \in 1 .. n + 1 /\ k + 1 = n + 1
        BY <1>2, <3>1
      <4>5. b[k + 1] = LineMax + 1
        BY <4>4, Zenon
      <4>6. Len(StringAt(p)) \in Nat
        BY <4>3
      <4> HIDE DEF b
      <4> QED BY <2>1, <4>3, <4>5, <4>6, Widths
    <3>2. CASE k # n
      <4>1. i + k - 1 \in 1 .. Len(args) - 1 /\ (i + k - 1) + 1 = i + (k + 1) - 1
        BY <1>1, <3>2
      <4> DEFINE q == args[(i + k - 1) + 1] - 1
      <4>2. EndIn(cmd_buf, p, q) /\ q \in 1 .. LineMax
        BY <4>1, ApartOrder, Zenon DEF Apart
      <4>3. k + 1 \in 1 .. n + 1 /\ k + 1 # n + 1
        BY <1>2, <3>2
      <4>4. b[k + 1] = args[i + (k + 1) - 1]
        BY <4>3, Zenon
      <4>5. args[(i + k - 1) + 1] \in Int
        <5>1. (i + k - 1) + 1 \in 1 .. Len(args)
          BY <1>1, <4>1
        <5> QED BY <1>1, <5>1, Widths
      <4>6. b[k + 1] = q + 1
        <5>1. q + 1 = args[(i + k - 1) + 1]
          BY <4>5
        <5> HIDE DEF q, b
        <5> QED BY <4>1, <4>4, <5>1, Zenon
      <4> HIDE DEF p, q, b
      <4>7. StringAt(p) \in Seq(Chars) /\ Len(StringAt(p)) <= q - p
        BY <2>1, <4>2, StringIs, Zenon
      <4>8. Len(StringAt(p)) \in Nat
        BY <4>7
      <4> QED BY <2>1, <4>2, <4>6, <4>7, <4>8, Widths
    <3> QED BY <3>1, <3>2
  <2>4. " " \in Chars
    BY Zenon DEF Chars
  <2> HIDE DEF p, b
  <2>5. Append(StringAt(p), " ") \in Seq(Chars) /\ Len(Append(StringAt(p), " ")) = Len(StringAt(p)) + 1
    BY <2>3, <2>4, AppendProperties, Zenon
  <2> QED BY <2>2, <2>3, <2>5, Zenon DEF p
<1> HIDE DEF n, piece, b
<1>6. s \in Seq(Seq(Chars)) /\ Len(s) = n /\ \A k \in 1 .. n : s[k] = piece(k)
  BY <1>2, <1>5
<1>7. s = [k \in 1 .. Len(args) - i + 1 |-> Append(StringAt(args[i + k - 1]), " ")]
  BY Zenon DEF n, piece
<1> HIDE DEF s
<1>8. Words(i) = FlattenSeq(s)
  BY <1>7, Zenon DEF Words
<1>9. FlattenSeq(s) \in Seq(Chars) /\ Len(FlattenSeq(s)) <= b[n + 1] - b[1]
  <2>1. \A k \in 1 .. Len(s) : Len(s[k]) <= b[k + 1] - b[k]
    BY <1>5, <1>6, Zenon
  <2> QED BY <1>4, <1>6, <2>1, FlattenBound, FlattenSeqType, Zenon
<1>10. b[n + 1] = LineMax + 1 /\ b[1] = args[i]
  <2>1. n + 1 \in 1 .. n + 1 /\ 1 \in 1 .. n + 1 /\ 1 # n + 1 /\ i + 1 - 1 = i
    BY <1>2
  <2> QED BY <2>1, Zenon DEF b
<1>11. b[n + 1] - b[1] = (LineMax + 1) - args[i]
  BY <1>10, Zenon
<1>12. Len(FlattenSeq(s)) <= (LineMax + 1) - args[i]
  BY <1>9, <1>11, Zenon
<1> QED BY <1>8, <1>9, <1>12, Zenon

LEMMA JoinedShort ==
    ASSUME Apart, NEW i \in {2, 3}
    PROVE  Short(Joined(i))
<1>1. args \in Seq(1 .. LineMax) /\ Len(args) \in Nat
  BY DEF Apart
<1>2. CASE i \in 1 .. Len(args)
  <2>1. Words(i) \in Seq(Chars) /\ Len(Words(i)) <= (LineMax + 1) - args[i]
    BY <1>2, WordsBound, Zenon
  <2>2. args[i] \in 1 .. LineMax /\ args[i] >= 2
    <3>1. i - 1 \in 1 .. Len(args) - 1 /\ (i - 1) + 1 = i /\ i - 1 \in 1 .. Len(args)
      BY <1>1, <1>2
    <3>2. args[i - 1] <= args[i] - 1
      BY <3>1, ApartOrder, Zenon
    <3>3. args[i] \in 1 .. LineMax /\ args[i - 1] \in 1 .. LineMax
      BY <1>1, <1>2, <3>1, ElementOfSeq, Zenon
    <3> QED BY <3>2, <3>3
  <2> DEFINE w == Words(i)
             a == args[i]
  <2> HIDE DEF w, a
  <2>3. w \in Seq(Chars) /\ Len(w) <= (LineMax + 1) - a /\ a \in 1 .. LineMax /\ a >= 2
    BY <2>1, <2>2, Zenon DEF w, a
  <2>4. CASE w = << >>
    <3>1. Joined(i) = << >>
      BY <2>4, Zenon DEF Joined, w
    <3>2. Len(<< >>) + 2 <= BufSize
      BY Widths
    <3> QED BY <3>1, <3>2, TextFew, Zenon DEF Short
  <2>5. CASE w # << >>
    <3>1. Front(w) \in Seq(Chars) /\ Len(Front(w)) = Len(w) - 1
      <4>1. Len(w) \in Nat \ {0} /\ \A j \in 1 .. Len(w) - 1 : w[j] \in Chars
        BY <2>3, <2>5
      <4> DEFINE m == Len(w) - 1
      <4>2. 1 \in Int /\ m \in Int /\ m \in Nat
        BY <4>1
      <4>3. Front(w) = SubSeq(w, 1, m) /\ \A j \in 1 .. m : w[j] \in Chars
        BY <4>1, Zenon DEF Front
      <4> HIDE DEF m
      <4>4. SubSeq(w, 1, m) \in Seq(Chars) /\ Len(SubSeq(w, 1, m)) = IF 1 <= m THEN m - 1 + 1 ELSE 0
        BY <4>2, <4>3, SubSeqProperties
      <4>5. (IF 1 <= m THEN m - 1 + 1 ELSE 0) = m
        BY <4>2
      <4> QED BY <4>3, <4>4, <4>5, Zenon DEF m
    <3>2. Joined(i) = Front(w)
      BY <2>5, Zenon DEF Joined, w
    <3>3. Len(w) \in Nat
      BY <2>3
    <3>4. Len(Front(w)) + 2 <= BufSize
      BY <2>3, <3>1, <3>3, Widths
    <3> QED BY <3>1, <3>2, <3>4, Zenon DEF Short, IsText
  <2> QED BY <2>4, <2>5
<1>3. CASE i \notin 1 .. Len(args)
  <2> DEFINE s == [k \in 1 .. Len(args) - i + 1 |-> Append(StringAt(args[i + k - 1]), " ")]
  <2>1. s = << >>
    <3>1. 1 .. Len(args) - i + 1 = {}
      BY <1>1, <1>3
    <3>2. 1 .. Len(args) - i + 1 = 1 .. 0 /\ \A k \in 1 .. 0 : FALSE
      BY <3>1
    <3> DEFINE piece(k) == Append(StringAt(args[i + k - 1]), " ")
    <3>3. s = [k \in 1 .. 0 |-> piece(k)]
      BY <3>2, Zenon
    <3> HIDE DEF piece, s
    <3>4. s \in Seq({}) /\ Len(s) = 0
      BY <3>3
    <3> QED BY <3>4
  <2>2. Words(i) = << >>
    <3>1. Words(i) = FlattenSeq(s)
      BY Zenon DEF Words
    <3> HIDE DEF s
    <3> QED BY <2>1, <3>1, FlattenSeqEmpty, Zenon
  <2>3. Joined(i) = << >>
    BY <2>2, Zenon DEF Joined
  <2>4. Len(<< >>) + 2 <= BufSize
    BY Widths
  <2> QED BY <2>3, <2>4, TextFew, Zenon DEF Short
<1> QED BY <1>2, <1>3

-----------------------------------------------------------------------------
\* What run_cmd prints.

LEMMA PrintsAre ==
    /\ Prints(<< >>)
    /\ \A c : Single(c) \/ WithText(c) => Prints(<<c>>) /\ \A k \in Nat : Prints(Repeat(c, k))
    /\ \A s, t : Prints(s) /\ Prints(t) => Prints(s \o t)
    /\ \A s : Prints(s) /\ s # << >> => (Single(Head(s)) \/ WithText(Head(s))) /\ Prints(Tail(s))
<1>1. Prints(<< >>)
  <2> DEFINE S == {}
  <2>1. << >> \in Seq(S) /\ \A call \in S : Single(call) \/ WithText(call)
    OBVIOUS
  <2> HIDE DEF S
  <2> QED BY <2>1, Zenon DEF Prints
<1>2. ASSUME NEW c, Single(c) \/ WithText(c) PROVE Prints(<<c>>) /\ \A k \in Nat : Prints(Repeat(c, k))
  <2> DEFINE S == {c}
  <2>1. <<c>> \in Seq(S) /\ \A k \in Nat : Repeat(c, k) \in Seq(S)
    BY DEF Repeat
  <2>2. \A call \in S : Single(call) \/ WithText(call)
    BY <1>2, Zenon
  <2> HIDE DEF S
  <2> QED BY <2>1, <2>2, Zenon DEF Prints
<1>3. ASSUME NEW s, NEW t, Prints(s), Prints(t) PROVE Prints(s \o t)
  <2>1. PICK S : s \in Seq(S) /\ \A call \in S : Single(call) \/ WithText(call)
    BY <1>3, Zenon DEF Prints
  <2>2. PICK T : t \in Seq(T) /\ \A call \in T : Single(call) \/ WithText(call)
    BY <1>3, Zenon DEF Prints
  <2>3. s \in Seq(S \cup T) /\ t \in Seq(S \cup T)
    BY <2>1, <2>2
  <2>4. s \o t \in Seq(S \cup T)
    BY <2>3, ConcatProperties, Zenon
  <2>5. \A call \in S \cup T : Single(call) \/ WithText(call)
    BY <2>1, <2>2, Zenon
  <2> QED BY <2>4, <2>5, Zenon DEF Prints
<1>4. ASSUME NEW s, Prints(s), s # << >> PROVE (Single(Head(s)) \/ WithText(Head(s))) /\ Prints(Tail(s))
  <2>1. PICK S : s \in Seq(S) /\ \A call \in S : Single(call) \/ WithText(call)
    BY <1>4, Zenon DEF Prints
  <2>2. Head(s) \in S /\ Tail(s) \in Seq(S)
    BY <1>4, <2>1
  <2> QED BY <2>1, <2>2, Zenon DEF Prints
<1> QED BY <1>1, <1>2, <1>3, <1>4, Zenon

LEMMA MessagesSingle ==
    \A m \in {NEWLINE, PROMPT, HELP, USAGE, ROW, STACK, EXITING, UNKNOWN} : Single(printf(m, << >>))
BY Zenon DEF NEWLINE, PROMPT, HELP, USAGE, ROW, STACK, EXITING, UNKNOWN, Single, Letters, printf

LEMMA TextPrints ==
    ASSUME NEW t, Short(t)
    PROVE  WithText(printf(<<"%", "s", "\n">>, <<t>>)) /\ WithText(printf(<<"%", "s", " ">>, <<t>>))
BY Zenon DEF WithText, Letters, printf

LEMMA RunPrints ==
    ASSUME Apart
    PROVE  Prints(run_cmd)
<1> DEFINE argc == Len(args)
           n == strtol(StringAt(args[2]), 0) % Word
           rows == (n + RowBytes - 1) \div RowBytes
           times == Greater(0, strtol(StringAt(args[2]), 10))
           Fixed == {printf(EXITING, << >>), printf(HELP, << >>), printf(USAGE, << >>), printf(STACK, << >>),
                     printf(UNKNOWN, << >>), printf(<<"%", "s", "\n">>, <<Joined(2)>>)}
           Dump == <<printf(NEWLINE, << >>)>> \o Repeat(printf(ROW, << >>), rows)
           Repeated == Repeat(printf(<<"%", "s", " ">>, <<Joined(3)>>), times)
                         \o <<printf(<<"%", "s", "\n">>, << << >> >>)>>
<1>1. \/ run_cmd = << >>
      \/ \E c \in Fixed : run_cmd = <<c>>
      \/ argc >= 3 /\ run_cmd = Dump
      \/ argc > 1 /\ run_cmd = Repeated
  <2> DEFINE a1 == <<printf(EXITING, << >>)>>
             a2 == <<printf(HELP, << >>)>>
             a3 == <<printf(USAGE, << >>)>>
             a4 == <<printf(STACK, << >>)>>
             a5 == <<printf(UNKNOWN, << >>)>>
             a6 == <<printf(<<"%", "s", "\n">>, <<Joined(2)>>)>>
  <2>1. \/ run_cmd = << >>
        \/ run_cmd = a1 \/ run_cmd = a2 \/ run_cmd = a3 \/ run_cmd = a4 \/ run_cmd = a5 \/ run_cmd = a6
        \/ argc >= 3 /\ run_cmd = Dump
        \/ argc > 1 /\ run_cmd = Repeated
    <3> DEFINE cmd == StringAt(args[1])
               g1 == cmd \in {Name.empty, Name.break, Name.kinfo, Name.color, Name.bgcolor}
               r ==
            CASE cmd = Name.exit -> a1
              [] cmd = Name.help -> a2
              [] cmd = Name.mdmp /\ argc < 3 -> a3
              [] cmd = Name.mdmp /\ argc >= 3 -> Dump
              [] g1 -> << >>
              [] cmd = Name.sd -> a4
              [] cmd = Name.echo -> a6
              [] cmd = Name.repeat /\ argc > 1 -> Repeated
              [] cmd = Name.repeat /\ argc <= 1 -> << >>
              [] OTHER -> a5
               Right(v) == \/ v = << >>
                           \/ v = a1 \/ v = a2 \/ v = a3 \/ v = a4 \/ v = a5 \/ v = a6
                           \/ argc >= 3 /\ v = Dump
                           \/ argc > 1 /\ v = Repeated
    <3>1. run_cmd = r
      BY Zenon DEF run_cmd
    <3>2. Right(<< >>) /\ Right(a1) /\ Right(a2) /\ Right(a3) /\ Right(a4) /\ Right(a5) /\ Right(a6)
      BY Zenon
    <3>3. (argc >= 3 => Right(Dump)) /\ (argc > 1 => Right(Repeated))
      BY Zenon
    <3> HIDE DEF cmd, g1, argc, Dump, Repeated, a1, a2, a3, a4, a5, a6, Right
    <3>4. Right(r)
      BY <3>2, <3>3, Zenon
    <3> HIDE DEF r
    <3> QED BY <3>1, <3>4, Zenon DEF Right
  <2> HIDE DEF argc, Dump, Repeated
  <2> QED BY <2>1, Zenon
<1>2. \A c \in Fixed : Single(c) \/ WithText(c)
  <2>1. 2 \in {2, 3}
    OBVIOUS
  <2>2. Short(Joined(2))
    BY <2>1, JoinedShort, Zenon
  <2> QED BY <2>2, MessagesSingle, TextPrints, Zenon
<1> HIDE DEF Fixed
<1>3. ASSUME argc > 1 PROVE strtol(StringAt(args[2]), 0) \in Int /\ strtol(StringAt(args[2]), 10) \in Int
  <2>1. args \in Seq(1 .. LineMax) /\ 2 \in 1 .. Len(args)
    BY <1>3 DEF Apart
  <2>2. args[2] \in 1 .. LineMax /\ LineMax \in 1 .. LineMax
    <3>1. LineMax \in 1 .. LineMax
      BY Widths
    <3> QED BY <2>1, <3>1, ElementOfSeq, Zenon
  <2>3. EndIn(cmd_buf, args[2], LineMax)
    BY <2>1, Zenon DEF Apart
  <2>4. StringAt(args[2]) \in Seq(Chars)
    BY <2>2, <2>3, StringIs, Zenon
  <2>5. 0 \in {0, 10} /\ 10 \in {0, 10}
    OBVIOUS
  <2> QED BY <2>4, <2>5, StrtolTyped, Zenon
<1>4. CASE argc >= 3 /\ run_cmd = Dump
  <2>1. argc > 1
    BY <1>4 DEF Apart
  <2>2. n \in Nat /\ RowBytes \in Nat \ {0}
    <3> DEFINE x == strtol(StringAt(args[2]), 0)
    <3>1. x \in Int
      BY <1>3, <2>1, Zenon
    <3> HIDE DEF x
    <3>2. x % Word \in Nat
      BY <3>1, PrintfAssumption
    <3> QED BY <3>2, ShellAssumption DEF x
  <2> HIDE DEF n
  <2>3. rows \in Nat
    <3>1. n + RowBytes - 1 \in Nat
      BY <2>2
    <3> QED BY <2>2, <3>1, DivMod
  <2> HIDE DEF rows
  <2>4. Single(printf(NEWLINE, << >>)) /\ Single(printf(ROW, << >>))
    BY MessagesSingle, Zenon
  <2>5. Prints(<<printf(NEWLINE, << >>)>>) /\ Prints(Repeat(printf(ROW, << >>), rows))
    BY <2>3, <2>4, PrintsAre, Zenon
  <2> QED BY <1>4, <2>5, PrintsAre, Zenon
<1>5. CASE argc > 1 /\ run_cmd = Repeated
  <2>1. times \in Nat
    BY <1>3, <1>5, GreaterTyped, Zenon
  <2> HIDE DEF times
  <2>2. 3 \in {2, 3}
    OBVIOUS
  <2>3. Short(Joined(3))
    BY <2>2, JoinedShort, Zenon
  <2>4. Short(<< >>)
    <3>1. Len(<< >>) + 2 <= BufSize
      BY Widths
    <3> QED BY <3>1, TextFew, Zenon DEF Short
  <2>5. WithText(printf(<<"%", "s", " ">>, <<Joined(3)>>)) /\ WithText(printf(<<"%", "s", "\n">>, << << >> >>))
    BY <2>3, <2>4, TextPrints, Zenon
  <2> DEFINE a == printf(<<"%", "s", " ">>, <<Joined(3)>>)
             b == printf(<<"%", "s", "\n">>, << << >> >>)
  <2> HIDE DEF a, b
  <2>6. WithText(a) /\ WithText(b) /\ run_cmd = Repeat(a, times) \o <<b>>
    BY <1>5, <2>5, Zenon DEF a, b
  <2> QED BY <2>1, <2>6, PrintsAre, Zenon
<1>6. CASE \E c \in Fixed : run_cmd = <<c>>
  BY <1>2, <1>6, PrintsAre, Zenon
<1>7. CASE run_cmd = << >>
  BY <1>7, PrintsAre, Zenon
<1> HIDE DEF argc, Dump, Repeated
<1> QED BY <1>1, <1>4, <1>5, <1>6, <1>7, Zenon

-----------------------------------------------------------------------------
\* A call starts with an empty buffer.

Fresh(v, size, fmt, ap) ==
    /\ Ok(v) /\ v.ret = NULL /\ v.size = size /\ v.n = 0 /\ v.state = "S_DEFAULT"
    /\ v.fmt = Append(fmt, NUL) /\ v.ap = ap

LEMMA CallStarts ==
    ASSUME NEW size \in 0 .. Room, NEW fmt, IsText(fmt), NEW ap
    PROVE  Fresh(vsnprintf(size, fmt, ap), size, fmt, ap)
<1> DEFINE v == vsnprintf(size, fmt, ap)
<1> DEFINE buf == [i \in 0 .. Room - 1 |-> NULL]
           f == Append(fmt, NUL)
<1>1. v = [fmt |-> f, ap |-> ap, size |-> size, buf |-> buf, n |-> 0,
           state |-> "S_DEFAULT", flags |-> {}, width |-> 0, lflags |-> 0, ret |-> NULL]
  BY Zenon DEF vsnprintf
<1>2. buf = [i \in 0 .. Room - 1 |-> buf[i]] /\ \A i \in size .. Room - 1 : buf[i] = NULL
  BY PrintfAssumption
<1>3. IsText(f)
  <2>1. PICK S : fmt \in Seq(S)
    BY Zenon DEF IsText
  <2> DEFINE T == S \cup {NUL}
  <2>2. fmt \in Seq(T) /\ NUL \in T
    BY <2>1
  <2> HIDE DEF T
  <2>3. f \in Seq(T)
    BY <2>2, AppendProperties, Zenon
  <2> QED BY <2>3, Zenon DEF IsText
<1> HIDE DEF buf, f, v
<1>4. /\ v.fmt = f /\ v.ap = ap /\ v.size = size /\ v.buf = buf /\ v.n = 0 /\ v.state = "S_DEFAULT"
      /\ v.flags = {} /\ v.width = 0 /\ v.lflags = 0 /\ v.ret = NULL
  BY <1>1
<1>5. IsCall(v)
  BY <1>1, <1>4, Zenon DEF IsCall
<1>6. 0 \in Nat /\ 0 \in Int
  OBVIOUS
<1>7. Ok(v)
  BY <1>2, <1>3, <1>4, <1>5, <1>6, Zenon DEF Ok, Watched
<1> QED BY <1>4, <1>7, Zenon DEF f, v, Fresh

LEMMA Appended ==
    ASSUME NEW S, NEW s \in Seq(S), NEW t \in Seq(S), NEW x \in S, Len(t) = Len(s) + 1,
           \A i \in 1 .. Len(s) : t[i] = s[i], t[Len(s) + 1] = x
    PROVE  Append(s, x) = t
<1> DEFINE r == Append(s, x)
<1>1. r \in Seq(S) /\ Len(r) = Len(t) /\ (\A i \in 1 .. Len(s) : r[i] = s[i]) /\ r[Len(s) + 1] = x
  BY AppendProperties
<1> HIDE DEF r
<1>2. \A i \in 1 .. Len(r) : r[i] = t[i]
  BY <1>1
<1>3. r = t
  BY <1>1, <1>2, SeqEqual, Zenon
<1> QED BY <1>3, Zenon DEF r

LEMMA AppendIs ==
    /\ \A a, b : Append(<<a>>, b) = <<a, b>>
    /\ \A a, b, c, d : Append(<<a, b, c>>, d) = <<a, b, c, d>>
<1>1. ASSUME NEW a, NEW b PROVE Append(<<a>>, b) = <<a, b>>
  <2> DEFINE S == {a, b}
             s == <<a>>
             t == <<a, b>>
  <2>1. s \in Seq(S) /\ t \in Seq(S) /\ b \in S
    OBVIOUS
  <2>2. Len(s) = 1 /\ Len(t) = 2 /\ t[2] = b /\ \A i \in 1 .. 1 : t[i] = s[i]
    OBVIOUS
  <2> HIDE DEF S, s, t
  <2>3. Len(t) = Len(s) + 1 /\ t[Len(s) + 1] = b
    BY <2>2
  <2>4. \A i \in 1 .. Len(s) : t[i] = s[i]
    BY <2>2
  <2>5. Append(s, b) = t
    BY <2>1, <2>3, <2>4, Appended, Zenon
  <2> QED BY <2>5, Zenon DEF s, t
<1>2. ASSUME NEW a, NEW b, NEW c, NEW d PROVE Append(<<a, b, c>>, d) = <<a, b, c, d>>
  <2> DEFINE S == {a, b, c, d}
             s == <<a, b, c>>
             t == <<a, b, c, d>>
  <2>1. s \in Seq(S) /\ t \in Seq(S) /\ d \in S
    OBVIOUS
  <2>2. Len(s) = 3 /\ Len(t) = 4 /\ t[4] = d /\ \A i \in 1 .. 3 : t[i] = s[i]
    OBVIOUS
  <2> HIDE DEF S, s, t
  <2>3. Len(t) = Len(s) + 1 /\ t[Len(s) + 1] = d
    BY <2>2
  <2>4. \A i \in 1 .. Len(s) : t[i] = s[i]
    BY <2>2
  <2>5. Append(s, d) = t
    BY <2>1, <2>3, <2>4, Appended, Zenon
  <2> QED BY <2>5, Zenon DEF s, t
<1> QED BY <1>1, <1>2, Zenon

LEMMA PrintStarts ==
    ASSUME NEW call, Single(call) \/ WithText(call),
           NEW v, v = vsnprintf(BufSize, call[1], call[2])
    PROVE  Ok(v) /\ v.ret = NULL /\ Runs(v)
<1>1. BufSize \in 0 .. Room /\ 0 + 2 <= BufSize
  BY ShellAssumption, PrintfAssumption
<1>2. CASE Single(call)
  <2>1. PICK c \in Letters : call = << <<c>>, << >> >>
    BY <1>2, Zenon DEF Single
  <2>2. call[1] = <<c>> /\ call[2] = << >>
    BY <2>1
  <2>3. /\ Ok(v) /\ v.ret = NULL /\ v.size = BufSize /\ v.n = 0 /\ v.state = "S_DEFAULT"
        /\ v.fmt = Append(<<c>>, NUL)
    <3>1. v = vsnprintf(BufSize, <<c>>, << >>) /\ IsText(<<c>>)
      BY <2>2, TextFew, Zenon
    <3>2. Fresh(vsnprintf(BufSize, <<c>>, << >>), BufSize, <<c>>, << >>)
      BY <1>1, <3>1, CallStarts, Zenon
    <3> QED BY <3>1, <3>2, Zenon DEF Fresh
  <2>4. OneLeft(v)
    BY <1>1, <2>1, <2>3, AppendIs, Zenon DEF OneLeft
  <2> QED BY <2>3, <2>4, UnderwayParts, Zenon DEF Runs
<1>3. CASE WithText(call)
  <2>1. PICK c \in Letters : \E t : Short(t) /\ call = << <<"%", "s", c>>, <<t>> >>
    BY <1>3, Zenon DEF WithText
  <2>2. PICK t : Short(t) /\ call = << <<"%", "s", c>>, <<t>> >>
    BY <2>1, Zenon
  <2> DEFINE f == <<"%", "s", c>>
             g == <<t>>
             T == {"%", "s", c}
  <2>3. f \in Seq(T)
    OBVIOUS
  <2>4. Append(f, NUL) = <<"%", "s", c, NUL>>
    <3>1. \A a, b : Append(<<a, b, c>>, NUL) = <<a, b, c, NUL>>
      BY AppendIs, Zenon
    <3> QED BY <3>1, Zenon
  <2>5. call = <<f, g>>
    BY <2>2, Zenon
  <2> HIDE DEF f, g, T
  <2>6. call[1] = f /\ call[2] = g
    BY <2>5
  <2>7. /\ Ok(v) /\ v.ret = NULL /\ v.size = BufSize /\ v.n = 0 /\ v.state = "S_DEFAULT"
        /\ v.fmt = Append(f, NUL) /\ v.ap = g
    <3>1. v = vsnprintf(BufSize, f, g) /\ IsText(f)
      BY <2>3, <2>6, Zenon DEF IsText
    <3>2. Fresh(vsnprintf(BufSize, f, g), BufSize, f, g)
      BY <1>1, <3>1, CallStarts, Zenon
    <3> QED BY <3>1, <3>2, Zenon DEF Fresh
  <2>8. HoldsText(v)
    BY <2>2, <2>7, Zenon DEF HoldsText, g
  <2>9. BeforeText(v)
    BY <2>1, <2>4, <2>7, <2>8, Zenon DEF BeforeText
  <2> QED BY <2>7, <2>9, UnderwayParts, Zenon DEF Runs
<1> QED BY <1>2, <1>3

-----------------------------------------------------------------------------
\* strtok on a string that ends in the buffer.

LEMMA StrtokOk ==
    ASSUME NEW str, NEW p \in 1 .. LineMax, Token(str) = p, EndIn(cmd_buf, p, LineMax), strtok(str),
           cmd_buf = [i \in 1 .. LineMax |-> cmd_buf[i]]
    PROVE  /\ cmd_buf' = [i \in 1 .. LineMax |-> cmd_buf'[i]]
           /\ \A i \in 1 .. LineMax : cmd_buf[i] = NUL => cmd_buf'[i] = NUL
           /\ next_token' # NULL =>
                /\ next_token' \in 1 .. LineMax
                /\ EndIn(cmd_buf', next_token', LineMax) /\ EndIn(cmd_buf', p, next_token' - 1)
<1> DEFINE D == {NUL, " "}
           end == EndOf(p, D)
<1>1. p # NULL /\ LineMax \in 1 .. LineMax
  BY ShellAssumption, Widths
<1>2. \/ cmd_buf[end] = NUL /\ next_token' = NULL /\ cmd_buf' = cmd_buf
      \/ cmd_buf[end] # NUL /\ next_token' = end + 1 /\ cmd_buf' = [cmd_buf EXCEPT ![end] = NUL]
  BY <1>1, Zenon DEF strtok
<1>3. CASE cmd_buf[end] = NUL /\ next_token' = NULL /\ cmd_buf' = cmd_buf
  BY <1>3, Zenon
<1>4. CASE cmd_buf[end] # NUL /\ next_token' = end + 1 /\ cmd_buf' = [cmd_buf EXCEPT ![end] = NUL]
  <2>1. PICK i \in p .. LineMax : cmd_buf[i] = NUL
    BY Zenon DEF EndIn
  <2>2. end \in p .. i
    <3>1. i \in 1 .. LineMax /\ i \in p .. i
      BY Widths
    <3>2. EndIn(cmd_buf, p, i)
      BY <2>1, <3>1, Zenon DEF EndIn
    <3>3. NUL \in D
      OBVIOUS
    <3> HIDE DEF D
    <3> QED BY <3>1, <3>2, <3>3, EndOfIs, Zenon
  <2>3. end # i
    BY <1>4, <2>1, Zenon
  <2> HIDE DEF end
  <2>4. /\ end \in 1 .. LineMax /\ end + 1 \in 1 .. LineMax /\ i \in 1 .. LineMax
        /\ i \in end + 1 .. LineMax /\ end \in p .. (end + 1) - 1
    BY <2>2, <2>3, Widths
  <2>5. cmd_buf' = [j \in 1 .. LineMax |-> IF j = end THEN NUL ELSE cmd_buf[j]]
    <3> DEFINE c == cmd_buf
    <3> HIDE DEF c
    <3>1. c = [j \in 1 .. LineMax |-> c[j]]
      BY Zenon DEF c
    <3>2. [c EXCEPT ![end] = NUL] = [j \in 1 .. LineMax |-> IF j = end THEN NUL ELSE c[j]]
      BY <2>4, <3>1
    <3> QED BY <1>4, <3>2, Zenon DEF c
  <2> DEFINE d == cmd_buf'
  <2> HIDE DEF d
  <2>6. d = [j \in 1 .. LineMax |-> IF j = end THEN NUL ELSE cmd_buf[j]]
    BY <2>5, Zenon DEF d
  <2>7. d = [j \in 1 .. LineMax |-> d[j]]
    BY <2>6
  <2>8. d[end] = NUL /\ d[i] = NUL /\ \A j \in 1 .. LineMax : cmd_buf[j] = NUL => d[j] = NUL
    BY <2>1, <2>4, <2>6, Zenon
  <2>9. EndIn(d, end + 1, LineMax) /\ EndIn(d, p, (end + 1) - 1)
    BY <2>4, <2>8, Zenon DEF EndIn
  <2> QED BY <1>4, <2>4, <2>7, <2>8, <2>9, Zenon DEF d
<1> QED BY <1>2, <1>3, <1>4

LEMMA EndInKept ==
    ASSUME NEW c, NEW d, \A i \in 1 .. LineMax : c[i] = NUL => d[i] = NUL,
           NEW p \in 1 .. LineMax, NEW q \in Int, q <= LineMax, EndIn(c, p, q)
    PROVE  EndIn(d, p, q)
<1>1. PICK i \in p .. q : c[i] = NUL
  BY Zenon DEF EndIn
<1>2. i \in 1 .. LineMax
  BY Widths
<1> QED BY <1>1, <1>2, Zenon DEF EndIn

\* More ends in the buffer: the words stay apart.
LEMMA ApartKept ==
    ASSUME Apart, \A i \in 1 .. LineMax : cmd_buf[i] = NUL => cmd_buf'[i] = NUL
    PROVE  /\ \A k \in 1 .. Len(args) : EndIn(cmd_buf', args[k], LineMax)
           /\ \A k \in 1 .. Len(args) - 1 : EndIn(cmd_buf', args[k], args[k + 1] - 1)
<1>1. args \in Seq(1 .. LineMax)
  BY Zenon DEF Apart
<1>2. ASSUME NEW k \in 1 .. Len(args) PROVE EndIn(cmd_buf', args[k], LineMax)
  <2>1. args[k] \in 1 .. LineMax
    BY <1>1, ElementOfSeq, Zenon
  <2>2. LineMax \in Int /\ LineMax <= LineMax
    BY Widths
  <2>3. EndIn(cmd_buf, args[k], LineMax)
    BY Zenon DEF Apart
  <2> QED BY <2>1, <2>2, <2>3, EndInKept, Zenon
<1>3. ASSUME NEW k \in 1 .. Len(args) - 1 PROVE EndIn(cmd_buf', args[k], args[k + 1] - 1)
  <2>1. k \in 1 .. Len(args) /\ args[k + 1] - 1 \in 1 .. LineMax
    <3>1. k \in 1 .. Len(args)
      BY <1>1
    <3> QED BY <3>1, ApartOrder, Zenon
  <2>2. args[k] \in 1 .. LineMax
    BY <1>1, <2>1, ElementOfSeq, Zenon
  <2> DEFINE q == args[k + 1] - 1
  <2>3. EndIn(cmd_buf, args[k], q) /\ q \in 1 .. LineMax
    BY <2>1, Zenon DEF Apart
  <2> HIDE DEF q
  <2>4. q \in Int /\ q <= LineMax
    BY <2>3, Widths
  <2>5. EndIn(cmd_buf', args[k], q)
    BY <2>2, <2>3, <2>4, EndInKept, Zenon
  <2> QED BY <2>5, Zenon DEF q
<1> QED BY <1>2, <1>3, Zenon

\* A word behind the ones there are.
LEMMA ApartAppend ==
    ASSUME Apart, \A i \in 1 .. LineMax : cmd_buf[i] = NUL => cmd_buf'[i] = NUL,
           NEW p \in 1 .. LineMax, EndIn(cmd_buf, p, LineMax),
           args # << >> => EndIn(cmd_buf, args[Len(args)], p - 1), args' = Append(args, p)
    PROVE  Apart' /\ args' # << >> /\ args'[Len(args')] = p
<1> DEFINE n == Len(args)
           b == args'
<1>1. args \in Seq(1 .. LineMax) /\ n \in Nat
  BY DEF Apart
<1>2. /\ b \in Seq(1 .. LineMax) /\ Len(b) = n + 1 /\ b[n + 1] = p
      /\ \A k \in 1 .. n : b[k] = args[k]
  <2>1. b = Append(args, p)
    BY Zenon
  <2> HIDE DEF b
  <2> QED BY <1>1, <2>1, AppendProperties
<1>3. EndIn(cmd_buf', p, LineMax)
  <2>1. LineMax \in Int /\ LineMax <= LineMax
    BY Widths
  <2> QED BY <2>1, EndInKept, Zenon
<1>4. args # << >> => EndIn(cmd_buf', args[n], p - 1)
  <2>1. ASSUME args # << >> PROVE args[n] \in 1 .. LineMax
    <3>1. n \in 1 .. n
      BY <1>1, <2>1
    <3> QED BY <1>1, <3>1, ElementOfSeq, Zenon
  <2>2. p - 1 \in Int /\ p - 1 <= LineMax
    BY Widths
  <2> QED BY <2>1, <2>2, EndInKept, Zenon
<1> HIDE DEF b
<1>5. ASSUME NEW k \in 1 .. Len(b) PROVE EndIn(cmd_buf', b[k], LineMax)
  <2>1. k = n + 1 \/ k \in 1 .. n
    BY <1>1, <1>2
  <2>2. CASE k = n + 1
    BY <1>2, <1>3, <2>2, Zenon
  <2>3. CASE k \in 1 .. n
    BY <1>2, <2>3, ApartKept, Zenon
  <2> QED BY <2>1, <2>2, <2>3
<1>6. ASSUME NEW k \in 1 .. Len(b) - 1 PROVE EndIn(cmd_buf', b[k], b[k + 1] - 1)
  <2>1. k \in 1 .. n /\ (k = n \/ (k \in 1 .. n - 1 /\ k + 1 \in 1 .. n))
    BY <1>1, <1>2
  <2>2. CASE k = n
    <3>1. args # << >>
      BY <1>1, <2>1, <2>2
    <3>2. b[k] = args[n] /\ b[k + 1] = p
      BY <1>2, <2>1, <2>2, Zenon
    <3> QED BY <1>4, <3>1, <3>2, Zenon
  <2>3. CASE k \in 1 .. n - 1 /\ k + 1 \in 1 .. n
    <3>1. b[k] = args[k] /\ b[k + 1] = args[k + 1]
      BY <1>2, <2>1, <2>3, Zenon
    <3>2. EndIn(cmd_buf', args[k], args[k + 1] - 1)
      BY <2>3, ApartKept, Zenon
    <3> QED BY <3>1, <3>2, Zenon
  <2> QED BY <2>1, <2>2, <2>3
<1>7. b # << >> /\ b[Len(b)] = p
  <2>1. Len(b) # 0
    BY <1>1, <1>2
  <2>2. b # << >>
    BY <2>1
  <2> QED BY <1>2, <2>2, Zenon
<1> QED BY <1>2, <1>5, <1>6, <1>7, Zenon DEF Apart, b

LEMMA TokenizeApart ==
    ASSUME WordsApart, Tokenize
    PROVE  WordsApart'
<1> DEFINE str == IF pc = "first" THEN 1 ELSE NULL
           p == Token(str)
           stored == p # NULL /\ Len(args) < MaxArgs
<1>1. /\ pc \in {"first", "more"}
      /\ strtok(str)
      /\ args' = IF stored THEN Append(args, p) ELSE args
      /\ pc' = IF stored THEN "more" ELSE IF args = << >> THEN "nothing" ELSE "run"
  BY Zenon DEF Tokenize
<1>2. Apart /\ cmd_buf = [i \in 1 .. LineMax |-> cmd_buf[i]]
  BY <1>1, Zenon DEF WordsApart
<1>3. "nothing" \notin {"first", "more", "run"} /\ "run" # "first" /\ "run" # "more" /\ "more" # "first"
  OBVIOUS
<1>4. CASE p = NULL
  <2>1. args' = args /\ cmd_buf' = cmd_buf /\ ((args = << >> /\ pc' = "nothing") \/ (args # << >> /\ pc' = "run"))
    BY <1>1, <1>4, Zenon DEF strtok
  <2>2. Apart'
    BY <1>2, <2>1, Zenon DEF Apart
  <2> QED BY <1>2, <1>3, <2>1, <2>2, Zenon DEF WordsApart
<1>5. CASE p # NULL
  <2>1. /\ p \in 1 .. LineMax /\ EndIn(cmd_buf, p, LineMax)
        /\ args # << >> => EndIn(cmd_buf, args[Len(args)], p - 1)
    <3>1. p = Resumes(str)
      <4> HIDE DEF str
      <4> QED BY <1>5, Zenon DEF Token
    <3>2. CASE pc = "first"
      <4>1. 1 # NULL /\ 1 \in 1 .. LineMax
        BY ShellAssumption, Widths
      <4>2. p = 1
        BY <3>1, <3>2, <4>1, Zenon DEF Resumes
      <4> HIDE DEF p
      <4> QED BY <3>2, <4>1, <4>2, Zenon DEF WordsApart
    <3>3. CASE pc # "first"
      <4>1. pc = "more"
        BY <1>1, <3>3, Zenon
      <4>2. p = next_token
        BY <3>1, <3>3, Zenon DEF Resumes
      <4> HIDE DEF p
      <4> QED BY <1>5, <4>1, <4>2, Zenon DEF WordsApart
    <3> QED BY <3>2, <3>3
  <2>2. /\ cmd_buf' = [i \in 1 .. LineMax |-> cmd_buf'[i]]
        /\ \A i \in 1 .. LineMax : cmd_buf[i] = NUL => cmd_buf'[i] = NUL
        /\ next_token' # NULL =>
             /\ next_token' \in 1 .. LineMax
             /\ EndIn(cmd_buf', next_token', LineMax) /\ EndIn(cmd_buf', p, next_token' - 1)
    BY <1>1, <1>2, <2>1, StrtokOk, Zenon
  <2> HIDE DEF p
  <2>3. CASE stored
    <3>1. args' = Append(args, p) /\ pc' = "more"
      BY <1>1, <2>3, Zenon
    <3>2. Apart' /\ args' # << >> /\ args'[Len(args')] = p
      BY <1>2, <2>1, <2>2, <3>1, ApartAppend, Zenon
    <3> QED BY <1>3, <2>2, <3>1, <3>2, Zenon DEF WordsApart
  <2>4. CASE ~stored
    <3>1. args' = args /\ ((args = << >> /\ pc' = "nothing") \/ (args # << >> /\ pc' = "run"))
      BY <1>1, <2>4, Zenon
    <3>2. Apart'
      BY <1>2, <2>2, <3>1, ApartKept, Zenon DEF Apart
    <3> QED BY <1>3, <2>2, <3>1, <3>2, Zenon DEF WordsApart
  <2> QED BY <2>3, <2>4
<1> QED BY <1>4, <1>5

LEMMA GetlineApart ==
    ASSUME NEW typed \in Lines \cup LaterLines, getline(typed)
    PROVE  WordsApart'
<1> DEFINE n == Len(typed)
<1>1. n \in Nat /\ n < LineMax
  BY ShellAssumption
<1>2. args' = << >> /\ pc' = "first"
      /\ cmd_buf' = [i \in 1 .. LineMax |-> IF i <= n THEN typed[i]
                                            ELSE IF i = n + 1 THEN NUL ELSE cmd_buf[i]]
  BY Zenon DEF getline
<1> HIDE DEF n
<1>3. cmd_buf' = [i \in 1 .. LineMax |-> cmd_buf'[i]]
  BY <1>2, Zenon
<1>4. EndIn(cmd_buf', 1, LineMax)
  <2>1. n + 1 \in 1 .. LineMax /\ ~(n + 1 <= n)
    BY <1>1, Widths
  <2>2. cmd_buf'[n + 1] = NUL
    BY <1>2, <2>1, Zenon
  <2> QED BY <2>1, <2>2, Zenon DEF EndIn
<1>5. Apart'
  <2> DEFINE b == args'
  <2>1. b = << >>
    BY <1>2, Zenon
  <2> HIDE DEF b
  <2>2. b \in Seq(1 .. LineMax) /\ 1 .. Len(b) = {} /\ 1 .. Len(b) - 1 = {}
    BY <2>1
  <2> QED BY <2>2, Zenon DEF Apart, b
<1>6. "first" # "more" /\ "first" # "run"
  OBVIOUS
<1> QED BY <1>2, <1>3, <1>4, <1>5, <1>6, Zenon DEF WordsApart

LEMMA ApartSame ==
    ASSUME WordsApart, cmd_buf' = cmd_buf, args' = args, next_token' = next_token,
           pc' = pc \/ pc' \notin {"first", "more", "run"}
    PROVE  WordsApart'
<1>1. Apart => Apart'
  BY Zenon DEF Apart
<1>2. CASE pc' = pc
  BY <1>1, <1>2, Zenon DEF WordsApart
<1>3. CASE pc' \notin {"first", "more", "run"}
  BY <1>3, Zenon DEF WordsApart
<1> QED BY <1>2, <1>3

-----------------------------------------------------------------------------
\* The whole.
Inv == CallOk /\ InSession /\ WordsApart

\* What whoever calls vsnprintf directly has to see to.
Contract == pc = "direct" => ArgsMatch

\* InSession and CallOk of a call that is over, or unchanged, or just made.
LEMMA SessionParts ==
    InSession <=> (pc # "direct" => Prints(prints) /\ (vs # NULL => Runs(vs)))
BY Zenon DEF InSession, Runs

LEMMA SessionPartsNext ==
    InSession' <=> (pc' # "direct" => Prints(prints') /\ (vs' # NULL => Runs(vs')))
BY Zenon DEF InSession, Runs

LEMMA PrintfParts == \A m, ap : printf(m, ap)[1] = m /\ printf(m, ap)[2] = ap
BY DEF printf

LEMMA MessageStarts ==
    ASSUME NEW m \in {NEWLINE, PROMPT}
    PROVE  LET v == vsnprintf(BufSize, m, << >>) IN Ok(v) /\ v.ret = NULL /\ Runs(v)
<1> DEFINE call == printf(m, << >>)
           v == vsnprintf(BufSize, m, << >>)
<1>1. Single(call)
  BY MessagesSingle, Zenon
<1>2. call[1] = m /\ call[2] = << >>
  BY PrintfParts, Zenon
<1>3. v = vsnprintf(BufSize, call[1], call[2])
  BY <1>2, Zenon
<1> HIDE DEF call, v
<1>4. Ok(v) /\ v.ret = NULL /\ Runs(v)
  BY <1>1, <1>3, PrintStarts, Zenon
<1> QED BY <1>4, Zenon DEF v

LEMMA RenderedText ==
    ASSUME NEW call \in Calls
    PROVE  IsText(Each(Render, call.items))
<1> DEFINE n == Len(call.items)
           s == [i \in 1 .. n |-> Render(call.items[i])]
<1>1. n \in Nat /\ \A i \in 1 .. n : Render(call.items[i]) \in Seq(STRING)
  BY ItemsAssumption, Zenon
<1> DEFINE R(i) == Render(call.items[i])
<1> HIDE DEF n, R
<1>2. n \in Nat /\ \A i \in 1 .. n : R(i) \in Seq(STRING)
  BY <1>1, Zenon DEF R
<1>3. [i \in 1 .. n |-> R(i)] \in Seq(Seq(STRING))
  BY <1>2
<1>4. s \in Seq(Seq(STRING))
  BY <1>3, Zenon DEF R
<1>5. Each(Render, call.items) = FlattenSeq(s)
  BY Zenon DEF Each, n
<1> HIDE DEF s
<1>6. FlattenSeq(s) \in Seq(STRING)
  BY <1>4, FlattenSeqType, Zenon
<1> QED BY <1>5, <1>6, Zenon DEF IsText

LEMMA InitInv == ASSUME Init PROVE Inv
<1>1. ASSUME pc \in {"direct", "prompt"} PROVE WordsApart
  <2>1. pc \notin {"first", "more", "run"} /\ pc # "first" /\ pc # "more"
    BY <1>1
  <2>2. cmd_buf = [i \in 1 .. LineMax |-> NUL]
    BY Zenon DEF Init
  <2>3. cmd_buf = [i \in 1 .. LineMax |-> cmd_buf[i]]
    BY <2>2
  <2> QED BY <2>1, <2>3, Zenon DEF WordsApart
<1>2. ASSUME NEW size \in 0 .. Room, NEW fmt, IsText(fmt), NEW ap, vs = vsnprintf(size, fmt, ap)
      PROVE  CallOk
  <2>1. Fresh(vsnprintf(size, fmt, ap), size, fmt, ap)
    BY <1>2, CallStarts, Zenon
  <2> QED BY <1>2, <2>1, Zenon DEF Fresh, CallOk
<1>3. ASSUME NEW call \in Calls, pc = "direct",
             vs = vsnprintf(call.size, Each(Render, call.items), Each(WordsOf, call.items))
      PROVE  Inv
  <2>1. call.size \in 0 .. Room
    BY ShellAssumption, Zenon
  <2> DEFINE fmt == Each(Render, call.items)
             ap == Each(WordsOf, call.items)
  <2>2. IsText(fmt) /\ vs = vsnprintf(call.size, fmt, ap)
    BY <1>3, RenderedText, Zenon
  <2> HIDE DEF fmt, ap
  <2>3. CallOk
    BY <1>2, <2>1, <2>2, Zenon
  <2> QED BY <1>1, <1>3, <2>3, Zenon DEF Inv, InSession
<1>4. ASSUME NEW call \in RawCalls, pc = "direct", vs = vsnprintf(call.size, call.fmt, call.ap)
      PROVE  Inv
  <2>1. call.size \in 0 .. Room /\ call.fmt \in Seq(STRING)
    BY ShellAssumption, Zenon
  <2>2. IsText(call.fmt)
    BY <2>1, Zenon DEF IsText
  <2>3. CallOk
    BY <1>2, <1>4, <2>1, <2>2, Zenon
  <2> QED BY <1>1, <1>4, <2>3, Zenon DEF Inv, InSession
<1>5. ASSUME pc = "prompt", prints = << >>, vs = vsnprintf(BufSize, NEWLINE, << >>)
      PROVE  Inv
  <2>1. Ok(vs) /\ vs.ret = NULL /\ Runs(vs)
    BY <1>5, MessageStarts, Zenon
  <2>2. CallOk
    BY <2>1, Zenon DEF CallOk
  <2>3. InSession
    BY <1>5, <2>1, PrintsAre, SessionParts, Zenon
  <2> QED BY <1>1, <1>5, <2>2, <2>3, Zenon DEF Inv
<1> QED BY <1>3, <1>4, <1>5, Zenon DEF Init

LEMMA LoopInv ==
    ASSUME Inv, Contract, Loop, UNCHANGED <<shell, items>>
    PROVE  Inv'
<1>1. /\ pc' = pc /\ cmd_buf' = cmd_buf /\ next_token' = next_token /\ args' = args /\ prints' = prints
      /\ CallOk /\ InSession /\ WordsApart
  BY Zenon DEF shell, Inv
<1>2. vs # NULL /\ vs.ret = NULL
  BY Zenon DEF Loop, S_DEFAULT, S_FLAGS, S_WIDTH, S_PRECIS, S_LENGTH, S_CONV, In
<1>3. WordsApart'
  BY <1>1, ApartSame, Zenon
<1>4. CASE pc = "direct"
  <2>1. ArgsMatch
    BY <1>4, Zenon DEF Contract
  <2>2. CallOk'
    BY <1>1, <2>1, LoopOk, Zenon
  <2>3. InSession'
    BY <1>1, <1>4, SessionPartsNext, Zenon
  <2> QED BY <1>3, <2>2, <2>3, Zenon DEF Inv
<1>5. CASE pc # "direct"
  <2>1. Prints(prints) /\ Runs(vs)
    BY <1>1, <1>2, <1>5, SessionParts, Zenon
  <2>2. Underway(vs) /\ vs.size = BufSize
    BY <1>2, <2>1, Zenon DEF Runs
  <2>3. ArgsMatch
    BY <2>2, SessionArgs, Zenon
  <2>4. CallOk'
    BY <1>1, <2>3, LoopOk, Zenon
  <2>5. Runs(vs')
    BY <1>1, <2>2, LoopRuns, Zenon
  <2>6. InSession'
    BY <1>1, <2>1, <2>5, SessionPartsNext, Zenon
  <2> QED BY <1>3, <2>4, <2>6, Zenon DEF Inv
<1> QED BY <1>4, <1>5

\* The steps of the shell.
LEMMA ShellInv ==
    ASSUME Inv, CallPrintf \/ Write \/ Prompt \/ Tokenize \/ Run \/ EmptyLine \/ MdmpFaults
                  \/ \E typed \in IF count = 0 THEN Lines ELSE LaterLines : getline(typed)
    PROVE  Inv'
<1>1. CallOk /\ InSession /\ WordsApart
  BY Zenon DEF Inv
<1>2. ASSUME pc \in {"prompt", "getline", "first", "more", "run", "print", "exit", "nothing"}
      PROVE  pc # "direct" /\ Prints(prints) /\ (vs # NULL => Runs(vs))
  <2>1. pc # "direct"
    BY <1>2
  <2> QED BY <1>1, <2>1, SessionParts, Zenon
<1>3. ASSUME vs' = vs, pc \in {"prompt", "getline", "first", "more", "run", "print", "exit", "nothing"},
             Prints(prints')
      PROVE  CallOk' /\ InSession'
  <2>1. CallOk'
    BY <1>1, <1>3, Zenon DEF CallOk
  <2>2. vs' # NULL => Runs(vs')
    BY <1>2, <1>3, Zenon
  <2> QED BY <1>3, <2>1, <2>2, SessionPartsNext, Zenon
<1>4. ASSUME Ok(vs'), vs'.ret = NULL, Runs(vs'), Prints(prints')
      PROVE  CallOk' /\ InSession'
  BY <1>4, SessionPartsNext, Zenon DEF CallOk
<1>5. CASE CallPrintf
  <2>1. Prints(prints) /\ prints # << >> /\ pc' = pc
    BY <1>2, <1>5, Zenon DEF CallPrintf
  <2> DEFINE call == Head(prints)
  <2>2. (Single(call) \/ WithText(call)) /\ Prints(Tail(prints))
    BY <2>1, PrintsAre, Zenon
  <2>3. vs' = vsnprintf(BufSize, call[1], call[2]) /\ prints' = Tail(prints)
    BY <1>5, Zenon DEF CallPrintf
  <2> HIDE DEF call
  <2>4. Ok(vs') /\ vs'.ret = NULL /\ Runs(vs')
    BY <2>2, <2>3, PrintStarts, Zenon
  <2>5. WordsApart'
    BY <1>1, <1>5, <2>1, ApartSame, Zenon DEF CallPrintf
  <2> QED BY <1>4, <2>2, <2>3, <2>4, <2>5, Zenon DEF Inv
<1>6. CASE Write
  <2>1. Prints(prints)
    BY <1>2, <1>6, Zenon DEF Write
  <2>2. vs' = NULL /\ prints' = prints /\ WordsApart'
    BY <1>1, <1>6, ApartSame, Zenon DEF Write
  <2>3. CallOk' /\ InSession'
    BY <2>1, <2>2, SessionPartsNext, Zenon DEF CallOk
  <2> QED BY <2>2, <2>3, Zenon DEF Inv
<1>7. CASE Prompt
  <2>1. Prints(prints) /\ prints' = prints
    BY <1>2, <1>7, Zenon DEF Prompt
  <2>2. vs' = vsnprintf(BufSize, PROMPT, << >>)
    BY <1>7, Zenon DEF Prompt
  <2>3. Ok(vs') /\ vs'.ret = NULL /\ Runs(vs')
    BY <2>2, MessageStarts, Zenon
  <2>4. WordsApart'
    <3>1. pc' \notin {"first", "more", "run"}
      BY <1>7 DEF Prompt
    <3> QED BY <1>1, <1>7, <3>1, ApartSame, Zenon DEF Prompt
  <2> QED BY <1>4, <2>1, <2>3, <2>4, Zenon DEF Inv
<1>8. CASE Tokenize
  <2>1. vs' = vs /\ prints' = prints /\ Prints(prints)
    BY <1>2, <1>8, Zenon DEF Tokenize
  <2>2. CallOk' /\ InSession'
    BY <1>3, <1>8, <2>1, Zenon DEF Tokenize
  <2> QED BY <1>1, <1>8, <2>2, TokenizeApart, Zenon DEF Inv
<1>9. CASE Run
  <2>1. vs' = vs /\ prints' = run_cmd /\ pc = "run"
    BY <1>9, Zenon DEF Run
  <2>2. Apart
    BY <1>1, <2>1, Zenon DEF WordsApart
  <2>3. Prints(prints')
    BY <2>1, <2>2, RunPrints, Zenon
  <2>4. CallOk' /\ InSession'
    BY <1>3, <2>1, <2>3, Zenon
  <2>5. WordsApart'
    <3>1. pc' \notin {"first", "more", "run"}
      <4>1. pc' = "exit" \/ pc' = "print"
        BY <1>9, Zenon DEF Run
      <4> QED BY <4>1
    <3> QED BY <1>1, <1>9, <3>1, ApartSame, Zenon DEF Run
  <2> QED BY <2>4, <2>5, Zenon DEF Inv
<1>10. CASE EmptyLine
  <2>1. vs' = vs /\ pc = "nothing" /\ (pc' = "fault" \/ pc' = "print")
        /\ (prints' = prints \/ prints' \in {<< >>, <<printf(UNKNOWN, << >>)>>})
    BY <1>10, Zenon DEF EmptyLine
  <2>2. Prints(prints')
    <3>1. Single(printf(UNKNOWN, << >>))
      BY MessagesSingle, Zenon
    <3>2. Prints(<<printf(UNKNOWN, << >>)>>) /\ Prints(<< >>) /\ Prints(prints)
      BY <1>2, <2>1, <3>1, PrintsAre, Zenon
    <3> QED BY <2>1, <3>2, Zenon
  <2>3. CallOk' /\ InSession'
    BY <1>3, <2>1, <2>2, Zenon
  <2>4. WordsApart'
    <3>1. pc' \notin {"first", "more", "run"}
      BY <2>1
    <3> QED BY <1>1, <1>10, <3>1, ApartSame, Zenon DEF EmptyLine
  <2> QED BY <2>3, <2>4, Zenon DEF Inv
<1>11. CASE \E typed \in IF count = 0 THEN Lines ELSE LaterLines : getline(typed)
  <2>1. PICK typed \in Lines \cup LaterLines : getline(typed)
    BY <1>11, Zenon
  <2>2. vs' = vs /\ prints' = prints /\ pc = "getline"
    BY <2>1, Zenon DEF getline
  <2>3. CallOk' /\ InSession'
    BY <1>2, <1>3, <2>2, Zenon
  <2> QED BY <2>1, <2>3, GetlineApart, Zenon DEF Inv
<1>12. CASE MdmpFaults
  <2>1. vs' = vs /\ prints' = prints /\ pc = "print" /\ pc' = "fault"
    BY <1>12, Zenon DEF MdmpFaults
  <2>2. CallOk' /\ InSession'
    BY <1>2, <1>3, <2>1, Zenon
  <2>3. WordsApart'
    <3>1. pc' \notin {"first", "more", "run"}
      BY <2>1
    <3> QED BY <1>1, <1>12, <3>1, ApartSame, Zenon DEF MdmpFaults
  <2> QED BY <2>2, <2>3, Zenon DEF Inv
<1> QED BY <1>5, <1>6, <1>7, <1>8, <1>9, <1>10, <1>11, <1>12, Zenon

LEMMA InvStep == Inv /\ Contract /\ [Next]_vars => Inv'
<1> SUFFICES ASSUME Inv, Contract, [Next]_vars PROVE Inv'
  OBVIOUS
<1>1. CASE Next
  BY <1>1, LoopInv, ShellInv, Zenon DEF Next
<1>2. CASE UNCHANGED vars
  <2>1. /\ vs' = vs /\ pc' = pc /\ cmd_buf' = cmd_buf /\ next_token' = next_token /\ args' = args
        /\ prints' = prints /\ CallOk /\ InSession /\ WordsApart
    BY <1>2, Zenon DEF vars, shell, Inv
  <2>2. CallOk'
    BY <2>1, Zenon DEF CallOk
  <2>3. InSession'
    BY <2>1, SessionParts, SessionPartsNext, Zenon
  <2> QED BY <2>1, <2>2, <2>3, ApartSame, Zenon DEF Inv
<1> QED BY <1>1, <1>2

LEMMA InvStays == Inv => StaysInBuffer
<1> SUFFICES ASSUME Inv, vs # NULL
             PROVE  /\ \A i \in vs.size .. Room - 1 : vs.buf[i] = NULL
                    /\ vs.ret # NULL /\ vs.size > 0 => \E i \in 0 .. vs.size - 1 : vs.buf[i] = NUL
                    /\ vs.ret # NULL /\ pc # "direct" => vs.ret \in 0 .. vs.size - 1
  BY Zenon DEF StaysInBuffer
<1>1. Ok(vs) /\ (vs.ret # NULL => Ended(vs)) /\ InSession
  BY Zenon DEF Inv, CallOk
<1>2. pc # "direct" => Runs(vs)
  BY <1>1, SessionParts, Zenon
<1> QED BY <1>1, <1>2, Zenon DEF Ok, Watched, Ended, Runs

(***************************************************************************)
(* vsnprintf and its callers.  If the caller of a direct call hands over   *)
(* the arguments its format asks for, then whatever the format, the size   *)
(* and the arguments are, nothing is stored past the buffer, the text is   *)
(* ended when the call returns; and the shell, which keeps its side of     *)
(* that contract by itself, never has printf write more than its buffer    *)
(* holds, whatever lines are typed.                                        *)
(***************************************************************************)
THEOREM ShellStaysInBuffer == Spec /\ []Contract => []StaysInBuffer
<1>1. Init => Inv
  BY InitInv
<1> QED BY <1>1, InvStep, InvStays, PTL DEF Spec

\* A direct call is all that its behaviour consists of.
LEMMA DirectStays == ASSUME pc = "direct", [Next]_vars PROVE pc' = "direct"
<1>1. ~(CallPrintf \/ Write \/ Prompt \/ Tokenize \/ Run \/ EmptyLine \/ MdmpFaults)
  <2>1. pc \notin {"prompt", "getline", "first", "more", "run", "print", "exit", "nothing"}
    OBVIOUS
  <2> QED BY <2>1, Zenon DEF CallPrintf, Write, Prompt, Tokenize, Run, EmptyLine, MdmpFaults
<1>2. \A typed : ~getline(typed)
  <2>1. pc # "getline"
    OBVIOUS
  <2> QED BY <2>1, Zenon DEF getline
<1>3. CASE Next
  BY <1>1, <1>2, <1>3, Zenon DEF Next, shell
<1>4. CASE UNCHANGED vars
  BY <1>4, Zenon DEF vars, shell
<1> QED BY <1>3, <1>4

(***************************************************************************)
(* printf as the shell calls it, without any condition: whatever is typed, *)
(* each of its calls stays in the buffer of printf, ends the text there,   *)
(* and returns a length that the buffer has.                               *)
(***************************************************************************)
THEOREM SessionStaysInBuffer == Spec => [](pc # "direct" => StaysInBuffer)
<1> DEFINE J == pc # "direct" => Inv
<1>1. Init => J
  BY InitInv
<1>2. J /\ [Next]_vars => J'
  <2> SUFFICES ASSUME J, [Next]_vars, pc' # "direct" PROVE Inv'
    BY Zenon
  <2>1. pc # "direct"
    BY DirectStays, Zenon
  <2>2. Inv /\ Contract
    BY <2>1, Zenon DEF Contract
  <2> QED BY <2>2, InvStep, Zenon
<1>3. J => (pc # "direct" => StaysInBuffer)
  BY InvStays, Zenon
<1> HIDE DEF J
<1> QED BY <1>1, <1>2, <1>3, PTL DEF Spec
=============================================================================
