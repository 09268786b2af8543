------------------------------- MODULE Shell -------------------------------
(***************************************************************************)
(* The user's shell, user/shall.c, with the library functions it is made   *)
(* of: strtok and strtol of libc/string.c, printf and getline of           *)
(* libc/stdio.c, and vsnprintf (module Printf) under printf.  A fixed      *)
(* message is one character, and a row of a memory dump is one message.    *)
(*                                                                         *)
(* A behaviour is a session with the shell, or one direct call of          *)
(* vsnprintf: well-formed, built from items, or any string as a format.    *)
(***************************************************************************)
EXTENDS Printf

CONSTANTS BufSize,       \* of printf's buffer (1024)
          LineMax,       \* of the shell's line buffer (128)
          MaxArgs,       \* of run_cmd's args (4)
          RowBytes,      \* of a row of mdmp (16)
          Lines,         \* what the user types first
          LaterLines, MaxLines,   \* and then, and how often
          Calls, RawCalls         \* direct calls of vsnprintf

ASSUME ShellAssumption ==
    /\ BufSize \in 8 .. Room /\ 2 * BufSize <= Word
    /\ LineMax \in 1 .. BufSize /\ RowBytes \in Nat \ {0}
    /\ \A typed \in Lines \cup LaterLines : typed \in Seq(STRING) /\ Len(typed) < LineMax
    /\ \A call \in Calls : call.size \in 0 .. Room
    /\ \A call \in RawCalls : call.size \in 0 .. Room /\ call.fmt \in Seq(STRING)
    /\ NULL \notin Nat /\ NUL \notin {"%", "s"}

VARIABLES pc, line, count,       \* where main is, the line it runs, how many it ran
          cmd_buf, next_token,   \* the line buffer and strtok's position in it
          args,                  \* the positions of the words
          prints,                \* the printf calls left of the command
          terminal,              \* what was written since the line was read
          items                  \* of a direct call

shell == <<pc, line, count, cmd_buf, next_token, args, prints, terminal>>
vars == <<vs, shell, items>>

\* The words that name the commands, one letter each.
Name == [exit |-> <<"x">>, help |-> <<"h">>, mdmp |-> <<"m">>, empty |-> << >>, break |-> <<"b">>,
         kinfo |-> <<"k">>, sd |-> <<"s">>, echo |-> <<"e">>, repeat |-> <<"r">>,
         color |-> <<"c">>, bgcolor |-> <<"g">>]
NEWLINE == <<"\n">>
PROMPT == <<"$">>
HELP == <<"H">>
USAGE == <<"U">>
ROW == <<"M">>
STACK == <<"S">>
EXITING == <<"X">>
UNKNOWN == <<"?">>

-----------------------------------------------------------------------------
\* The string at a position of the line buffer.
EndOf(p, delims) == Min({i \in p .. LineMax : cmd_buf[i] \in delims})
StringAt(p) == SubSeq(cmd_buf, p, EndOf(p, {NUL}) - 1)

\* Mutant of Resumes: a position left from an earlier line is gone on with.
Resumes_stale(str) == IF next_token # NULL THEN next_token ELSE str

\* strtok: a new string replaces the position kept from the last call.
Resumes(str) == IF str # NULL THEN str ELSE next_token
Token(str) ==
    LET start == Resumes(str)
    IN  IF start = NULL THEN NULL ELSE IF cmd_buf[start] = NUL THEN NULL ELSE start
strtok(str) ==
    IF Token(str) = NULL THEN next_token' = Resumes(str) /\ UNCHANGED cmd_buf
    ELSE LET end == EndOf(Token(str), {NUL, " "}) IN
         IF cmd_buf[end] = NUL THEN next_token' = NULL /\ UNCHANGED cmd_buf
         ELSE next_token' = end + 1 /\ cmd_buf' = [cmd_buf EXCEPT ![end] = NUL]

\* strtol: the value of the longest run of digits of the base at the start,
\* after a sign; base 0 is found from the prefix.
DigitValue(c) ==
    LET d == {i \in 1 .. 16 : c = DIGITS[i] \/ c = LDIGITS[i]}
    IN  IF d = {} THEN Word ELSE Min(d) - 1
strtol(str, base0) ==
    LET signed == str # << >> /\ str[1] \in {"-", "+"}
        s == IF signed THEN Tail(str) ELSE str
        hex == Len(s) > 1 /\ s[1] = "0" /\ s[2] \in {"x", "X"} /\ base0 \in {0, 16}
        octal == base0 = 0 /\ ~hex /\ s # << >> /\ s[1] = "0"
        base == IF base0 # 0 THEN base0 ELSE IF hex THEN 16 ELSE IF octal THEN 8 ELSE 10
        t == IF hex THEN SubSeq(s, 3, Len(s)) ELSE s
        k == Min({i \in 0 .. Len(t) : i = Len(t) \/ DigitValue(t[i + 1]) >= base})
        num[i \in 0 .. k] == IF i = 0 THEN 0 ELSE num[i - 1] * base + DigitValue(t[i])
    IN  IF signed /\ str[1] = "-" THEN -num[k] ELSE num[k]

\* strcat of the words from the ith on, each with a space, and the last
\* space cut.  Without words the cut is in front of the array: the byte
\* there is not one of the command's.
Words(i) == FlattenSeq([k \in 1 .. Len(args) - i + 1 |-> Append(StringAt(args[i + k - 1]), " ")])
Joined(i) == IF Words(i) = << >> THEN << >> ELSE Front(Words(i))

-----------------------------------------------------------------------------
printf(fmt, ap) == <<fmt, ap>>

\* The printf calls of a command; strcmp(NULL, ...) is in EmptyLine, reads
\* that fault in MdmpFaults.  Bound: the counts typed are below 2^32 - 15;
\* from there on mdmp's counter wraps and its loop has no end.
run_cmd ==
    LET cmd == StringAt(args[1])
        argc == Len(args)
    IN  CASE cmd = Name.exit -> <<printf(EXITING, << >>)>>
          [] cmd = Name.help -> <<printf(HELP, << >>)>>
          [] cmd = Name.mdmp /\ argc < 3 -> <<printf(USAGE, << >>)>>
          [] cmd = Name.mdmp /\ argc >= 3 ->
                LET n == strtol(StringAt(args[2]), 0) % Word
                IN  <<printf(NEWLINE, << >>)>>
                      \o Repeat(printf(ROW, << >>), (n + RowBytes - 1) \div RowBytes)
          [] cmd \in {Name.empty, Name.break, Name.kinfo, Name.color, Name.bgcolor} -> << >>
          [] cmd = Name.sd -> <<printf(STACK, << >>)>>
          [] cmd = Name.echo -> <<printf(<<"%", "s", "\n">>, <<Joined(2)>>)>>
          [] cmd = Name.repeat /\ argc > 1 ->
                Repeat(printf(<<"%", "s", " ">>, <<Joined(3)>>),
                       Greater(0, strtol(StringAt(args[2]), 10)))
                  \o <<printf(<<"%", "s", "\n">>, << << >> >>)>>
          [] cmd = Name.repeat /\ argc <= 1 -> << >>
          [] OTHER -> <<printf(UNKNOWN, << >>)>>

-----------------------------------------------------------------------------
\* What a direct call is made of: text, and conversions with their argument.
\* An item of text has flags << >>; width is a number or NULL.
Render(item) ==
    IF item.conv = "text" THEN <<item.arg>>
    ELSE <<"%">> \o item.flags
           \o (CASE item.width = NULL -> << >> [] item.star -> <<"*">>
                 [] OTHER -> <<DIGITS[item.width + 1]>>)
           \o item.length \o <<item.conv>>
Two(item) == item.length = <<"l", "l">>
WordsOf(item) ==
    IF item.conv = "text" THEN << >>
    ELSE (IF item.width # NULL /\ item.star THEN <<item.width % Word>> ELSE << >>)
           \o (CASE item.conv = "%" -> << >>
                 [] item.conv \in {"s", "c"} -> <<item.arg>>
                 [] Two(item) -> <<item.arg % Word, (item.arg \div Word) % Word>>
                 [] OTHER -> <<item.arg % Word>>)

ASSUME ItemsAssumption ==
    \A call \in Calls :
        Len(call.items) \in Nat /\ \A i \in 1 .. Len(call.items) : Render(call.items[i]) \in Seq(STRING)

Each(F(_), s) == FlattenSeq([i \in 1 .. Len(s) |-> F(s[i])])

Init ==
    /\ line = NULL /\ count = 0 /\ next_token = NULL /\ args = << >>
    /\ cmd_buf = [i \in 1 .. LineMax |-> NUL]
    /\ terminal = << >>
    /\ \/ \E call \in Calls :
            /\ pc = "direct" /\ prints = << >> /\ items = call.items
            /\ vs = vsnprintf(call.size, Each(Render, call.items), Each(WordsOf, call.items))
       \/ \E call \in RawCalls :
            /\ pc = "direct" /\ prints = << >> /\ items = NULL
            /\ vs = vsnprintf(call.size, call.fmt, call.ap)
       \/ /\ pc = "prompt" /\ prints = << >> /\ items = NULL
          /\ vs = vsnprintf(BufSize, NEWLINE, << >>)

\* printf: its call of vsnprintf, and its write of as many characters as
\* that returned.
CallPrintf ==
    /\ pc \in {"print", "exit"} /\ prints # << >> /\ vs = NULL
    /\ vs' = vsnprintf(BufSize, Head(prints)[1], Head(prints)[2])
    /\ prints' = Tail(prints)
    /\ UNCHANGED <<pc, line, count, cmd_buf, next_token, args, terminal, items>>

Write ==
    /\ pc \in {"prompt", "getline", "print", "exit"} /\ vs # NULL /\ vs.ret # NULL
    /\ terminal' = terminal \o [i \in 1 .. vs.ret |-> vs.buf[i - 1]]
    /\ vs' = NULL
    /\ UNCHANGED <<pc, line, count, cmd_buf, next_token, args, prints, items>>

\* main's loop: the prompt, and the line.  What an earlier line left behind
\* the end of this one stays in the buffer.
Prompt ==
    /\ vs = NULL /\ (pc = "prompt" \/ (pc = "print" /\ prints = << >>))
    /\ vs' = vsnprintf(BufSize, PROMPT, << >>) /\ pc' = "getline"
    /\ UNCHANGED <<line, count, cmd_buf, next_token, args, prints, terminal, items>>

getline(typed) ==
    /\ pc = "getline" /\ vs = NULL /\ count < MaxLines
    /\ line' = typed /\ count' = count + 1 /\ pc' = "first"
    /\ cmd_buf' = [i \in 1 .. LineMax |-> IF i <= Len(typed) THEN typed[i]
                                          ELSE IF i = Len(typed) + 1 THEN NUL ELSE cmd_buf[i]]
    /\ args' = << >> /\ terminal' = << >>
    /\ UNCHANGED <<vs, next_token, prints, items>>

\* The loop over strtok.  The call that follows the last word to be stored
\* takes one more off the line.
Tokenize ==
    /\ pc \in {"first", "more"}
    /\ LET str == IF pc = "first" THEN 1 ELSE NULL
           stored == Token(str) # NULL /\ Len(args) < MaxArgs
       IN  /\ strtok(str)
           /\ args' = IF stored THEN Append(args, Token(str)) ELSE args
           /\ pc' = IF stored THEN "more" ELSE IF args = << >> THEN "nothing" ELSE "run"
    /\ UNCHANGED <<vs, line, count, prints, terminal, items>>

Run ==
    /\ pc = "run"
    /\ prints' = run_cmd
    /\ pc' = IF StringAt(args[1]) = Name.exit THEN "exit" ELSE "print"
    /\ UNCHANGED <<vs, line, count, cmd_buf, next_token, args, terminal, items>>

\* An empty line has no first word: strcmp reads from the null pointer,
\* which faults, or finds what is there.
EmptyLine ==
    /\ pc = "nothing"
    /\ \/ pc' = "fault" /\ UNCHANGED prints
       \/ pc' = "print" /\ prints' \in {<< >>, <<printf(UNKNOWN, << >>)>>}
    /\ UNCHANGED <<vs, line, count, cmd_buf, next_token, args, terminal, items>>

\* mdmp reads wherever the line says: a row of it may be at an address that
\* is not mapped.
MdmpFaults ==
    /\ pc = "print" /\ vs = NULL /\ prints # << >> /\ Head(prints) = printf(ROW, << >>)
    /\ pc' = "fault"
    /\ UNCHANGED <<vs, line, count, cmd_buf, next_token, args, prints, terminal, items>>

Next ==
    \/ Loop /\ UNCHANGED <<shell, items>>
    \/ CallPrintf \/ Write \/ Prompt \/ Tokenize \/ Run \/ EmptyLine \/ MdmpFaults
    \/ \E typed \in IF count = 0 THEN Lines ELSE LaterLines : getline(typed)

Spec == Init /\ [][Next]_vars

-----------------------------------------------------------------------------
(***************************************************************************)
(* bputc and the end of vsnprintf: for every format, also one that stops   *)
(* in a conversion or that the function does not know, nothing is ever     *)
(* stored past the buffer, and what is in it is ended when the call        *)
(* returns; and the shell's printf never writes more than its buffer has.  *)
(***************************************************************************)
StaysInBuffer ==
    vs # NULL =>
        /\ \A i \in vs.size .. Room - 1 : vs.buf[i] = NULL
        /\ vs.ret # NULL /\ vs.size > 0 => \E i \in 0 .. vs.size - 1 : vs.buf[i] = NUL
        /\ vs.ret # NULL /\ pc # "direct" => vs.ret \in 0 .. vs.size - 1

-----------------------------------------------------------------------------
\* What an item prints.  The numeral of a magnitude, by position.
Magnitude(item) ==
    IF item.conv \in {"d", "i"} THEN Greater(item.arg, -item.arg) ELSE item.arg % Word
Numeral(m, base, letters) ==
    LET k == CHOOSE j \in 1 .. 8 : m < base ^ j /\ (j = 1 \/ m >= base ^ (j - 1))
    IN  [i \in 1 .. k |-> letters[((m \div base ^ (k - i)) % base) + 1]]
Has(item, flag) == \E i \in DOMAIN item.flags : item.flags[i] = flag
Sign(item) ==
    IF item.conv \notin {"d", "i"} THEN << >>
    ELSE IF item.arg < 0 THEN <<"-">> ELSE IF Has(item, "+") THEN <<"+">>
    ELSE IF Has(item, " ") THEN <<" ">> ELSE << >>
\* "put 0x infront 16, 0 on octals, b on binary".
AltPrefix(item) ==
    IF item.conv = "p" THEN <<"0", "x">>
    ELSE IF ~Has(item, "#") THEN << >>
    ELSE CASE item.conv \in {"x", "X"} -> <<"0", item.conv>>
           [] item.conv = "o" -> <<"0">>
           [] item.conv = "b" -> <<"b">>
           [] OTHER -> << >>

ItemText(item) ==
    LET width == IF item.width = NULL THEN 0 ELSE Greater(item.width, -item.width)
        left == Has(item, "-") \/ (item.width # NULL /\ item.star /\ item.width < 0)
        number == item.conv \notin {"s", "c"}
        head == IF number THEN Sign(item) \o AltPrefix(item) ELSE << >>
        body == CASE item.conv = "s" -> item.arg
                  [] item.conv = "c" -> <<item.arg>>
                  [] OTHER -> Numeral(Magnitude(item),
                                      IF item.conv = "p" THEN 16 ELSE BASE[item.conv],
                                      IF item.conv = "X" THEN DIGITS ELSE LDIGITS)
        pad(c) == Repeat(c, Greater(0, width - Len(head) - Len(body)))
    IN  CASE item.conv = "text" -> <<item.arg>>
          [] item.conv = "%" -> <<"%">>
          [] OTHER -> IF left THEN head \o body \o pad(" ")
                      ELSE IF number /\ Has(item, "0") THEN head \o pad("0") \o body
                      ELSE pad(" ") \o head \o body

AltBinary(item) == item.conv = "b" /\ Has(item, "#")

(***************************************************************************)
(* vsnprintf with fmt_int, fmt_chr and fmt_str: whatever conversions follow*)
(* each other, with flags and widths, each takes its own argument, and the *)
(* buffer holds the text, or as much of it as fits and the end; the result *)
(* is the length of the whole text, whatever the size.  Of calls without   *)
(* %#b, for which fmt_int has no prefix, whatever its comment says.        *)
(***************************************************************************)
FormatsAsReference ==
    pc = "direct" /\ items # NULL /\ vs.ret # NULL /\ ~(\E i \in DOMAIN items : AltBinary(items[i])) =>
        LET text == Each(ItemText, items) IN
        /\ vs.ret = Len(text)
        /\ vs.size > Len(text) => vs.buf[Len(text)] = NUL
        /\ vs.size \in 1 .. Len(text) => vs.buf[vs.size - 1] = NUL
        /\ \A i \in 1 .. Len(text) : i < vs.size => vs.buf[i - 1] = text[i]

-----------------------------------------------------------------------------
\* The pieces of a line between its spaces.  A space at the end of the line
\* starts no piece, and only the first MaxArgs count.
Spaces(s) == {i \in 1 .. Len(s) : s[i] = " "}
Pieces(s) ==
    LET starts == {0} \cup (Spaces(s) \ {Len(s)})
        next(i) == Min({j \in Spaces(s) \cup {Len(s) + 1} : j > i})
        sorted == SetToSortSeq(starts, <)
        all == [k \in 1 .. Len(sorted) |-> SubSeq(s, sorted[k] + 1, next(sorted[k]) - 1)]
    IN  SubSeq(all, 1, IF Len(all) > MaxArgs THEN MaxArgs ELSE Len(all))

\* What the shell is to answer to a line.
Spoken(words) == IF words = << >> THEN << >> ELSE Front(Each(LAMBDA w : Append(w, " "), words))
Answer(s) ==
    LET words == Pieces(s)
        times == IF Len(words) > 1 THEN get_atoi(words[2]) ELSE 0
    IN  CASE words[1] = Name.echo -> Spoken(Tail(words)) \o NEWLINE
          [] words[1] = Name.repeat /\ Len(words) > 1 ->
                Each(LAMBDA i : Append(Spoken(SubSeq(words, 3, Len(words))), " "), [i \in 1 .. times |-> i])
                  \o NEWLINE
          [] words[1] = Name.mdmp -> IF Len(words) < 3 THEN USAGE
                                     ELSE NEWLINE \o Repeat("M", (get_atoi(words[2]) + RowBytes - 1)
                                                                    \div RowBytes)
          [] words[1] = Name.help -> HELP
          [] words[1] = Name.sd -> STACK
          [] words[1] = Name.exit -> EXITING
          [] words[1] \in {Name[c] : c \in {"empty", "break", "kinfo", "color", "bgcolor"}}
               \/ (words[1] = Name.repeat /\ Len(words) = 1) -> << >>
          [] OTHER -> UNKNOWN

(***************************************************************************)
(* strtok, strcat, strtol and printf as run_cmd uses them: the answer to a *)
(* line that is not empty is made of the words of that line, whatever the  *)
(* lines before it left in the buffer and in strtok's static position.     *)
(***************************************************************************)
AnswersItsLine ==
    /\ pc = "getline" /\ vs = NULL /\ line # NULL /\ line # << >> => terminal = Answer(line) \o PROMPT
    /\ pc = "exit" /\ vs = NULL /\ prints = << >> => terminal = Answer(line)
=============================================================================
