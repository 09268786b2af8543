------------------------------ MODULE MCShell ------------------------------
(***************************************************************************)
(* Direct calls: every conversion with every combination of flags, widths  *)
(* and boundary values of an eight bit int; two conversions after each     *)
(* other, in buffers of every size up to the text; and every string of up  *)
(* to four characters as a format.  Sessions: every line of up to five     *)
(* characters, then two that follow.                                       *)
(***************************************************************************)
EXTENDS Shell

Strings(chars, n) == UNION {[1 .. k -> chars] : k \in 0 .. n}

Item(conv, flags, width, star, length, arg) ==
    [conv |-> conv, flags |-> flags, width |-> width, star |-> star, length |-> length, arg |-> arg]
Plain(conv, arg) == Item(conv, << >>, NULL, FALSE, << >>, arg)
FlagSeqs(flags) == {s \in Strings(flags, 3) : IsInjective(s)}
Widths == {<<NULL, FALSE>>, <<2, FALSE>>, <<6, FALSE>>, <<6, TRUE>>, <<-6, TRUE>>}

Numbers ==
    {Item(c, f, w[1], w[2], << >>, v) : c \in {"d", "i"}, f \in FlagSeqs({"0", "-", " ", "+"}), w \in Widths,
                                        v \in {-128, -1, 0, 9, 10, 127}}
    \cup {Item(c, f, w[1], w[2], << >>, v) : c \in {"u", "x", "X", "o", "b", "p"},
                                             f \in FlagSeqs({"0", "-", "#"}), w \in Widths,
                                             v \in {0, 15, 16, 255}}
Texts == {Item("s", f, w[1], w[2], << >>, t) : f \in FlagSeqs({"0", "-"}), w \in Widths,
                                               t \in {<< >>, <<"a">>, <<"a", "b", "c">>}}
         \cup {Item("c", f, w[1], w[2], << >>, "a") : f \in FlagSeqs({"0", "-"}), w \in Widths}
Longs == {Item(c, << >>, NULL, FALSE, l, v) : c \in {"d", "x"}, l \in {<<"l">>, <<"l", "l">>}, v \in {5, 127}}
         \cup {Item("d", << >>, NULL, FALSE, l, -3) : l \in {<<"l">>, <<"l", "l">>}}
Few == Longs \cup {Plain("text", "z"), Plain("%", NULL), Plain("s", <<"a", "b">>), Plain("c", "a"),
                   Plain("d", -128), Plain("u", 255), Item("d", <<"-">>, 3, FALSE, << >>, 7)}

MCCalls == [items : {<<i>> : i \in Numbers \cup Texts}, size : {12}]
           \cup [items : {<<i, j>> : i \in Few, j \in Few}, size : 0 .. 8]

MCRawCalls ==
    [fmt : Strings({"%", "d", "5", "*", ".", "h"}, 4), ap : {<<3, 250, 7, 0, 200, 1, 2, 9>>}, size : {0, 1, 3}]
    \cup [fmt : Strings({"%", "c", "5", "-"}, 4), ap : {<<NUL, "a", NUL, "b">>}, size : {0, 1, 3}]

MCLines == Strings({"e", "r", "2", " "}, 5)
MCLaterLines ==
    {<<"e", " ", "2">>, <<"x">>, <<"h">>, <<"m">>, <<"m", " ", "2", "0", " ", "0", "x", "e">>,
     <<"e", " ", "a", " ", "b", " ", "c", " ", "d", " ", "e">>, <<"r", " ", "2", " ", "a", " ", "b", " ">>,
     <<"b">>, <<"k">>, <<"s">>, <<"c">>, <<"g">>, <<"q">>}
=============================================================================
