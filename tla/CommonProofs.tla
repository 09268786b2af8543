---------------------------- MODULE CommonProofs ----------------------------
(***************************************************************************)
(* Facts about the operators several modules are built from: the least     *)
(* element of a set of numbers, by which the code's searches are stated,   *)
(* remainders, and the concatenation of a sequence of texts.               *)
(***************************************************************************)
EXTENDS Integers, SequencesExt, SequenceTheorems, WellFoundedInduction, TLAPS

Below == {ss \in Nat \X Nat : ss[1] < ss[2]}

LEMMA BelowIsLess ==
    ASSUME NEW x \in Nat, NEW y \in Nat, ~(<<y, x>> \in Below)
    PROVE  x <= y
<1>1. <<y, x>> \in Nat \X Nat
  OBVIOUS
<1>2. <<y, x>>[1] = y /\ <<y, x>>[2] = x
  OBVIOUS
<1>3. ~(y < x)
  BY <1>1, <1>2, Zenon DEF Below
<1> QED BY <1>3

\* Every set of natural numbers that is not empty has a least element, and
\* Min is that one.
LEMMA MinNat ==
    ASSUME NEW S \in SUBSET Nat, S # {}
    PROVE  Min(S) \in S /\ \A y \in S : Min(S) <= y
<1>1. IsWellFoundedOn(Below, Nat)
  BY NatLessThanWellFounded, Zenon DEF OpToRel, Below
<1>2. PICK x \in S : \A y \in S : ~(<<y, x>> \in Below)
  BY <1>1, WFMin, Zenon
<1>3. \A y \in S : x <= y
  BY <1>2, BelowIsLess
<1> QED BY <1>3, Zenon DEF Min

\* An element that is not above any other is the least.
LEMMA MinIs ==
    ASSUME NEW S \in SUBSET Nat, NEW x \in S, \A y \in S : x <= y
    PROVE  Min(S) = x
<1>1. Min(S) \in S /\ \A y \in S : Min(S) <= y
  BY MinNat
<1>2. Min(S) <= x /\ x <= Min(S) /\ Min(S) \in Nat /\ x \in Nat
  BY <1>1
<1> QED BY <1>2

\* Division with remainder, and that it is unique.
LEMMA DivMod ==
    ASSUME NEW x \in Nat, NEW b \in Nat \ {0}
    PROVE  x \div b \in Nat /\ x % b \in 0 .. b - 1 /\ x = b * (x \div b) + (x % b)
OBVIOUS

LEMMA DivModIs ==
    ASSUME NEW b \in Nat \ {0}, NEW q \in Int, NEW r \in 0 .. b - 1
    PROVE  (b * q + r) \div b = q /\ (b * q + r) % b = r
OBVIOUS

\* Of s, f holds the concatenation of the first i.
Flattens(f, s, n) ==
    f = [i \in 1 .. n |-> IF i = 1 THEN s[i] ELSE f[i - 1] \o s[i]]

LEMMA FlattensExists ==
    ASSUME NEW S, NEW s \in Seq(Seq(S)), NEW n \in 1 .. Len(s)
    PROVE  \E f : Flattens(f, s, n)
<1> DEFINE Bad == {k \in 1 .. Len(s) : ~ \E f : Flattens(f, s, k)}
<1>1. ASSUME Bad # {} PROVE FALSE
  <2>1. Bad \in SUBSET Nat
    OBVIOUS
  <2> DEFINE m == Min(Bad)
  <2>2. m \in Bad /\ \A y \in Bad : m <= y
    BY <1>1, <2>1, MinNat, Zenon
  <2> HIDE DEF m
  <2>3. CASE m = 1
    <3> DEFINE g == [i \in 1 .. 1 |-> s[1]]
    <3>1. g = [i \in 1 .. 1 |-> IF i = 1 THEN s[i] ELSE g[i - 1] \o s[i]]
      OBVIOUS
    <3>2. Flattens(g, s, 1)
      BY <3>1, Zenon DEF Flattens
    <3> QED BY <2>2, <2>3, <3>2, Zenon
  <2>4. CASE m # 1
    <3>0. m \in 1 .. Len(s) /\ \A y \in Bad : m <= y
      BY <2>2, Zenon
    <3>1. m - 1 \in 1 .. Len(s) /\ m - 1 \notin Bad /\ m \in Nat
      <4> HIDE DEF Bad
      <4> QED BY <3>0, <2>4
    <3>2. PICK f : Flattens(f, s, m - 1)
      BY <3>1, Zenon
    <3> DEFINE g == [i \in 1 .. m |-> IF i = m THEN f[m - 1] \o s[m] ELSE f[i]]
    <3>3. \A i \in 1 .. m - 1 : f[i] = IF i = 1 THEN s[i] ELSE f[i - 1] \o s[i]
      BY <3>2, <3>1 DEF Flattens
    <3>4. \A i \in 1 .. m : g[i] = IF i = 1 THEN s[i] ELSE g[i - 1] \o s[i]
      <4> TAKE i \in 1 .. m
      <4>1. CASE i = m
        <5>0. m - 1 \in 1 .. m /\ m - 1 # m /\ m \in 1 .. m
          BY <3>1
        <5>1. g[i] = f[m - 1] \o s[m] /\ g[m - 1] = f[m - 1] /\ i # 1
          BY <5>0, <4>1, <2>4, Zenon
        <5> QED BY <5>1, <4>1, Zenon
      <4>2. CASE i # m
        <5>1. i \in 1 .. m - 1 /\ g[i] = f[i] /\ (i # 1 => g[i - 1] = f[i - 1])
          BY <3>1, <4>2
        <5> QED BY <5>1, <3>3, Zenon
      <4> QED BY <4>1, <4>2
    <3>5. g = [i \in 1 .. m |-> IF i = 1 THEN s[i] ELSE g[i - 1] \o s[i]]
      <4>1. g = [i \in 1 .. m |-> g[i]]
        OBVIOUS
      <4> HIDE DEF g
      <4> QED BY <4>1, <3>4, Zenon
    <3>6. Flattens(g, s, m)
      BY <3>5, Zenon DEF Flattens
    <3> QED BY <2>2, <3>6, Zenon
  <2> QED BY <2>3, <2>4
<1> QED BY <1>1, Zenon

LEMMA FlattenSeqIs ==
    ASSUME NEW S, NEW s \in Seq(Seq(S)), s # << >>
    PROVE  \E f : Flattens(f, s, Len(s)) /\ FlattenSeq(s) = f[Len(s)]
<1>1. Len(s) \in 1 .. Len(s) /\ Len(s) # 0
  OBVIOUS
<1>2. \E f : Flattens(f, s, Len(s))
  BY <1>1, FlattensExists, Zenon
<1> DEFINE flatten == CHOOSE f : f = [i \in 1 .. Len(s) |-> IF i = 1 THEN s[i] ELSE f[i - 1] \o s[i]]
<1>3. flatten = [i \in 1 .. Len(s) |-> IF i = 1 THEN s[i] ELSE flatten[i - 1] \o s[i]]
  BY <1>2, Zenon DEF Flattens
<1>4. FlattenSeq(s) = flatten[Len(s)]
  BY <1>1, Zenon DEF FlattenSeq
<1> QED BY <1>3, <1>4, Zenon DEF Flattens

LEMMA FlattensType ==
    ASSUME NEW S, NEW s \in Seq(Seq(S)), NEW n \in 1 .. Len(s), NEW f, Flattens(f, s, n)
    PROVE  \A i \in 1 .. n : f[i] \in Seq(S)
<1>1. \A i \in 1 .. n : (i = 1 => f[i] = s[i]) /\ (i # 1 => f[i] = f[i - 1] \o s[i])
  BY Zenon DEF Flattens
<1> DEFINE Bad == {k \in 1 .. n : f[k] \notin Seq(S)}
<1>2. ASSUME Bad # {} PROVE FALSE
  <2>1. Bad \in SUBSET Nat
    OBVIOUS
  <2> DEFINE m == Min(Bad)
  <2>2. m \in Bad /\ \A y \in Bad : m <= y
    BY <1>2, <2>1, MinNat, Zenon
  <2> HIDE DEF m
  <2>3. m \in 1 .. n /\ f[m] \notin Seq(S)
    BY <2>2, Zenon
  <2>4. m # 1 => m - 1 \in 1 .. n /\ m - 1 \notin Bad
    <3> HIDE DEF Bad
    <3> QED BY <2>2, <2>3
  <2>5. m # 1 => f[m - 1] \in Seq(S)
    BY <2>4, Zenon
  <2>6. s[m] \in Seq(S)
    BY <2>3
  <2>7. CASE m = 1
    BY <2>7, <2>3, <2>6, <1>1
  <2>8. CASE m # 1
    <3>1. f[m] = f[m - 1] \o s[m]
      BY <1>1, <2>3, <2>8, Zenon
    <3> QED BY <3>1, <2>3, <2>5, <2>6, <2>8, ConcatProperties, Zenon
  <2> QED BY <2>7, <2>8
<1> QED BY <1>1, <1>2, Zenon

\* What is flattened first does not depend on what follows.
LEMMA FlattensPrefix ==
    ASSUME NEW S, NEW s \in Seq(Seq(S)), NEW x \in Seq(S), s # << >>,
           NEW f, Flattens(f, s, Len(s)),
           NEW g, Flattens(g, Append(s, x), Len(s) + 1)
    PROVE  \A i \in 1 .. Len(s) : f[i] = g[i]
<1> DEFINE n == Len(s)
<1> DEFINE t == Append(s, x)
<1>0. n \in Nat /\ n # 0 /\ t \in Seq(Seq(S)) /\ Len(t) = n + 1 /\ \A i \in 1 .. n : t[i] = s[i]
  OBVIOUS
<1>1. \A i \in 1 .. n : (i = 1 => f[i] = s[i]) /\ (i # 1 => f[i] = f[i - 1] \o s[i])
  BY Zenon DEF Flattens
<1>2. \A i \in 1 .. n + 1 : (i = 1 => g[i] = t[i]) /\ (i # 1 => g[i] = g[i - 1] \o t[i])
  BY Zenon DEF Flattens
<1> DEFINE Bad == {k \in 1 .. n : f[k] # g[k]}
<1>3. ASSUME Bad # {} PROVE FALSE
  <2>1. Bad \in SUBSET Nat
    BY <1>0
  <2> DEFINE m == Min(Bad)
  <2>2. m \in Bad /\ \A y \in Bad : m <= y
    BY <1>3, <2>1, MinNat, Zenon
  <2> HIDE DEF m
  <2>3. m \in 1 .. n /\ f[m] # g[m]
    BY <2>2, Zenon
  <2>4. m \in 1 .. n + 1 /\ (m # 1 => m - 1 \in 1 .. n /\ m - 1 \notin Bad)
    <3> HIDE DEF Bad, n
    <3> QED BY <1>0, <2>2, <2>3
  <2>5. m # 1 => f[m - 1] = g[m - 1]
    BY <2>4, Zenon
  <2>6. t[m] = s[m]
    BY <1>0, <2>3, Zenon
  <2>7. (m = 1 => f[m] = s[m]) /\ (m # 1 => f[m] = f[m - 1] \o s[m])
    BY <1>1, <2>3, Zenon
  <2>8. (m = 1 => g[m] = t[m]) /\ (m # 1 => g[m] = g[m - 1] \o t[m])
    BY <1>2, <2>4, Zenon
  <2> HIDE DEF t
  <2> QED BY <2>3, <2>5, <2>6, <2>7, <2>8, Zenon
<1> QED BY <1>3, Zenon

LEMMA FlattenSeqEmpty == FlattenSeq(<< >>) = << >>
BY DEF FlattenSeq

LEMMA FlattenSeqType ==
    ASSUME NEW S, NEW s \in Seq(Seq(S))
    PROVE  FlattenSeq(s) \in Seq(S)
<1>1. CASE s = << >>
  <2>1. << >> \in Seq(S)
    OBVIOUS
  <2> QED BY <1>1, <2>1, FlattenSeqEmpty, Zenon
<1>2. CASE s # << >>
  <2>1. PICK f : Flattens(f, s, Len(s)) /\ FlattenSeq(s) = f[Len(s)]
    BY <1>2, FlattenSeqIs, Zenon
  <2>2. Len(s) \in 1 .. Len(s)
    BY <1>2
  <2> QED BY <2>1, <2>2, FlattensType, Zenon
<1> QED BY <1>1, <1>2

\* One more sequence is put at the end.
LEMMA FlattenSeqAppend ==
    ASSUME NEW S, NEW s \in Seq(Seq(S)), NEW x \in Seq(S)
    PROVE  FlattenSeq(Append(s, x)) = FlattenSeq(s) \o x
<1> DEFINE t == Append(s, x)
<1>0. t \in Seq(Seq(S)) /\ t[Len(s) + 1] = x /\ Len(t) = Len(s) + 1
  BY AppendProperties
<1>1. Len(s) \in Nat
  OBVIOUS
<1>11. t # << >>
  <2>1. Len(t) # 0
    BY <1>0, <1>1
  <2> HIDE DEF t
  <2> QED BY <2>1
<1>2. PICK g : Flattens(g, t, Len(s) + 1) /\ FlattenSeq(t) = g[Len(s) + 1]
  <2> HIDE DEF t
  <2> QED BY <1>0, <1>11, FlattenSeqIs, Zenon
<1>3. \A i \in 1 .. Len(s) + 1 : (i = 1 => g[i] = t[i]) /\ (i # 1 => g[i] = g[i - 1] \o t[i])
  BY <1>2, Zenon DEF Flattens
<1>4. CASE s = << >>
  <2>1. Len(s) = 0 /\ 1 \in 1 .. Len(s) + 1
    BY <1>4
  <2>2. g[1] = x
    <3> HIDE DEF t
    <3> QED BY <1>0, <1>3, <2>1
  <2>3. << >> \o x = x
    OBVIOUS
  <2>4. FlattenSeq(t) = x
    <3> HIDE DEF t
    <3> QED BY <1>2, <2>1, <2>2
  <2> QED BY <1>4, <2>3, <2>4, FlattenSeqEmpty
<1>5. CASE s # << >>
  <2>1. PICK f : Flattens(f, s, Len(s)) /\ FlattenSeq(s) = f[Len(s)]
    BY <1>5, FlattenSeqIs, Zenon
  <2>2. \A i \in 1 .. Len(s) : f[i] = g[i]
    <3>1. Flattens(g, Append(s, x), Len(s) + 1)
      BY <1>2, Zenon
    <3>2. Flattens(f, s, Len(s))
      BY <2>1, Zenon
    <3> QED BY <1>5, <3>1, <3>2, FlattensPrefix
  <2>3. Len(s) \in 1 .. Len(s) /\ Len(s) + 1 \in 1 .. Len(s) + 1 /\ Len(s) + 1 # 1
           /\ (Len(s) + 1) - 1 = Len(s)
    BY <1>5
  <2>4. g[Len(s) + 1] = g[Len(s)] \o x
    <3> HIDE DEF t
    <3> QED BY <1>0, <1>3, <2>3
  <2> QED BY <1>2, <2>1, <2>2, <2>3, <2>4, Zenon
<1> QED BY <1>4, <1>5
=============================================================================
