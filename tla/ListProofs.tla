----------------------------- MODULE ListProofs -----------------------------
(***************************************************************************)
(* Proofs about List: the lists stay well formed, list_insert_sorted keeps *)
(* a sorted list sorted, and the pointer code implements ListSpec, for any *)
(* set of lists and elements and any ordering of the elements.             *)
(***************************************************************************)
EXTENDS List, SequenceTheorems, FiniteSetTheorems, WellFoundedInduction, TLAPS

\* A function on 1 .. n is a sequence of length n.
LEMMA FcnIsSeq ==
    ASSUME NEW S, NEW n \in Nat, NEW s \in [1 .. n -> S]
    PROVE  s \in Seq(S) /\ Len(s) = n
  OBVIOUS

\* The least-number principle, from the well-foundedness of strict inclusion
\* on finite sets; it stands in for induction below.
LEMMA LeastIndex ==
    ASSUME NEW T \in SUBSET Nat, T # {}
    PROVE  \E i \in T : \A j \in T : i <= j
  <1> DEFINE U == {0 .. i : i \in T}
  <1>0. \A i \in T : IsFiniteSet(0 .. i)
    BY FS_Interval
  <1>1. U \subseteq FiniteSubsetsOf(Nat) /\ U # {}
    <2>1. \A i \in T : 0 .. i \in SUBSET Nat
      OBVIOUS
    <2>2. \A i \in T : 0 .. i \in FiniteSubsetsOf(Nat)
      BY <1>0, <2>1, Zenon DEF FiniteSubsetsOf
    <2> QED BY <2>2, Zenon
  <1>2. IsWellFoundedOn(StrictSubsetOrdering(Nat), FiniteSubsetsOf(Nat))
    BY FS_StrictSubsetOrderingWellFounded
  <1> HIDE DEF U
  <1>3. PICK x \in U : \A y \in U : ~(<<y, x>> \in StrictSubsetOrdering(Nat))
    BY <1>1, <1>2, WFMin
  <1>4. PICK i \in T : x = 0 .. i
    BY DEF U
  <1>5. ASSUME NEW j \in T, j < i PROVE FALSE
    <2>1. 0 .. j \in U /\ 0 .. j \subseteq 0 .. i /\ 0 .. j # 0 .. i
      BY <1>5 DEF U
    <2>2. <<0 .. j, 0 .. i>> \in StrictSubsetOrdering(Nat)
      BY <2>1 DEF StrictSubsetOrdering
    <2> QED BY <1>3, <1>4, <2>1, <2>2
  <1> QED BY <1>5

\* What insertion into a sequence returns.
LEMMA InsertAtProperties ==
    ASSUME NEW S, NEW s \in Seq(S), NEW e \in S, NEW i \in 1 .. Len(s) + 1
    PROVE  /\ InsertAt(s, i, e) \in Seq(S)
           /\ Len(InsertAt(s, i, e)) = Len(s) + 1
           /\ \A j \in 1 .. Len(s) + 1 :
                InsertAt(s, i, e)[j] = IF j < i THEN s[j] ELSE IF j = i THEN e ELSE s[j - 1]
  <1> DEFINE a == SubSeq(s, 1, i - 1)
             b == SubSeq(s, i, Len(s))
  <1>1. a \in Seq(S) /\ Len(a) = i - 1 /\ \A j \in 1 .. i - 1 : a[j] = s[j]
    OBVIOUS
  <1>2. b \in Seq(S) /\ Len(b) = Len(s) - i + 1
        /\ \A j \in 1 .. Len(s) - i + 1 : b[j] = s[i + j - 1]
    OBVIOUS
  <1>3. <<e>> \in Seq(S) /\ Len(<<e>>) = 1 /\ <<e>>[1] = e
    OBVIOUS
  <1> HIDE DEF a, b
  <1>4. a \o <<e>> \in Seq(S) /\ Len(a \o <<e>>) = i
        /\ \A j \in 1 .. i : (a \o <<e>>)[j] = IF j < i THEN s[j] ELSE e
    BY <1>1, <1>3, ConcatProperties
  <1>5. (a \o <<e>>) \o b \in Seq(S) /\ Len((a \o <<e>>) \o b) = Len(s) + 1
        /\ \A j \in 1 .. Len(s) + 1 :
             ((a \o <<e>>) \o b)[j] = IF j <= i THEN (a \o <<e>>)[j] ELSE b[j - i]
    <2> DEFINE c == a \o <<e>>
    <2>0. c \in Seq(S) /\ Len(c) = i
      BY <1>4
    <2> HIDE DEF c
    <2>1. c \in Seq(S) /\ b \in Seq(S) /\ Len(c) = i /\ Len(c) + Len(b) = Len(s) + 1
      BY <1>2, <2>0
    <2>2. /\ c \o b \in Seq(S)
          /\ Len(c \o b) = Len(c) + Len(b)
          /\ \A j \in 1 .. Len(c) + Len(b) :
               (c \o b)[j] = IF j <= Len(c) THEN c[j] ELSE b[j - Len(c)]
      BY <2>1, ConcatProperties
    <2> QED BY <2>1, <2>2 DEF c
  <1>6. InsertAt(s, i, e) = (a \o <<e>>) \o b
    BY DEF InsertAt, a, b
  <1>7. ASSUME NEW j \in 1 .. Len(s) + 1
        PROVE  InsertAt(s, i, e)[j] = IF j < i THEN s[j] ELSE IF j = i THEN e ELSE s[j - 1]
    <2>1. CASE j <= i
      BY <2>1, <1>4, <1>5, <1>6
    <2>2. CASE j > i
      <3>1. j - i \in 1 .. Len(s) - i + 1 /\ i + (j - i) - 1 = j - 1
        BY <2>2
      <3> QED BY <2>2, <3>1, <1>2, <1>5, <1>6
    <2> QED BY <2>1, <2>2
  <1> QED BY <1>5, <1>6, <1>7

\* What removal from a sequence returns.
LEMMA RemoveAtProperties ==
    ASSUME NEW S, NEW s \in Seq(S), NEW i \in 1 .. Len(s)
    PROVE  /\ RemoveAt(s, i) \in Seq(S)
           /\ Len(RemoveAt(s, i)) = Len(s) - 1
           /\ \A j \in 1 .. Len(s) - 1 : RemoveAt(s, i)[j] = IF j < i THEN s[j] ELSE s[j + 1]
  <1> DEFINE a == SubSeq(s, 1, i - 1)
             b == SubSeq(s, i + 1, Len(s))
  <1>1. a \in Seq(S) /\ Len(a) = i - 1 /\ \A j \in 1 .. i - 1 : a[j] = s[j]
    OBVIOUS
  <1>2. b \in Seq(S) /\ Len(b) = Len(s) - i
        /\ \A j \in 1 .. Len(s) - i : b[j] = s[i + j]
    OBVIOUS
  <1> HIDE DEF a, b
  <1>3. a \o b \in Seq(S) /\ Len(a \o b) = Len(s) - 1
        /\ \A j \in 1 .. Len(s) - 1 : (a \o b)[j] = IF j <= i - 1 THEN a[j] ELSE b[j - (i - 1)]
    <2>1. a \in Seq(S) /\ b \in Seq(S) /\ Len(a) = i - 1 /\ Len(a) + Len(b) = Len(s) - 1
      BY <1>1, <1>2
    <2>2. /\ a \o b \in Seq(S)
          /\ Len(a \o b) = Len(a) + Len(b)
          /\ \A j \in 1 .. Len(a) + Len(b) :
               (a \o b)[j] = IF j <= Len(a) THEN a[j] ELSE b[j - Len(a)]
      BY <2>1, ConcatProperties
    <2> QED BY <2>1, <2>2
  <1>4. RemoveAt(s, i) = a \o b
    BY DEF RemoveAt, a, b
  <1>5. ASSUME NEW j \in 1 .. Len(s) - 1
        PROVE  RemoveAt(s, i)[j] = IF j < i THEN s[j] ELSE s[j + 1]
    <2>1. CASE j < i
      BY <2>1, <1>1, <1>3, <1>4
    <2>2. CASE j >= i
      <3>1. j - (i - 1) \in 1 .. Len(s) - i /\ i + (j - (i - 1)) = j + 1
        BY <2>2
      <3> QED BY <2>2, <3>1, <1>2, <1>3, <1>4
    <2> QED BY <2>1, <2>2
  <1> QED BY <1>3, <1>4, <1>5

\* Insertion of a new element and removal keep a sequence duplicate-free.
LEMMA InsertAtInjective ==
    ASSUME NEW S, NEW s \in Seq(S), IsInjective(s), NEW e \in S,
           \A j \in 1 .. Len(s) : s[j] # e, NEW i \in 1 .. Len(s) + 1
    PROVE  /\ IsInjective(InsertAt(s, i, e))
           /\ Range(InsertAt(s, i, e)) = Range(s) \cup {e}
  <1> DEFINE r == InsertAt(s, i, e)
  <1>1. /\ r \in Seq(S)
        /\ Len(r) = Len(s) + 1
        /\ \A j \in 1 .. Len(s) + 1 :
             r[j] = IF j < i THEN s[j] ELSE IF j = i THEN e ELSE s[j - 1]
    BY InsertAtProperties, SMTT(60)
  <1> HIDE DEF r
  <1>2. Len(s) \in Nat /\ DOMAIN s = 1 .. Len(s) /\ DOMAIN r = 1 .. Len(s) + 1
    BY <1>1
  <1>3. \A j, k \in 1 .. Len(s) : s[j] = s[k] => j = k
    BY <1>2 DEF IsInjective
  <1>4. ASSUME NEW j \in DOMAIN r
        PROVE  \/ j < i /\ j \in 1 .. Len(s) /\ r[j] = s[j]
               \/ j = i /\ r[j] = e
               \/ j > i /\ j - 1 \in 1 .. Len(s) /\ r[j] = s[j - 1]
    BY <1>1, <1>2
  <1>5. IsInjective(r)
    <2>1. SUFFICES ASSUME NEW j \in DOMAIN r, NEW k \in DOMAIN r, r[j] = r[k]
                   PROVE  j = k
      BY DEF IsInjective
    <2> QED BY <2>1, <1>2, <1>3, <1>4
  <1>6. Range(r) = Range(s) \cup {e}
    <2>1. ASSUME NEW j \in DOMAIN r PROVE r[j] = e \/ \E k \in DOMAIN s : r[j] = s[k]
      BY <1>2, <1>4
    <2>2. ASSUME NEW j \in DOMAIN s PROVE \E k \in DOMAIN r : s[j] = r[k]
      <3>1. CASE j < i
        BY <3>1, <1>1, <1>2
      <3>2. CASE j >= i
        <4>1. j + 1 \in DOMAIN r /\ r[j + 1] = s[j]
          BY <3>2, <1>1, <1>2
        <4> QED BY <4>1
      <3> QED BY <3>1, <3>2, <1>2
    <2>3. r[i] = e /\ i \in DOMAIN r
      BY <1>1, <1>2
    <2> QED BY <2>1, <2>2, <2>3 DEF Range
  <1> QED BY <1>5, <1>6 DEF r

\* Removing an entry of a sequence leaves no entry twice.
LEMMA RemoveAtInjective ==
    ASSUME NEW S, NEW s \in Seq(S), IsInjective(s), NEW i \in 1 .. Len(s)
    PROVE  /\ IsInjective(RemoveAt(s, i))
           /\ Range(RemoveAt(s, i)) = Range(s) \ {s[i]}
  <1> DEFINE r == RemoveAt(s, i)
  <1>1. /\ r \in Seq(S)
        /\ Len(r) = Len(s) - 1
        /\ \A j \in 1 .. Len(s) - 1 : r[j] = IF j < i THEN s[j] ELSE s[j + 1]
    BY RemoveAtProperties, SMTT(60)
  <1> HIDE DEF r
  <1>2. Len(s) \in Nat /\ DOMAIN s = 1 .. Len(s) /\ DOMAIN r = 1 .. Len(s) - 1
    BY <1>1
  <1>3. \A j, k \in 1 .. Len(s) : s[j] = s[k] => j = k
    BY <1>2 DEF IsInjective
  <1>4. ASSUME NEW j \in DOMAIN r
        PROVE  \/ j < i /\ j \in 1 .. Len(s) /\ r[j] = s[j]
               \/ j >= i /\ j + 1 \in 1 .. Len(s) /\ r[j] = s[j + 1]
    BY <1>1, <1>2
  <1>5. IsInjective(r)
    <2>1. SUFFICES ASSUME NEW j \in DOMAIN r, NEW k \in DOMAIN r, r[j] = r[k]
                   PROVE  j = k
      BY DEF IsInjective
    <2> QED BY <2>1, <1>2, <1>3, <1>4
  <1>6. Range(r) = Range(s) \ {s[i]}
    <2>1. ASSUME NEW j \in DOMAIN r
          PROVE  r[j] # s[i] /\ \E k \in DOMAIN s : r[j] = s[k]
      BY <1>2, <1>3, <1>4
    <2>2. ASSUME NEW j \in DOMAIN s, j # i PROVE \E k \in DOMAIN r : s[j] = r[k]
      <3>1. CASE j < i
        BY <3>1, <1>1, <1>2
      <3>2. CASE j > i
        <4>1. j - 1 \in DOMAIN r /\ r[j - 1] = s[j]
          BY <3>2, <1>1, <1>2
        <4> QED BY <4>1
      <3> QED BY <2>2, <3>1, <3>2, <1>2
    <2> QED BY <2>1, <2>2 DEF Range
  <1> QED BY <1>5, <1>6 DEF r

-----------------------------------------------------------------------------
(***************************************************************************)
(* Rep is Represents for any values of the pointers, so that the lemmas    *)
(* below speak of the state before and after a step alike.                 *)
(***************************************************************************)
Rep(h, t, n, nx, pv, s) ==
    /\ n = Len(s)
    /\ h = IF s = << >> THEN NULL ELSE s[1]
    /\ t = IF s = << >> THEN NULL ELSE s[Len(s)]
    /\ \A i \in 1 .. Len(s) :
        /\ nx[s[i]] = IF i = Len(s) THEN NULL ELSE s[i + 1]
        /\ pv[s[i]] = IF i = 1 THEN NULL ELSE s[i - 1]

\* The neighbours of position i, and of a new element placed at position i.
Before(s, i) == IF i = 1 THEN NULL ELSE s[i - 1]
At(s, i)     == IF i = Len(s) + 1 THEN NULL ELSE s[i]
After(s, i)  == IF i = Len(s) THEN NULL ELSE s[i + 1]

\* What the code does to the pointers when it links e in at position i of s,
\* and when it unlinks the element at position i.
LinkedIn(h, t, n, nx, pv, s, i, e, h2, t2, n2, nx2, pv2) ==
    /\ i \in 1 .. Len(s) + 1
    /\ \A j \in 1 .. Len(s) : s[j] # e
    /\ h2 = IF Before(s, i) = NULL THEN e ELSE h
    /\ t2 = IF At(s, i) = NULL THEN e ELSE t
    /\ n2 = n + 1
    /\ nx2 = Store([nx EXCEPT ![e] = At(s, i)], Before(s, i), e)
    /\ pv2 = Store([pv EXCEPT ![e] = Before(s, i)], At(s, i), e)

Unlinked(h, t, n, nx, pv, s, i, h2, t2, n2, nx2, pv2) ==
    /\ i \in 1 .. Len(s)
    /\ h2 = IF Before(s, i) = NULL THEN After(s, i) ELSE h
    /\ t2 = IF After(s, i) = NULL THEN Before(s, i) ELSE t
    /\ n2 = n - 1
    /\ nx2 = [Store(nx, Before(s, i), After(s, i)) EXCEPT ![s[i]] = NULL]
    /\ pv2 = [Store(pv, After(s, i), Before(s, i)) EXCEPT ![s[i]] = NULL]

\* At most one sequence is spelled by given pointers.
LEMMA RepUnique ==
    ASSUME NEW h, NEW t, NEW n, NEW nx, NEW pv,
           NEW s \in Seq(Elems), NEW u \in Seq(Elems),
           Rep(h, t, n, nx, pv, s), Rep(h, t, n, nx, pv, u)
    PROVE  s = u
  <1>1. Len(s) = Len(u) /\ Len(s) \in Nat
    BY DEF Rep
  <1> DEFINE D == {i \in 1 .. Len(s) : s[i] # u[i]}
  <1>2. SUFFICES ASSUME D # {} PROVE FALSE
    BY <1>1, SeqEqual
  <1>3. PICK i \in D : \A j \in D : i <= j
    <2>1. D \in SUBSET Nat
      BY <1>1
    <2> QED BY <1>2, <2>1, LeastIndex
  <1>4. s # << >> /\ u # << >>
    BY <1>1, <1>3
  <1>5. i # 1
    BY <1>1, <1>3, <1>4 DEF Rep
  <1>6. i - 1 \in 1 .. Len(s) /\ s[i - 1] = u[i - 1]
    BY <1>1, <1>3, <1>5
  <1>7. nx[s[i - 1]] = s[i] /\ nx[u[i - 1]] = u[i]
    BY <1>1, <1>3, <1>6 DEF Rep
  <1> QED BY <1>3, <1>6, <1>7

\* Pointers of other elements do not matter.
LEMMA RepFrame ==
    ASSUME NEW h, NEW t, NEW n, NEW nx, NEW pv, NEW nx2, NEW pv2,
           NEW s \in Seq(Elems),
           Rep(h, t, n, nx, pv, s),
           \A i \in 1 .. Len(s) : nx2[s[i]] = nx[s[i]] /\ pv2[s[i]] = pv[s[i]]
    PROVE  Rep(h, t, n, nx2, pv2, s)
  BY DEF Rep

\* Linking e in between its two neighbours inserts it.
LEMMA RepInsert ==
    ASSUME NEW h, NEW t, NEW n, NEW nx \in [Elems -> Ptr], NEW pv \in [Elems -> Ptr],
           NEW s \in Seq(Elems), Rep(h, t, n, nx, pv, s), IsInjective(s),
           NEW i, NEW e \in Elems, NEW h2, NEW t2, NEW m, NEW nx2, NEW pv2,
           LinkedIn(h, t, n, nx, pv, s, i, e, h2, t2, m, nx2, pv2)
    PROVE  Rep(h2, t2, m, nx2, pv2, InsertAt(s, i, e))
  <1> DEFINE r == InsertAt(s, i, e)
  <1> USE DEF LinkedIn
  <1>1. /\ r \in Seq(Elems)
        /\ Len(r) = Len(s) + 1
        /\ \A j \in 1 .. Len(s) + 1 :
             r[j] = IF j < i THEN s[j] ELSE IF j = i THEN e ELSE s[j - 1]
    <2>1. \A S : s \in Seq(S) /\ e \in S =>
            /\ InsertAt(s, i, e) \in Seq(S)
            /\ Len(InsertAt(s, i, e)) = Len(s) + 1
            /\ \A j \in 1 .. Len(s) + 1 :
                 InsertAt(s, i, e)[j] = IF j < i THEN s[j] ELSE IF j = i THEN e ELSE s[j - 1]
      BY InsertAtProperties
    <2> QED BY <2>1, Zenon
  <1> HIDE DEF r
  <1>2. Len(s) \in Nat /\ DOMAIN s = 1 .. Len(s) /\ DOMAIN r = 1 .. Len(r)
        /\ \A j \in 1 .. Len(s) : s[j] \in Elems /\ s[j] # NULL
    BY <1>1, NullAssumption
  <1>3. \A j, k \in 1 .. Len(s) : s[j] = s[k] => j = k
    BY <1>2 DEF IsInjective
  <1>6. e # NULL /\ r # << >> /\ (i # 1 => Before(s, i) = s[i - 1] /\ s[i - 1] # NULL)
        /\ (i # Len(s) + 1 => At(s, i) = s[i] /\ s[i] # NULL)
        /\ (i = 1 => Before(s, i) = NULL) /\ (i = Len(s) + 1 => At(s, i) = NULL)
    BY <1>1, <1>2, NullAssumption DEF Before, At
  <1>7. h2 = r[1]
    BY <1>1, <1>2, <1>6 DEF Rep
  <1>8. t2 = r[Len(r)]
    BY <1>1, <1>2, <1>6 DEF Rep
  <1>9. ASSUME NEW j \in 1 .. Len(r)
        PROVE  nx2[r[j]] = IF j = Len(r) THEN NULL ELSE r[j + 1]
    <2>0. j \in 1 .. Len(s) + 1 /\ DOMAIN nx = Elems /\ r[j] \in Elems
      BY <1>1
    <2>1. CASE j = i
      BY <2>0, <2>1, <1>1, <1>2, <1>6 DEF Store
    <2>2. CASE j = i - 1
      BY <2>0, <2>2, <1>1, <1>2, <1>3, <1>6 DEF Store
    <2>3. CASE j < i - 1
      <3>1. r[j] = s[j] /\ r[j + 1] = s[j + 1] /\ j \in 1 .. Len(s) /\ j # Len(r)
        BY <2>0, <2>3, <1>1, <1>2
      <3>2. nx2[s[j]] = nx[s[j]]
        BY <2>0, <2>3, <3>1, <1>1, <1>2, <1>3, <1>6 DEF Store
      <3> QED BY <2>3, <3>1, <3>2, <1>2 DEF Rep
    <2>4. CASE j > i
      <3>1. j - 1 \in 1 .. Len(s) /\ r[j] = s[j - 1]
        BY <2>0, <2>4, <1>1, <1>2
      <3>4. ASSUME j # Len(r) PROVE r[j + 1] = s[j]
        <4>1. j + 1 \in 1 .. Len(s) + 1 /\ ~(j + 1 < i) /\ j + 1 # i /\ (j + 1) - 1 = j
          BY <2>0, <2>4, <3>4, <1>1, <1>2
        <4> QED BY <4>1, <1>1
      <3>2. nx2[s[j - 1]] = nx[s[j - 1]]
        BY <2>0, <2>4, <3>1, <1>1, <1>2, <1>3, <1>6 DEF Store
      <3>3. nx[s[j - 1]] = IF j - 1 = Len(s) THEN NULL ELSE s[(j - 1) + 1]
        BY <3>1 DEF Rep
      <3> QED BY <2>0, <2>4, <3>1, <3>2, <3>3, <3>4, <1>1, <1>2
    <2>5. j = i \/ j = i - 1 \/ j < i - 1 \/ j > i
      BY <2>0, <1>2
    <2> QED BY <2>1, <2>2, <2>3, <2>4, <2>5
  <1>10. ASSUME NEW j \in 1 .. Len(r)
         PROVE  pv2[r[j]] = IF j = 1 THEN NULL ELSE r[j - 1]
    <2>0. j \in 1 .. Len(s) + 1 /\ DOMAIN pv = Elems /\ r[j] \in Elems
      BY <1>1
    <2>1. CASE j = i
      <3>1. r[j] = e /\ (i # 1 => r[i - 1] = s[i - 1])
        BY <2>0, <2>1, <1>1, <1>2
      <3>2. pv2[e] = Before(s, i)
        BY <1>2, <1>6 DEF Store
      <3> QED BY <2>0, <2>1, <3>1, <3>2, <1>2, <1>6
    <2>2. CASE j = i + 1
      BY <2>0, <2>2, <1>1, <1>2, <1>3, <1>6 DEF Store
    <2>3. CASE j < i
      <3>1. r[j] = s[j] /\ j \in 1 .. Len(s)
        BY <2>0, <2>3, <1>1, <1>2
      <3>4. j # 1 => r[j - 1] = s[j - 1]
        BY <2>0, <2>3, <1>1, <1>2
      <3>5. s[j] # e /\ s[j] \in Elems /\ (i # Len(s) + 1 => s[j] # s[i])
        BY <2>3, <3>1, <1>2, <1>3, SMTT(30)
      <3>2. pv2[s[j]] = pv[s[j]]
        BY <2>0, <3>5, <1>6 DEF Store
      <3>3. pv[s[j]] = IF j = 1 THEN NULL ELSE s[j - 1]
        BY <3>1 DEF Rep
      <3> QED BY <3>1, <3>2, <3>3, <3>4
    <2>4. CASE j > i + 1
      <3>1. r[j] = s[j - 1] /\ j - 1 \in 1 .. Len(s) /\ r[j - 1] = s[j - 2]
        BY <2>0, <2>4, <1>1, <1>2, SMTT(30)
      <3>2. pv2[s[j - 1]] = pv[s[j - 1]]
        BY <2>0, <2>4, <3>1, <1>1, <1>2, <1>3, <1>6 DEF Store
      <3>3. pv[s[j - 1]] = IF j - 1 = 1 THEN NULL ELSE s[(j - 1) - 1]
        BY <3>1 DEF Rep
      <3> QED BY <2>0, <2>4, <3>1, <3>2, <3>3, <1>2
    <2> QED BY <2>0, <2>1, <2>2, <2>3, <2>4, <1>2
  <1>11. m = Len(r)
    BY <1>1 DEF Rep
  <1> QED BY <1>6, <1>7, <1>8, <1>9, <1>10, <1>11 DEF Rep, r

\* Unlinking the element at position i removes it.
LEMMA RepRemove ==
    ASSUME NEW h, NEW t, NEW n, NEW nx \in [Elems -> Ptr], NEW pv \in [Elems -> Ptr],
           NEW s \in Seq(Elems), Rep(h, t, n, nx, pv, s), IsInjective(s),
           NEW i, NEW h2, NEW t2, NEW m, NEW nx2, NEW pv2,
           Unlinked(h, t, n, nx, pv, s, i, h2, t2, m, nx2, pv2)
    PROVE  Rep(h2, t2, m, nx2, pv2, RemoveAt(s, i))
  <1> DEFINE r == RemoveAt(s, i)
  <1> USE DEF Unlinked
  <1>1. /\ r \in Seq(Elems)
        /\ Len(r) = Len(s) - 1
        /\ \A j \in 1 .. Len(s) - 1 : r[j] = IF j < i THEN s[j] ELSE s[j + 1]
    BY RemoveAtProperties, Zenon
  <1> HIDE DEF r
  <1>2. Len(s) \in Nat /\ DOMAIN s = 1 .. Len(s) /\ DOMAIN r = 1 .. Len(r)
        /\ \A j \in 1 .. Len(s) : s[j] \in Elems /\ s[j] # NULL
    BY <1>1, NullAssumption
  <1>3. \A j, k \in 1 .. Len(s) : s[j] = s[k] => j = k
    BY <1>2 DEF IsInjective
  <1>6. /\ (i # 1 => Before(s, i) = s[i - 1] /\ s[i - 1] # NULL)
        /\ (i # Len(s) => After(s, i) = s[i + 1] /\ s[i + 1] # NULL)
        /\ (i = 1 => Before(s, i) = NULL) /\ (i = Len(s) => After(s, i) = NULL)
    BY <1>1, <1>2, SMTT(30) DEF Before, After
  <1>7. h2 = IF r = << >> THEN NULL ELSE r[1]
    BY <1>1, <1>2, <1>6 DEF Rep
  <1>8. t2 = IF r = << >> THEN NULL ELSE r[Len(r)]
    BY <1>1, <1>2, <1>6 DEF Rep
  <1>9. ASSUME NEW j \in 1 .. Len(r)
        PROVE  nx2[r[j]] = IF j = Len(r) THEN NULL ELSE r[j + 1]
    <2>1. CASE j = i - 1
      BY <2>1, <1>1, <1>2, <1>3, <1>6 DEF Store
    <2>2. CASE j < i - 1
      BY <2>2, <1>1, <1>2, <1>3, <1>6 DEF Store, Rep
    <2>3. CASE j >= i
      BY <2>3, <1>1, <1>2, <1>3, <1>6 DEF Store, Rep
    <2> QED BY <2>1, <2>2, <2>3, <1>1, <1>2
  <1>10. ASSUME NEW j \in 1 .. Len(r)
         PROVE  pv2[r[j]] = IF j = 1 THEN NULL ELSE r[j - 1]
    <2>1. CASE j = i
      BY <2>1, <1>1, <1>2, <1>3, <1>6 DEF Store
    <2>2. CASE j < i
      BY <2>2, <1>1, <1>2, <1>3, <1>6 DEF Store, Rep
    <2>3. CASE j > i
      BY <2>3, <1>1, <1>2, <1>3, <1>6 DEF Store, Rep
    <2> QED BY <2>1, <2>2, <2>3, <1>1, <1>2
  <1>11. m = Len(r)
    BY <1>1 DEF Rep
  <1> QED BY <1>7, <1>8, <1>9, <1>10, <1>11 DEF Rep, r

-----------------------------------------------------------------------------
(***************************************************************************)
(* Holds(l, s): list l is spelled by s, and s is exactly what the callers  *)
(* put on l.  A list has at most one such s, namely Contents(l).           *)
(***************************************************************************)
Holds(l, s) ==
    /\ s \in Seq(Elems)
    /\ Rep(head[l], tail[l], size[l], next, prev, s)
    /\ IsInjective(s)
    /\ Range(s) = {e \in Elems : owner[e] = l}

\* Only list l changes, and becomes s.
ContentsBecome(l, s) ==
    \A k \in Lists : Contents(k)' = IF k = l THEN s ELSE Contents(k)

\* Only one sequence is represented by given pointers: CHOOSE finds it.
LEMMA ChooseRep ==
    ASSUME NEW h, NEW t, NEW n, NEW nx, NEW pv,
           NEW s \in Seq(Elems), Rep(h, t, n, nx, pv, s)
    PROVE  /\ s \in [1 .. n -> Elems]
           /\ (CHOOSE u \in [1 .. n -> Elems] : Rep(h, t, n, nx, pv, u)) = s
  <1>1. n \in Nat /\ s \in [1 .. n -> Elems]
    BY DEF Rep
  <1>2. ASSUME NEW u \in [1 .. n -> Elems], Rep(h, t, n, nx, pv, u)
        PROVE  u = s
    <2>1. u \in Seq(Elems)
      BY <1>1, FcnIsSeq
    <2> QED BY <1>2, <2>1, RepUnique
  <1> QED BY <1>1, <1>2

\* A well-formed list holds its Contents.
LEMMA WellFormedHolds ==
    ASSUME TypeOK, NEW l \in Lists, WellFormedList(l)
    PROVE  Holds(l, Contents(l))
  <1>1. PICK s \in [1 .. size[l] -> Elems] :
            /\ Represents(l, s)
            /\ IsInjective(s)
            /\ Range(s) = {e \in Elems : owner[e] = l}
    BY DEF WellFormedList
  <1>2. s \in Seq(Elems)
    BY FcnIsSeq DEF TypeOK
  <1>3. Rep(head[l], tail[l], size[l], next, prev, s)
    BY <1>1 DEF Rep, Represents
  <1>4. \A u : Represents(l, u) <=> Rep(head[l], tail[l], size[l], next, prev, u)
    BY DEF Rep, Represents
  <1>5. Contents(l) = s
    BY <1>2, <1>3, <1>4, ChooseRep DEF Contents
  <1> QED BY <1>1, <1>2, <1>3, <1>5 DEF Holds

\* A list that holds s after a step is well formed, with Contents s.
LEMMA HoldsWellFormed ==
    ASSUME NEW l \in Lists, NEW s, Holds(l, s)'
    PROVE  WellFormedList(l)' /\ Contents(l)' = s
  <1>1. /\ s \in Seq(Elems)
        /\ Rep(head'[l], tail'[l], size'[l], next', prev', s)
        /\ IsInjective(s)
        /\ Range(s) = {e \in Elems : owner'[e] = l}
    BY DEF Holds
  <1>2. \A u : Represents(l, u)' <=> Rep(head'[l], tail'[l], size'[l], next', prev', u)
    BY DEF Rep, Represents
  <1>3. /\ s \in [1 .. size'[l] -> Elems]
        /\ (CHOOSE u \in [1 .. size'[l] -> Elems] :
                Rep(head'[l], tail'[l], size'[l], next', prev', u)) = s
    BY <1>1, ChooseRep
  <1>4. Contents(l)' = s
    BY <1>2, <1>3 DEF Contents
  <1>5. WellFormedList(l)'
    BY <1>1, <1>2, <1>3 DEF WellFormedList
  <1> QED BY <1>4, <1>5

\* Lists other than the one operated on are untouched, when the links of
\* the elements they own are.
LEMMA OtherLists ==
    ASSUME TypeOK, NEW k \in Lists, WellFormedList(k),
           head'[k] = head[k], tail'[k] = tail[k], size'[k] = size[k],
           {e \in Elems : owner'[e] = k} = {e \in Elems : owner[e] = k},
           \A e \in Elems : owner[e] = k => next'[e] = next[e] /\ prev'[e] = prev[e]
    PROVE  WellFormedList(k)' /\ Contents(k)' = Contents(k)
  <1>0. PICK s : s = Contents(k)
    OBVIOUS
  <1>1. Holds(k, s)
    BY <1>0, WellFormedHolds
  <1>2. \A i \in 1 .. Len(s) : s[i] \in Elems /\ owner[s[i]] = k
    BY <1>1 DEF Holds, Range
  <1>3. Rep(head'[k], tail'[k], size'[k], next', prev', s)
    BY <1>1, <1>2, RepFrame DEF Holds
  <1>4. Holds(k, s)'
    BY <1>1, <1>3 DEF Holds
  <1> QED BY <1>0, <1>4, HoldsWellFormed

\* Every insertion links e between two neighbours of list l.
LEMMA InsertStep ==
    ASSUME TypeOK, WellFormed, NEW l \in Lists, NEW e \in Elems, owner[e] = NULL,
           NEW i \in 1 .. Len(Contents(l)) + 1,
           next' = Store([next EXCEPT ![e] = At(Contents(l), i)], Before(Contents(l), i), e),
           prev' = Store([prev EXCEPT ![e] = Before(Contents(l), i)], At(Contents(l), i), e),
           head' = OrElse(Before(Contents(l), i), head, l, e),
           tail' = OrElse(At(Contents(l), i), tail, l, e),
           Added(l, e)
    PROVE  TypeOK' /\ WellFormed' /\ ContentsBecome(l, InsertAt(Contents(l), i, e))
  <1>0. PICK s : s = Contents(l)
    OBVIOUS
  <1>1. Holds(l, s)
    BY <1>0, WellFormedHolds DEF WellFormed
  <1>2. /\ s \in Seq(Elems) /\ IsInjective(s)
        /\ i \in 1 .. Len(s) + 1
        /\ \A j \in 1 .. Len(s) : s[j] \in Elems /\ s[j] # e /\ s[j] # NULL /\ owner[s[j]] = l
    BY <1>0, <1>1, NullAssumption DEF Holds, Range
  <1>3. /\ Before(s, i) # NULL => Before(s, i) \in Elems /\ owner[Before(s, i)] = l
        /\ At(s, i) # NULL => At(s, i) \in Elems /\ owner[At(s, i)] = l
    BY <1>2 DEF Before, At
  <1>4. Before(s, i) \in Ptr /\ At(s, i) \in Ptr
    BY <1>3 DEF Ptr
  <1>5. next' = Store([next EXCEPT ![e] = At(s, i)], Before(s, i), e)
        /\ prev' = Store([prev EXCEPT ![e] = Before(s, i)], At(s, i), e)
        /\ head' = OrElse(Before(s, i), head, l, e)
        /\ tail' = OrElse(At(s, i), tail, l, e)
    BY <1>0
  <1>6. TypeOK'
    <2>1. next' \in [Elems -> Ptr] /\ prev' \in [Elems -> Ptr]
      BY <1>4, <1>5 DEF TypeOK, Ptr, Store
    <2>2. head' \in [Lists -> Ptr] /\ tail' \in [Lists -> Ptr]
      BY <1>5 DEF TypeOK, Ptr, OrElse
    <2>3. size' \in [Lists -> Nat] /\ owner' \in [Elems -> Lists \cup {NULL}] /\ ret' \in Ptr
      BY DEF TypeOK, Ptr, Added
    <2> QED BY <2>1, <2>2, <2>3 DEF TypeOK
  <1>7. /\ head'[l] = IF Before(s, i) = NULL THEN e ELSE head[l]
        /\ tail'[l] = IF At(s, i) = NULL THEN e ELSE tail[l]
        /\ size'[l] = size[l] + 1
        /\ {x \in Elems : owner'[x] = l} = {x \in Elems : owner[x] = l} \cup {e}
    BY <1>5 DEF TypeOK, OrElse, Added
  <1>8. Holds(l, InsertAt(s, i, e))'
    <2>1. /\ Rep(head'[l], tail'[l], size'[l], next', prev', InsertAt(s, i, e))
          /\ IsInjective(InsertAt(s, i, e))
          /\ Range(InsertAt(s, i, e)) = Range(s) \cup {e}
      <3>1. next \in [Elems -> Ptr] /\ prev \in [Elems -> Ptr]
        BY DEF TypeOK
      <3>2. Rep(head[l], tail[l], size[l], next, prev, s)
        BY <1>1 DEF Holds
      <3>3. \A j \in 1 .. Len(s) : s[j] # e
        BY <1>2
      <3>4. Rep(head'[l], tail'[l], size'[l], next', prev', InsertAt(s, i, e))
        <4>1. LinkedIn(head[l], tail[l], size[l], next, prev, s, i, e,
                       head'[l], tail'[l], size'[l], next', prev')
          BY <1>2, <1>5, <1>7, <3>3 DEF LinkedIn
        <4> QED BY <1>2, <3>1, <3>2, <4>1, RepInsert, Zenon
      <3>5. IsInjective(InsertAt(s, i, e)) /\ Range(InsertAt(s, i, e)) = Range(s) \cup {e}
        BY <1>2, <3>3, InsertAtInjective, SMTT(60)
      <3> QED BY <3>4, <3>5
    <2>2. InsertAt(s, i, e) \in Seq(Elems)
      BY <1>2, InsertAtProperties, Zenon
    <2> QED BY <1>1, <1>7, <2>1, <2>2 DEF Holds
  <1>9. WellFormedList(l)' /\ Contents(l)' = InsertAt(s, i, e)
    BY <1>8, HoldsWellFormed
  <1>10. ASSUME NEW k \in Lists, k # l
         PROVE  WellFormedList(k)' /\ Contents(k)' = Contents(k)
    <2>1. head'[k] = head[k] /\ tail'[k] = tail[k] /\ size'[k] = size[k]
      BY <1>5, <1>10 DEF TypeOK, OrElse, Added
    <2>2. {x \in Elems : owner'[x] = k} = {x \in Elems : owner[x] = k}
      BY <1>10, NullAssumption DEF TypeOK, Added
    <2>3. ASSUME NEW x \in Elems, owner[x] = k
          PROVE  next'[x] = next[x] /\ prev'[x] = prev[x]
      <3>1. x # e /\ x # Before(s, i) /\ x # At(s, i)
        BY <1>3, <1>10, <2>3, NullAssumption
      <3> QED BY <3>1, <1>3, <1>5 DEF Store, TypeOK
    <2> QED BY <2>1, <2>2, <2>3, OtherLists DEF WellFormed
  <1> QED BY <1>0, <1>6, <1>9, <1>10 DEF WellFormed, ContentsBecome

\* Every removal unlinks the element at some position of list l.
LEMMA RemoveStep ==
    ASSUME TypeOK, WellFormed, NEW l \in Lists, NEW r,
           NEW i \in 1 .. Len(Contents(l)),
           next' = [Store(next, Before(Contents(l), i), After(Contents(l), i))
                        EXCEPT ![Contents(l)[i]] = NULL],
           prev' = [Store(prev, After(Contents(l), i), Before(Contents(l), i))
                        EXCEPT ![Contents(l)[i]] = NULL],
           head' = OrElse(Before(Contents(l), i), head, l, After(Contents(l), i)),
           tail' = OrElse(After(Contents(l), i), tail, l, Before(Contents(l), i)),
           r \in Ptr, Removed(l, Contents(l)[i], r)
    PROVE  TypeOK' /\ WellFormed' /\ ContentsBecome(l, RemoveAt(Contents(l), i))
  <1>0. PICK s : s = Contents(l)
    OBVIOUS
  <1>1. Holds(l, s)
    BY <1>0, WellFormedHolds DEF WellFormed
  <1>2. /\ s \in Seq(Elems) /\ IsInjective(s)
        /\ i \in 1 .. Len(s) /\ size[l] = Len(s) /\ Len(s) \in Nat
        /\ \A j \in 1 .. Len(s) : s[j] \in Elems /\ s[j] # NULL /\ owner[s[j]] = l
    BY <1>0, <1>1, NullAssumption DEF Holds, Range, Rep
  <1>3. /\ Before(s, i) # NULL => Before(s, i) \in Elems /\ owner[Before(s, i)] = l
        /\ After(s, i) # NULL => After(s, i) \in Elems /\ owner[After(s, i)] = l
    BY <1>2 DEF Before, After
  <1>4. Before(s, i) \in Ptr /\ After(s, i) \in Ptr
    BY <1>3 DEF Ptr
  <1>5. next' = [Store(next, Before(s, i), After(s, i)) EXCEPT ![s[i]] = NULL]
        /\ prev' = [Store(prev, After(s, i), Before(s, i)) EXCEPT ![s[i]] = NULL]
        /\ head' = OrElse(Before(s, i), head, l, After(s, i))
        /\ tail' = OrElse(After(s, i), tail, l, Before(s, i))
        /\ Removed(l, s[i], r)
    BY <1>0
  <1>6. TypeOK'
    <2>1. size' \in [Lists -> Nat]
      BY <1>2, <1>5 DEF TypeOK, Removed
    <2>2. next' \in [Elems -> Ptr] /\ prev' \in [Elems -> Ptr]
      <3>1. /\ Store(next, Before(s, i), After(s, i)) \in [Elems -> Ptr]
            /\ Store(prev, After(s, i), Before(s, i)) \in [Elems -> Ptr]
        BY <1>4 DEF TypeOK, Ptr, Store
      <3> QED BY <3>1, <1>5 DEF Ptr
    <2>3. head' \in [Lists -> Ptr] /\ tail' \in [Lists -> Ptr]
      BY <1>4, <1>5 DEF TypeOK, Ptr, OrElse
    <2>4. owner' \in [Elems -> Lists \cup {NULL}] /\ ret' \in Ptr
      <3>1. owner' = [owner EXCEPT ![s[i]] = NULL] /\ ret' = r
        BY <1>5, Zenon DEF Removed
      <3>2. owner \in [Elems -> Lists \cup {NULL}]
        BY DEF TypeOK
      <3> QED BY <3>1, <3>2
    <2> QED BY <2>1, <2>2, <2>3, <2>4 DEF TypeOK
  <1>7. /\ head'[l] = IF Before(s, i) = NULL THEN After(s, i) ELSE head[l]
        /\ tail'[l] = IF After(s, i) = NULL THEN Before(s, i) ELSE tail[l]
        /\ size'[l] = size[l] - 1
        /\ {x \in Elems : owner'[x] = l} = {x \in Elems : owner[x] = l} \ {s[i]}
    BY <1>2, <1>5, NullAssumption DEF TypeOK, OrElse, Removed
  <1>8. Holds(l, RemoveAt(s, i))'
    <2>1. /\ Rep(head'[l], tail'[l], size'[l], next', prev', RemoveAt(s, i))
          /\ IsInjective(RemoveAt(s, i))
          /\ Range(RemoveAt(s, i)) = Range(s) \ {s[i]}
      <3>1. next \in [Elems -> Ptr] /\ prev \in [Elems -> Ptr]
        BY DEF TypeOK
      <3>2. Rep(head[l], tail[l], size[l], next, prev, s)
        BY <1>1 DEF Holds
      <3>3. Rep(head'[l], tail'[l], size'[l], next', prev', RemoveAt(s, i))
        <4>1. Unlinked(head[l], tail[l], size[l], next, prev, s, i,
                       head'[l], tail'[l], size'[l], next', prev')
          BY <1>2, <1>5, <1>7 DEF Unlinked
        <4> QED BY <1>2, <3>1, <3>2, <4>1, RepRemove, Zenon
      <3>4. IsInjective(RemoveAt(s, i)) /\ Range(RemoveAt(s, i)) = Range(s) \ {s[i]}
        BY <1>2, RemoveAtInjective, SMTT(60)
      <3> QED BY <3>3, <3>4
    <2>2. RemoveAt(s, i) \in Seq(Elems)
      BY <1>2, RemoveAtProperties, Zenon
    <2> QED BY <1>1, <1>7, <2>1, <2>2 DEF Holds
  <1>9. WellFormedList(l)' /\ Contents(l)' = RemoveAt(s, i)
    BY <1>8, HoldsWellFormed
  <1>10. ASSUME NEW k \in Lists, k # l
         PROVE  WellFormedList(k)' /\ Contents(k)' = Contents(k)
    <2>1. head'[k] = head[k] /\ tail'[k] = tail[k] /\ size'[k] = size[k]
      BY <1>5, <1>10 DEF TypeOK, OrElse, Removed
    <2>2. {x \in Elems : owner'[x] = k} = {x \in Elems : owner[x] = k}
      BY <1>2, <1>5, <1>10, NullAssumption DEF TypeOK, Removed
    <2>3. ASSUME NEW x \in Elems, owner[x] = k
          PROVE  next'[x] = next[x] /\ prev'[x] = prev[x]
      <3>1. x # s[i] /\ x # Before(s, i) /\ x # After(s, i)
        BY <1>2, <1>3, <1>10, <2>3, NullAssumption
      <3> QED BY <3>1, <1>2, <1>3, <1>5 DEF Store, TypeOK
    <2> QED BY <2>1, <2>2, <2>3, OtherLists DEF WellFormed
  <1> QED BY <1>0, <1>6, <1>9, <1>10 DEF WellFormed, ContentsBecome

-----------------------------------------------------------------------------
\* The inductive invariant: WellFormed is inductive once the types are known.
ListInv == TypeOK /\ WellFormed

\* A list that holds s is well formed, with Contents s.
LEMMA HoldsNow ==
    ASSUME NEW l \in Lists, NEW s, Holds(l, s)
    PROVE  WellFormedList(l) /\ Contents(l) = s
  <1>1. /\ s \in Seq(Elems)
        /\ Rep(head[l], tail[l], size[l], next, prev, s)
        /\ IsInjective(s)
        /\ Range(s) = {e \in Elems : owner[e] = l}
    BY DEF Holds
  <1>2. \A u : Represents(l, u) <=> Rep(head[l], tail[l], size[l], next, prev, u)
    BY DEF Rep, Represents
  <1>3. /\ s \in [1 .. size[l] -> Elems]
        /\ (CHOOSE u \in [1 .. size[l] -> Elems] :
                Rep(head[l], tail[l], size[l], next, prev, u)) = s
    BY <1>1, ChooseRep
  <1>4. Contents(l) = s
    BY <1>2, <1>3 DEF Contents
  <1> QED BY <1>1, <1>2, <1>3, <1>4 DEF WellFormedList

\* Every list starts empty.
LEMMA InitHolds ==
    ASSUME Init, NEW l \in Lists
    PROVE  Holds(l, << >>)
  <1>1. Rep(head[l], tail[l], size[l], next, prev, << >>)
    BY DEF Init, Rep
  <1>2. << >> \in Seq(Elems) /\ IsInjective(<< >>) /\ Range(<< >>) = {}
    BY DEF IsInjective, Range
  <1>3. {e \in Elems : owner[e] = l} = {}
    BY NullAssumption DEF Init
  <1> QED BY <1>1, <1>2, <1>3 DEF Holds

\* The invariant holds before the first call.
LEMMA InitInv == Init => ListInv
  <1>1. Init => TypeOK
    BY DEF Init, TypeOK, Ptr
  <1>2. Init => WellFormed
    BY InitHolds, HoldsNow DEF WellFormed
  <1> QED BY <1>1, <1>2 DEF ListInv

\* What the invariant says about the list an operation works on.
LEMMA ContentsFacts ==
    ASSUME ListInv, NEW l \in Lists
    PROVE  /\ Contents(l) \in Seq(Elems)
           /\ Len(Contents(l)) \in Nat
           /\ size[l] = Len(Contents(l))
           /\ head[l] = IF Contents(l) = << >> THEN NULL ELSE Contents(l)[1]
           /\ tail[l] = IF Contents(l) = << >> THEN NULL ELSE Contents(l)[Len(Contents(l))]
           /\ \A i \in 1 .. Len(Contents(l)) :
                /\ Contents(l)[i] \in Elems /\ Contents(l)[i] # NULL
                /\ next[Contents(l)[i]] = After(Contents(l), i)
                /\ prev[Contents(l)[i]] = Before(Contents(l), i)
                /\ owner[Contents(l)[i]] = l
           /\ \A e \in Elems : owner[e] = l => \E i \in 1 .. Len(Contents(l)) : Contents(l)[i] = e
  <1>1. PICK s : s = Contents(l)
    OBVIOUS
  <1>2. Holds(l, s)
    BY <1>1, WellFormedHolds DEF ListInv, WellFormed
  <1>3. s \in Seq(Elems) /\ Len(s) \in Nat /\ DOMAIN s = 1 .. Len(s)
    BY <1>2 DEF Holds
  <1>4. \A i \in 1 .. Len(s) : s[i] \in Elems /\ s[i] # NULL
    BY <1>3, NullAssumption
  <1>5. \A i \in 1 .. Len(s) : owner[s[i]] = l
    <2>1. \A i \in 1 .. Len(s) : s[i] \in Range(s)
      BY <1>3 DEF Range
    <2> QED BY <1>2, <2>1 DEF Holds
  <1>6. \A e \in Elems : owner[e] = l => \E i \in 1 .. Len(s) : s[i] = e
    <2>1. \A e \in Range(s) : \E i \in 1 .. Len(s) : s[i] = e
      BY <1>3 DEF Range
    <2> QED BY <1>2, <2>1 DEF Holds
  <1>7. Rep(head[l], tail[l], size[l], next, prev, s)
    BY <1>2 DEF Holds
  <1>8. /\ size[l] = Len(s)
        /\ head[l] = IF s = << >> THEN NULL ELSE s[1]
        /\ tail[l] = IF s = << >> THEN NULL ELSE s[Len(s)]
        /\ \A i \in 1 .. Len(s) : next[s[i]] = After(s, i) /\ prev[s[i]] = Before(s, i)
    BY <1>7 DEF Rep, After, Before
  <1> QED BY <1>1, <1>3, <1>4, <1>5, <1>6, <1>8

\* e was placed at position i of list l, and nothing else happened.
Inserted(l, i, e) ==
    /\ ListInv'
    /\ i \in 1 .. Len(Contents(l)) + 1
    /\ ContentsBecome(l, InsertAt(Contents(l), i, e))
    /\ ret' = NULL

\* The element at position i of list l was removed and r returned.
Taken(l, i, r) ==
    /\ ListInv'
    /\ i \in 1 .. Len(Contents(l))
    /\ ContentsBecome(l, RemoveAt(Contents(l), i))
    /\ ret' = r

\* list_append inserts after the last element.
LEMMA AppendInserts ==
    ASSUME ListInv, NEW l \in Lists, NEW e \in Elems, list_append(l, e)
    PROVE  Inserted(l, Len(Contents(l)) + 1, e)
  <1> DEFINE s == Contents(l)
             i == Len(s) + 1
  <1>1. At(s, i) = NULL /\ Before(s, i) = tail[l] /\ i \in 1 .. Len(s) + 1
    BY ContentsFacts DEF At, Before
  <1>2. /\ next' = Store([next EXCEPT ![e] = At(s, i)], Before(s, i), e)
        /\ prev' = Store([prev EXCEPT ![e] = Before(s, i)], At(s, i), e)
        /\ head' = OrElse(Before(s, i), head, l, e)
        /\ tail' = OrElse(At(s, i), tail, l, e)
        /\ Added(l, e) /\ owner[e] = NULL
    BY <1>1 DEF list_append, Store, OrElse
  <1> QED BY <1>1, <1>2, InsertStep DEF ListInv, Inserted, Added

\* list_prepend inserts before the first element.
LEMMA PrependInserts ==
    ASSUME ListInv, NEW l \in Lists, NEW e \in Elems, list_prepend(l, e)
    PROVE  Inserted(l, 1, e)
  <1> DEFINE s == Contents(l)
  <1>1. At(s, 1) = head[l] /\ Before(s, 1) = NULL /\ 1 \in 1 .. Len(s) + 1
    BY ContentsFacts DEF At, Before
  <1>2. /\ next' = Store([next EXCEPT ![e] = At(s, 1)], Before(s, 1), e)
        /\ prev' = Store([prev EXCEPT ![e] = Before(s, 1)], At(s, 1), e)
        /\ head' = OrElse(Before(s, 1), head, l, e)
        /\ tail' = OrElse(At(s, 1), tail, l, e)
        /\ Added(l, e) /\ owner[e] = NULL
    BY <1>1 DEF list_prepend, Store, OrElse
  <1> QED BY <1>1, <1>2, InsertStep DEF ListInv, Inserted, Added

\* list_insert_after inserts behind its node.
LEMMA InsertAfterInserts ==
    ASSUME ListInv, NEW l \in Lists, NEW p \in Elems, NEW e \in Elems,
           list_insert_after(l, p, e)
    PROVE  \E k \in 1 .. Len(Contents(l)) : Contents(l)[k] = p /\ Inserted(l, k + 1, e)
  <1> DEFINE s == Contents(l)
  <1>1. PICK k \in 1 .. Len(s) : s[k] = p
    BY ContentsFacts DEF list_insert_after
  <1>2. At(s, k + 1) = next[p] /\ Before(s, k + 1) = p /\ k + 1 \in 1 .. Len(s) + 1 /\ p # NULL
    BY <1>1, ContentsFacts DEF At, Before, After
  <1>3. /\ next' = Store([next EXCEPT ![e] = At(s, k + 1)], Before(s, k + 1), e)
        /\ prev' = Store([prev EXCEPT ![e] = Before(s, k + 1)], At(s, k + 1), e)
        /\ head' = OrElse(Before(s, k + 1), head, l, e)
        /\ tail' = OrElse(At(s, k + 1), tail, l, e)
        /\ Added(l, e) /\ owner[e] = NULL
    BY <1>2 DEF list_insert_after, Store, OrElse
  <1>4. Inserted(l, k + 1, e)
    BY <1>2, <1>3, InsertStep DEF ListInv, Inserted, Added
  <1> QED BY <1>1, <1>4

\* list_insert_before inserts in front of its node.
LEMMA InsertBeforeInserts ==
    ASSUME ListInv, NEW l \in Lists, NEW e \in Elems,
           NEW k \in 1 .. Len(Contents(l)), list_insert_before(l, Contents(l)[k], e)
    PROVE  Inserted(l, k, e)
  <1> DEFINE s == Contents(l)
  <1>1. PICK p \in Elems : s[k] = p
    BY ContentsFacts
  <1>2. At(s, k) = p /\ Before(s, k) = prev[p] /\ k \in 1 .. Len(s) + 1 /\ p # NULL
    BY <1>1, ContentsFacts DEF At
  <1>3. /\ next' = Store([next EXCEPT ![e] = At(s, k)], Before(s, k), e)
        /\ prev' = Store([prev EXCEPT ![e] = Before(s, k)], At(s, k), e)
        /\ head' = OrElse(Before(s, k), head, l, e)
        /\ tail' = OrElse(At(s, k), tail, l, e)
        /\ Added(l, e) /\ owner[e] = NULL
    BY <1>1, <1>2 DEF list_insert_before, Store, OrElse
  <1> QED BY <1>2, <1>3, InsertStep DEF ListInv, Inserted, Added

\* list_remove takes out its node and no other.
LEMMA RemoveTakes ==
    ASSUME ListInv, NEW l \in Lists, NEW e \in Elems, list_remove(l, e)
    PROVE  \E k \in 1 .. Len(Contents(l)) : Contents(l)[k] = e /\ Taken(l, k, NULL)
  <1> DEFINE s == Contents(l)
  <1>1. PICK k \in 1 .. Len(s) : s[k] = e
    BY ContentsFacts DEF list_remove
  <1>2. After(s, k) = next[e] /\ Before(s, k) = prev[e]
    BY <1>1, ContentsFacts
  <1>3. /\ next' = [Store(next, Before(s, k), After(s, k)) EXCEPT ![s[k]] = NULL]
        /\ prev' = [Store(prev, After(s, k), Before(s, k)) EXCEPT ![s[k]] = NULL]
        /\ head' = OrElse(Before(s, k), head, l, After(s, k))
        /\ tail' = OrElse(After(s, k), tail, l, Before(s, k))
        /\ Removed(l, s[k], NULL)
    BY <1>1, <1>2 DEF list_remove
  <1>4. NULL \in Ptr
    BY DEF Ptr
  <1>5. Taken(l, k, NULL)
    BY <1>3, <1>4, RemoveStep DEF ListInv, Taken, Removed
  <1> QED BY <1>1, <1>5

\* list_remove_head takes out the first element.
LEMMA RemoveHeadTakes ==
    ASSUME ListInv, NEW l \in Lists, list_remove_head(l)
    PROVE  Contents(l) # << >> /\ Taken(l, 1, Contents(l)[1])
  <1> DEFINE s == Contents(l)
  <1>1. s # << >> /\ 1 \in 1 .. Len(s)
    BY ContentsFacts DEF list_remove_head
  <1>2. PICK e \in Elems : s[1] = e /\ head[l] = e /\ e # NULL
    BY <1>1, ContentsFacts
  <1>3. After(s, 1) = next[e] /\ Before(s, 1) = NULL
    BY <1>1, <1>2, ContentsFacts DEF Before
  <1>4. /\ next' = [Store(next, Before(s, 1), After(s, 1)) EXCEPT ![s[1]] = NULL]
        /\ prev' = [Store(prev, After(s, 1), Before(s, 1)) EXCEPT ![s[1]] = NULL]
        /\ head' = OrElse(Before(s, 1), head, l, After(s, 1))
        /\ tail' = OrElse(After(s, 1), tail, l, Before(s, 1))
        /\ Removed(l, s[1], e)
    BY <1>2, <1>3 DEF list_remove_head, Store, OrElse
  <1>5. e \in Ptr
    BY DEF Ptr
  <1>6. Taken(l, 1, e)
    BY <1>1, <1>4, <1>5, RemoveStep DEF ListInv, Taken, Removed
  <1> QED BY <1>1, <1>2, <1>6

\* list_remove_tail takes out the last element.
LEMMA RemoveTailTakes ==
    ASSUME ListInv, NEW l \in Lists, list_remove_tail(l)
    PROVE  /\ Contents(l) # << >>
           /\ Taken(l, Len(Contents(l)), Contents(l)[Len(Contents(l))])
  <1> DEFINE s == Contents(l)
  <1>1. s # << >> /\ Len(s) \in 1 .. Len(s)
    BY ContentsFacts DEF list_remove_tail
  <1>2. PICK e \in Elems : s[Len(s)] = e /\ tail[l] = e /\ e # NULL
    BY <1>1, ContentsFacts
  <1>3. After(s, Len(s)) = NULL /\ Before(s, Len(s)) = prev[e]
    BY <1>1, <1>2, ContentsFacts DEF After
  <1>4. /\ next' = [Store(next, Before(s, Len(s)), After(s, Len(s))) EXCEPT ![s[Len(s)]] = NULL]
        /\ prev' = [Store(prev, After(s, Len(s)), Before(s, Len(s))) EXCEPT ![s[Len(s)]] = NULL]
        /\ head' = OrElse(Before(s, Len(s)), head, l, After(s, Len(s)))
        /\ tail' = OrElse(After(s, Len(s)), tail, l, Before(s, Len(s)))
        /\ Removed(l, s[Len(s)], e)
    BY <1>2, <1>3 DEF list_remove_tail, Store, OrElse
  <1>5. e \in Ptr
    BY DEF Ptr
  <1>6. Taken(l, Len(s), e)
    BY <1>1, <1>4, <1>5, RemoveStep DEF ListInv, Taken, Removed
  <1> QED BY <1>1, <1>2, <1>6

\* list_init empties its list and leaves the others alone.
LEMMA InitEmpties ==
    ASSUME ListInv, NEW l \in Lists, list_init(l)
    PROVE  ListInv' /\ ContentsBecome(l, << >>) /\ ret' = NULL
  <1>1. TypeOK'
    BY DEF ListInv, TypeOK, Ptr, list_init
  <1>2. Holds(l, << >>)'
    <2>1. Rep(head'[l], tail'[l], size'[l], next', prev', << >>)
      BY DEF ListInv, TypeOK, list_init, Rep
    <2>2. << >> \in Seq(Elems) /\ IsInjective(<< >>) /\ Range(<< >>) = {}
      BY DEF IsInjective, Range
    <2>3. {e \in Elems : owner'[e] = l} = {}
      BY NullAssumption DEF list_init
    <2> QED BY <2>1, <2>2, <2>3 DEF Holds
  <1>3. ASSUME NEW k \in Lists, k # l
        PROVE  WellFormedList(k)' /\ Contents(k)' = Contents(k)
    <2>1. head'[k] = head[k] /\ tail'[k] = tail[k] /\ size'[k] = size[k]
          /\ next' = next /\ prev' = prev
      BY <1>3 DEF ListInv, TypeOK, list_init
    <2>2. {e \in Elems : owner'[e] = k} = {e \in Elems : owner[e] = k}
      BY <1>3, NullAssumption DEF ListInv, TypeOK, list_init
    <2> QED BY <2>1, <2>2, OtherLists DEF ListInv, WellFormed
  <1>4. WellFormedList(l)' /\ Contents(l)' = << >>
    BY <1>2, HoldsWellFormed
  <1>5. ret' = NULL
    BY DEF list_init
  <1> QED BY <1>1, <1>3, <1>4, <1>5 DEF ListInv, WellFormed, ContentsBecome

\* A step that leaves the pointers alone leaves every list alone.
LEMMA NothingChanges ==
    ASSUME ListInv, UNCHANGED <<head, tail, size, next, prev, owner>>, ret' \in Ptr
    PROVE  ListInv' /\ \A k \in Lists : Contents(k)' = Contents(k)
  <1>1. TypeOK'
    BY DEF ListInv, TypeOK
  <1>2. ASSUME NEW k \in Lists
        PROVE  WellFormedList(k)' /\ Contents(k)' = Contents(k)
    BY OtherLists DEF ListInv, WellFormed
  <1> QED BY <1>1, <1>2 DEF ListInv, WellFormed

\* list_insert_sorted finds the place after the smaller elements.
LEMMA SortedInserts ==
    ASSUME ListInv, NEW l \in Lists, NEW e \in Elems, list_insert_sorted(l, e)
    PROVE  \E i \in 1 .. Len(Contents(l)) + 1 :
              /\ \A j \in 1 .. i - 1 : Key[Contents(l)[j]] < Key[e]
              /\ i \in DOMAIN Contents(l) => Key[e] <= Key[Contents(l)[i]]
              /\ Inserted(l, i, e)
  <1> DEFINE s == Contents(l)
             NotSmaller == {i \in DOMAIN s : Key[e] <= Key[s[i]]}
  <1>1. /\ s \in Seq(Elems) /\ Len(s) \in Nat /\ DOMAIN s = 1 .. Len(s)
        /\ size[l] = Len(s)
        /\ \A j \in 1 .. Len(s) : s[j] \in Elems /\ Key[s[j]] \in Int
        /\ Key[e] \in Int
    BY ContentsFacts, KeyAssumption
  <1>2. CASE (size[l] = 0 \/ NotSmaller = {}) /\ list_append(l, e)
    <2>1. \A j \in 1 .. Len(s) : Key[s[j]] < Key[e]
      BY <1>1, <1>2
    <2>2. Inserted(l, Len(s) + 1, e)
      BY <1>2, AppendInserts
    <2> QED BY <1>1, <2>1, <2>2
  <1>3. CASE \E i \in NotSmaller : /\ size[l] # 0
                                   /\ \A j \in NotSmaller : i <= j
                                   /\ list_insert_before(l, s[i], e)
    <2>1. PICK i \in NotSmaller : /\ \A j \in NotSmaller : i <= j
                                  /\ list_insert_before(l, s[i], e)
      BY <1>3
    <2>2. i \in 1 .. Len(s) /\ Key[e] <= Key[s[i]]
      BY <1>1
    <2>3. \A j \in 1 .. i - 1 : Key[s[j]] < Key[e]
      BY <1>1, <2>1, <2>2
    <2>4. Inserted(l, i, e)
      BY <2>1, <2>2, InsertBeforeInserts
    <2> QED BY <1>1, <2>2, <2>3, <2>4
  <1> QED BY <1>2, <1>3 DEF list_insert_sorted

\* Every call keeps the invariant.
LEMMA NextInv == ListInv /\ [Next]_vars => ListInv'
  <1> SUFFICES ASSUME ListInv, [Next]_vars PROVE ListInv'
    OBVIOUS
  <1>1. CASE \E l \in Lists : ListStep(l)
    <2>1. PICK l \in Lists : ListStep(l)
      BY <1>1
    <2>2. CASE list_init(l)
      BY <2>2, InitEmpties
    <2>3. CASE list_remove_head(l)
      BY <2>3, RemoveHeadTakes DEF Taken
    <2>4. CASE list_remove_tail(l)
      BY <2>4, RemoveTailTakes DEF Taken
    <2>5. CASE EmptyRemoval(l)
      BY <2>5, NothingChanges DEF EmptyRemoval, Ptr
    <2> QED BY <2>1, <2>2, <2>3, <2>4, <2>5 DEF ListStep
  <1>2. CASE \E l \in Lists, e \in Elems : ElemStep(l, e)
    <2>1. PICK l \in Lists, e \in Elems : ElemStep(l, e)
      BY <1>2
    <2>2. CASE list_append(l, e)
      BY <2>2, AppendInserts DEF Inserted
    <2>3. CASE list_prepend(l, e)
      BY <2>3, PrependInserts DEF Inserted
    <2>4. CASE list_insert_sorted(l, e)
      BY <2>4, SortedInserts DEF Inserted
    <2>5. CASE list_remove(l, e)
      BY <2>5, RemoveTakes DEF Taken
    <2> QED BY <2>1, <2>2, <2>3, <2>4, <2>5 DEF ElemStep
  <1>3. CASE \E l \in Lists, p, e \in Elems : PairStep(l, p, e)
    <2>1. PICK l \in Lists, p \in Elems, e \in Elems : PairStep(l, p, e)
      BY <1>3
    <2>2. CASE list_insert_after(l, p, e)
      BY <2>2, InsertAfterInserts DEF Inserted
    <2>3. CASE list_insert_before(l, p, e)
      <3>1. PICK k \in 1 .. Len(Contents(l)) : Contents(l)[k] = p
        BY <2>3, ContentsFacts DEF list_insert_before
      <3>2. list_insert_before(l, Contents(l)[k], e)
        BY <2>3, <3>1
      <3> QED BY <3>2, InsertBeforeInserts DEF Inserted
    <2> QED BY <2>1, <2>2, <2>3 DEF PairStep
  <1>4. CASE UNCHANGED vars
    BY <1>4, NothingChanges DEF vars, ListInv, TypeOK
  <1> QED BY <1>1, <1>2, <1>3, <1>4 DEF Next

(***************************************************************************)
(* The fields of list_t and list_element_t keep their types; in particular *)
(* size never goes below zero.                                             *)
(***************************************************************************)
THEOREM ListTypes == Spec => []TypeOK
  <1>1. ListInv => TypeOK
    BY DEF ListInv
  <1> QED BY <1>1, InitInv, NextInv, PTL DEF Spec

(***************************************************************************)
(* However the library is called, within its contract, every list stays a  *)
(* well-formed doubly linked list of exactly the elements put on it.       *)
(***************************************************************************)
THEOREM ListWellFormed == Spec => []WellFormed
  <1>1. ListInv => WellFormed
    BY DEF ListInv
  <1> QED BY <1>1, InitInv, NextInv, PTL DEF Spec

-----------------------------------------------------------------------------
(***************************************************************************)
(* The operations of ListSpec, seen through Contents.                      *)
(***************************************************************************)
LEMMA BecomeLift ==
    ASSUME NEW l \in Lists, NEW s, NEW r,
           \A k \in Lists : Contents(k)' = IF k = l THEN s ELSE Contents(k), ret' = r
    PROVE  LS!Become(l, s, r)
  BY DEF LS!Become

\* A node in no list of the pointers is in no sequence of the abstraction.
LEMMA FreeLift ==
    ASSUME ListInv, NEW e \in Elems, owner[e] = NULL
    PROVE  LS!Free(e)
  <1>1. ASSUME NEW l \in Lists PROVE e \notin Range(Contents(l))
    <2>1. DOMAIN Contents(l) = 1 .. Len(Contents(l))
      BY ContentsFacts
    <2>2. \A i \in DOMAIN Contents(l) : Contents(l)[i] # e
      BY <2>1, ContentsFacts, NullAssumption
    <2> QED BY <2>2 DEF Range
  <1> QED BY <1>1 DEF LS!Free, LS!Members, LS!Range, Range

\* An insertion into the pointers is ListSpec's Place.
LEMMA PlaceLift ==
    ASSUME ListInv, NEW l \in Lists, NEW e \in Elems, owner[e] = NULL,
           NEW i, Inserted(l, i, e)
    PROVE  LS!Place(l, i, e)
  <1>1. PICK s : s = InsertAt(Contents(l), i, e)
    OBVIOUS
  <1>2. LS!Become(l, s, NULL)
    BY <1>1, BecomeLift DEF Inserted, ContentsBecome
  <1>3. LS!InsertAt(Contents(l), i, e) = s
    BY <1>1 DEF LS!InsertAt, InsertAt
  <1> QED BY <1>2, <1>3, FreeLift DEF LS!Place, Inserted

\* The sequence operations that name a position the code reaches otherwise.
LEMMA AppendIsInsert ==
    ASSUME NEW s \in Seq(Elems), NEW e \in Elems
    PROVE  InsertAt(s, Len(s) + 1, e) = Append(s, e)
  <1>1. Len(s) + 1 \in 1 .. Len(s) + 1
    OBVIOUS
  <1>2. /\ InsertAt(s, Len(s) + 1, e) \in Seq(Elems)
        /\ Len(InsertAt(s, Len(s) + 1, e)) = Len(s) + 1
        /\ \A j \in 1 .. Len(s) + 1 :
             InsertAt(s, Len(s) + 1, e)[j] =
               IF j < Len(s) + 1 THEN s[j] ELSE IF j = Len(s) + 1 THEN e ELSE s[j - 1]
    BY <1>1, InsertAtProperties, SMTT(60)
  <1>3. /\ Append(s, e) \in Seq(Elems) /\ Len(Append(s, e)) = Len(s) + 1
        /\ \A j \in 1 .. Len(s) : Append(s, e)[j] = s[j]
        /\ Append(s, e)[Len(s) + 1] = e
    OBVIOUS
  <1>4. \A j \in 1 .. Len(s) + 1 : InsertAt(s, Len(s) + 1, e)[j] = Append(s, e)[j]
    BY <1>2, <1>3
  <1> QED BY <1>2, <1>3, <1>4, SeqEqual

\* Inserting at index 1 is prepending.
LEMMA PrependIsInsert ==
    ASSUME NEW s \in Seq(Elems), NEW e \in Elems
    PROVE  InsertAt(s, 1, e) = <<e>> \o s
  <1>1. 1 \in 1 .. Len(s) + 1
    OBVIOUS
  <1>2. /\ InsertAt(s, 1, e) \in Seq(Elems)
        /\ Len(InsertAt(s, 1, e)) = Len(s) + 1
        /\ \A j \in 1 .. Len(s) + 1 :
             InsertAt(s, 1, e)[j] = IF j < 1 THEN s[j] ELSE IF j = 1 THEN e ELSE s[j - 1]
    BY <1>1, InsertAtProperties
  <1>3. /\ <<e>> \o s \in Seq(Elems) /\ Len(<<e>> \o s) = Len(s) + 1
        /\ \A j \in 1 .. Len(s) + 1 : (<<e>> \o s)[j] = IF j = 1 THEN e ELSE s[j - 1]
    OBVIOUS
  <1>4. \A j \in 1 .. Len(s) + 1 : InsertAt(s, 1, e)[j] = (<<e>> \o s)[j]
    BY <1>2, <1>3
  <1> QED BY <1>2, <1>3, <1>4, SeqEqual, SMTT(30)

\* Removing index 1 leaves the tail.
LEMMA TailIsRemove ==
    ASSUME NEW s \in Seq(Elems), s # << >>
    PROVE  RemoveAt(s, 1) = Tail(s)
  <1>1. 1 \in 1 .. Len(s)
    OBVIOUS
  <1>2. /\ RemoveAt(s, 1) \in Seq(Elems) /\ Len(RemoveAt(s, 1)) = Len(s) - 1
        /\ \A j \in 1 .. Len(s) - 1 : RemoveAt(s, 1)[j] = IF j < 1 THEN s[j] ELSE s[j + 1]
    BY <1>1, RemoveAtProperties
  <1>3. /\ Tail(s) \in Seq(Elems) /\ Len(Tail(s)) = Len(s) - 1
        /\ \A j \in 1 .. Len(s) - 1 : Tail(s)[j] = s[j + 1]
    OBVIOUS
  <1>4. \A j \in 1 .. Len(s) - 1 : RemoveAt(s, 1)[j] = Tail(s)[j]
    BY <1>2, <1>3
  <1> QED BY <1>2, <1>3, <1>4, SeqEqual

\* Removing the last index leaves the front.
LEMMA FrontIsRemove ==
    ASSUME NEW s \in Seq(Elems), s # << >>
    PROVE  RemoveAt(s, Len(s)) = Front(s)
  <1>1. Len(s) \in 1 .. Len(s)
    OBVIOUS
  <1>2. /\ RemoveAt(s, Len(s)) \in Seq(Elems) /\ Len(RemoveAt(s, Len(s))) = Len(s) - 1
        /\ \A j \in 1 .. Len(s) - 1 :
             RemoveAt(s, Len(s))[j] = IF j < Len(s) THEN s[j] ELSE s[j + 1]
    BY <1>1, RemoveAtProperties
  <1>3. /\ Front(s) \in Seq(Elems) /\ Len(Front(s)) = Len(s) - 1
        /\ \A j \in 1 .. Len(s) - 1 : Front(s)[j] = s[j]
    BY <1>1 DEF Front
  <1>4. \A j \in 1 .. Len(s) - 1 : RemoveAt(s, Len(s))[j] = Front(s)[j]
    BY <1>2, <1>3
  <1> QED BY <1>2, <1>3, <1>4, SeqEqual

\* Every call takes the abstract step of the same name.
LEMMA StepsImplement == ListInv /\ Next => StepMatches
  <1> SUFFICES ASSUME ListInv PROVE StepMatches
    OBVIOUS
  <1>1. ASSUME NEW l \in Lists, list_init(l) PROVE LS!Clear(l)
    BY <1>1, InitEmpties, BecomeLift DEF ContentsBecome, LS!Clear
  <1>2. ASSUME NEW l \in Lists, list_remove_head(l) PROVE LS!PopFront(l)
    <2>1. PICK s, r : s = Tail(Contents(l)) /\ r = Contents(l)[1]
      OBVIOUS
    <2>2. Contents(l) # << >> /\ Contents(l) \in Seq(Elems) /\ Head(Contents(l)) = r
      BY <1>2, <2>1, RemoveHeadTakes, ContentsFacts
    <2>3. RemoveAt(Contents(l), 1) = s
      BY <2>1, <2>2, TailIsRemove
    <2>4. LS!Become(l, s, r)
      BY <1>2, <2>1, <2>3, RemoveHeadTakes, BecomeLift DEF Taken, ContentsBecome
    <2> QED BY <2>1, <2>2, <2>4 DEF LS!PopFront
  <1>3. ASSUME NEW l \in Lists, list_remove_tail(l) PROVE LS!PopBack(l)
    <2>1. PICK s, r : s = Front(Contents(l)) /\ r = Contents(l)[Len(Contents(l))]
      OBVIOUS
    <2>2. Contents(l) # << >> /\ Contents(l) \in Seq(Elems) /\ Last(Contents(l)) = r
      BY <1>3, <2>1, RemoveTailTakes, ContentsFacts DEF Last
    <2>3. RemoveAt(Contents(l), Len(Contents(l))) = s
      BY <2>1, <2>2, FrontIsRemove
    <2>4. LS!Become(l, s, r)
      BY <1>3, <2>1, <2>3, RemoveTailTakes, BecomeLift DEF Taken, ContentsBecome
    <2>5. LS!Front(Contents(l)) = s /\ LS!Last(Contents(l)) = r
      BY <2>1, <2>2 DEF LS!Front, LS!Last, Front, Last
    <2> QED BY <2>2, <2>4, <2>5 DEF LS!PopBack
  <1>4. ASSUME NEW l \in Lists, EmptyRemoval(l) PROVE LS!Nothing
    <2>1. \A k \in Lists : Contents(k)' = Contents(k)
      BY <1>4, NothingChanges DEF EmptyRemoval, Ptr
    <2> QED BY <1>4, <2>1 DEF LS!Nothing, EmptyRemoval
  <1>5. ASSUME NEW l \in Lists, NEW e \in Elems, list_append(l, e) PROVE LS!PushBack(l, e)
    <2>1. PICK s : s = Append(Contents(l), e)
      OBVIOUS
    <2>2. InsertAt(Contents(l), Len(Contents(l)) + 1, e) = s
      BY <2>1, ContentsFacts, AppendIsInsert
    <2>3. LS!Become(l, s, NULL)
      BY <1>5, <2>2, AppendInserts, BecomeLift DEF Inserted, ContentsBecome
    <2> QED BY <1>5, <2>1, <2>3, FreeLift DEF LS!PushBack, list_append
  <1>6. ASSUME NEW l \in Lists, NEW e \in Elems, list_prepend(l, e) PROVE LS!PushFront(l, e)
    <2>1. PICK s : s = <<e>> \o Contents(l)
      OBVIOUS
    <2>2. InsertAt(Contents(l), 1, e) = s
      BY <2>1, ContentsFacts, PrependIsInsert
    <2>3. LS!Become(l, s, NULL)
      BY <1>6, <2>2, PrependInserts, BecomeLift DEF Inserted, ContentsBecome
    <2> QED BY <1>6, <2>1, <2>3, FreeLift DEF LS!PushFront, list_prepend
  <1>7. ASSUME NEW l \in Lists, NEW e \in Elems, list_insert_sorted(l, e)
        PROVE  LS!PlaceSorted(l, e)
    <2>1. owner[e] = NULL
      BY <1>7 DEF list_insert_sorted, list_append, list_insert_before
    <2>2. PICK i \in 1 .. Len(Contents(l)) + 1 :
            /\ \A j \in 1 .. i - 1 : Key[Contents(l)[j]] < Key[e]
            /\ i \in DOMAIN Contents(l) => Key[e] <= Key[Contents(l)[i]]
            /\ Inserted(l, i, e)
      BY <1>7, SortedInserts
    <2>3. LS!Place(l, i, e)
      BY <2>1, <2>2, PlaceLift
    <2> QED BY <2>2, <2>3 DEF LS!PlaceSorted
  <1>8. ASSUME NEW l \in Lists, NEW e \in Elems, list_remove(l, e) PROVE LS!Delete(l, e)
    <2>1. PICK k \in 1 .. Len(Contents(l)) : Contents(l)[k] = e /\ Taken(l, k, NULL)
      BY <1>8, RemoveTakes
    <2>2. PICK s : s = RemoveAt(Contents(l), k)
      OBVIOUS
    <2>3. LS!Become(l, s, NULL)
      BY <2>1, <2>2, BecomeLift DEF Taken, ContentsBecome
    <2>4. k \in DOMAIN Contents(l)
      BY ContentsFacts
    <2>5. LS!RemoveAt(Contents(l), k) = s
      BY <2>2 DEF LS!RemoveAt, RemoveAt
    <2> QED BY <2>1, <2>3, <2>4, <2>5 DEF LS!Delete
  <1>9. ASSUME NEW l \in Lists, NEW p \in Elems, NEW e \in Elems, list_insert_after(l, p, e)
        PROVE  LS!PlaceAfter(l, p, e)
    <2>1. PICK k \in 1 .. Len(Contents(l)) : Contents(l)[k] = p /\ Inserted(l, k + 1, e)
      BY <1>9, InsertAfterInserts
    <2>2. LS!Place(l, k + 1, e)
      BY <1>9, <2>1, PlaceLift DEF list_insert_after
    <2>3. k \in DOMAIN Contents(l)
      BY ContentsFacts
    <2> QED BY <2>1, <2>2, <2>3 DEF LS!PlaceAfter
  <1>10. ASSUME NEW l \in Lists, NEW p \in Elems, NEW e \in Elems, list_insert_before(l, p, e)
         PROVE  LS!PlaceBefore(l, p, e)
    <2>1. PICK k \in 1 .. Len(Contents(l)) : Contents(l)[k] = p
      BY <1>10, ContentsFacts DEF list_insert_before
    <2>2. Inserted(l, k, e)
      <3>1. list_insert_before(l, Contents(l)[k], e)
        BY <1>10, <2>1
      <3> QED BY <3>1, InsertBeforeInserts
    <2>3. LS!Place(l, k, e)
      BY <1>10, <2>2, PlaceLift DEF list_insert_before
    <2>4. k \in DOMAIN Contents(l)
      BY ContentsFacts
    <2> QED BY <2>1, <2>3, <2>4 DEF LS!PlaceBefore
  <1> QED BY <1>1, <1>2, <1>3, <1>4, <1>5, <1>6, <1>7, <1>8, <1>9, <1>10 DEF StepMatches

(***************************************************************************)
(* Every call of a list function does to the represented sequence what its *)
(* name says: append adds at the end, remove_head returns the first, ...   *)
(***************************************************************************)
THEOREM ListCallsCorrect == Spec => EachCallImplemented
  <1>1. ListInv /\ [Next]_vars => [StepMatches]_vars
    BY StepsImplement
  <1> QED BY <1>1, InitInv, NextInv, PTL DEF Spec, EachCallImplemented

\* list_insert_sorted leaves a sorted list sorted.
LEMMA SortedStep ==
    ASSUME ListInv, NEW l \in Lists, NEW e \in Elems,
           list_insert_sorted(l, e), Sorted(Contents(l))
    PROVE  Sorted(Contents(l)')
  <1>1. PICK s : s = Contents(l)
    OBVIOUS
  <1>2. PICK i \in 1 .. Len(s) + 1 :
          /\ \A j \in 1 .. i - 1 : Key[s[j]] < Key[e]
          /\ i \in DOMAIN s => Key[e] <= Key[s[i]]
          /\ Inserted(l, i, e)
    BY <1>1, SortedInserts
  <1>3. s \in Seq(Elems) /\ Len(s) \in Nat /\ DOMAIN s = 1 .. Len(s) /\ Key[e] \in Int
        /\ \A j \in 1 .. Len(s) : s[j] \in Elems /\ Key[s[j]] \in Int
    BY <1>1, ContentsFacts, KeyAssumption
  <1>4. PICK r : r = InsertAt(s, i, e)
    OBVIOUS
  <1>5. Contents(l)' = r
    BY <1>1, <1>2, <1>4 DEF Inserted, ContentsBecome
  <1>6. /\ r \in Seq(Elems) /\ Len(r) = Len(s) + 1
        /\ \A j \in 1 .. Len(s) + 1 :
             r[j] = IF j < i THEN s[j] ELSE IF j = i THEN e ELSE s[j - 1]
    <2>1. \A S : s \in Seq(S) /\ e \in S =>
            /\ InsertAt(s, i, e) \in Seq(S)
            /\ Len(InsertAt(s, i, e)) = Len(s) + 1
            /\ \A j \in 1 .. Len(s) + 1 :
                 InsertAt(s, i, e)[j] = IF j < i THEN s[j] ELSE IF j = i THEN e ELSE s[j - 1]
      BY InsertAtProperties
    <2> QED BY <1>3, <1>4, <2>1, Zenon
  <1>7. DOMAIN r = 1 .. Len(s) + 1
    BY <1>6
  <1>8. \A j, k \in 1 .. Len(s) : j < k => Key[s[j]] <= Key[s[k]]
    BY <1>1, <1>3 DEF Sorted
  <1>9. \A j \in 1 .. Len(s) : j >= i => Key[e] <= Key[s[j]]
    <2> SUFFICES ASSUME NEW j \in 1 .. Len(s), j >= i PROVE Key[e] <= Key[s[j]]
      OBVIOUS
    <2>1. i \in 1 .. Len(s) /\ Key[e] <= Key[s[i]]
      BY <1>2, <1>3
    <2>2. Key[s[i]] <= Key[s[j]]
      BY <1>3, <1>8, <2>1
    <2> QED BY <1>3, <2>1, <2>2
  <1>10. ASSUME NEW j \in DOMAIN r, NEW k \in DOMAIN r, j < k
         PROVE  Key[r[j]] <= Key[r[k]]
    <2>1. CASE k < i
      BY <2>1, <1>3, <1>6, <1>7, <1>8, <1>10
    <2>2. CASE k = i
      <3>1. r[k] = e /\ r[j] = s[j] /\ j \in 1 .. i - 1 /\ j \in 1 .. Len(s)
        BY <2>2, <1>3, <1>6, <1>7, <1>10
      <3> QED BY <3>1, <1>2, <1>3
    <2>3. CASE k > i /\ j = i
      <3>1. r[j] = e /\ r[k] = s[k - 1] /\ k - 1 \in 1 .. Len(s) /\ k - 1 >= i
        BY <2>3, <1>3, <1>6, <1>7
      <3> QED BY <3>1, <1>9
    <2>4. CASE k > i /\ j > i
      <3>1. r[j] = s[j - 1] /\ r[k] = s[k - 1] /\ j - 1 < k - 1
            /\ j - 1 \in 1 .. Len(s) /\ k - 1 \in 1 .. Len(s)
        BY <2>4, <1>3, <1>6, <1>7, <1>10
      <3> QED BY <3>1, <1>8
    <2>5. CASE k > i /\ j < i
      <3>1. r[j] = s[j] /\ r[k] = s[k - 1] /\ k - 1 \in 1 .. Len(s) /\ k - 1 >= i
            /\ j \in 1 .. i - 1 /\ j \in 1 .. Len(s)
        BY <2>5, <1>3, <1>6, <1>7
      <3>2. Key[s[j]] < Key[e] /\ Key[e] <= Key[s[k - 1]]
        BY <3>1, <1>2, <1>9
      <3> QED BY <3>1, <3>2, <1>3
    <2> QED BY <1>3, <1>7, <2>1, <2>2, <2>3, <2>4, <2>5
  <1> QED BY <1>5, <1>10 DEF Sorted

(***************************************************************************)
(* list_insert_sorted keeps a sorted list sorted.                          *)
(***************************************************************************)
THEOREM ListSortedInsert == Spec => SortedInsertKeepsOrder
  <1> DEFINE Keeps == \A l \in Lists, e \in Elems :
                        list_insert_sorted(l, e) /\ Sorted(Contents(l)) => Sorted(Contents(l)')
  <1>1. ListInv /\ [Next]_vars => [Keeps]_vars
    BY SortedStep
  <1> QED BY <1>1, InitInv, NextInv, PTL DEF Spec, SortedInsertKeepsOrder

(***************************************************************************)
(* The pointer implementation of list.c refines the abstract sequence      *)
(* specification: initial states map to initial states, every step to a    *)
(* step of ListSpec or a stutter.                                          *)
(***************************************************************************)
THEOREM ListRefines == Spec => ImplementsListSpec
  <1>1. Init => LS!Init
    <2> SUFFICES ASSUME Init PROVE LS!Init
      OBVIOUS
    <2>1. \A l \in Lists : Contents(l) = << >>
      BY InitHolds, HoldsNow
    <2> QED BY <2>1 DEF LS!Init, Init
  <1>2. ListInv /\ [Next]_vars => [LS!Next]_(LS!specVars)
    <2> SUFFICES ASSUME ListInv, [Next]_vars PROVE [LS!Next]_(LS!specVars)
      OBVIOUS
    <2>1. CASE UNCHANGED vars
      <3>1. \A k \in Lists : Contents(k)' = Contents(k)
        BY <2>1, NothingChanges DEF vars, ListInv, TypeOK
      <3> QED BY <2>1, <3>1 DEF vars, LS!specVars
    <2>2. CASE Next
      <3>1. StepMatches
        BY <2>2, StepsImplement
      <3> QED BY <2>2, <3>1 DEF Next, ListStep, ElemStep, PairStep, StepMatches, LS!Next
    <2> QED BY <2>1, <2>2
  <1> QED BY <1>1, <1>2, InitInv, NextInv, PTL DEF Spec, ImplementsListSpec, LS!Spec
=============================================================================
