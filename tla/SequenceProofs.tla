--------------------------- MODULE SequenceProofs ---------------------------
(***************************************************************************)
(* Lemmas on sequences.                                                    *)
(***************************************************************************)
EXTENDS Selection, SequencesExt, WellFoundedInduction, TLAPS

\* Induction on the natural numbers, as a statement about a set.
LEMMA Induction ==
  ASSUME NEW T, 0 \in T, \A n \in Nat : n \in T => n + 1 \in T
  PROVE  Nat \subseteq T
<1> SUFFICES ASSUME Nat \ T # {} PROVE FALSE
  OBVIOUS
<1>1. \E x \in Nat \ T : \A y \in Nat \ T : ~(<<y, x>> \in OpToRel(<, Nat))
  BY NatLessThanWellFounded, WFMin, Nat \ T \in SUBSET Nat
<1>2. PICK x \in Nat \ T : \A y \in Nat \ T : ~(y < x)
  BY <1>1 DEF OpToRel
<1>3. x # 0 /\ x - 1 \in Nat /\ x - 1 < x
  OBVIOUS
<1>4. x - 1 \in T
  BY <1>2, <1>3
<1> QED BY <1>2, <1>3, <1>4

LEMMA Least ==
  ASSUME NEW S \in SUBSET Nat, S # {}
  PROVE  Min(S) \in S /\ \A x \in S : Min(S) <= x
<1>1. \E x \in S : \A y \in S : ~(<<y, x>> \in OpToRel(<, Nat))
  BY NatLessThanWellFounded, WFMin
<1>2. PICK x \in S : \A y \in S : ~(y < x)
  BY <1>1 DEF OpToRel
<1>3. \A y \in S : x <= y
  BY <1>2
<1> QED BY <1>2, <1>3 DEF Min

\* Kept is well defined: the equation it is defined by has a solution.
LEMMA KeptDefined ==
  ASSUME NEW s, Len(s) \in Nat, NEW T
  PROVE  Kept(s, T) = [n \in 0..Len(s) |->
           IF n = 0 THEN <<>>
           ELSE IF s[n] \in T THEN Append(Kept(s, T)[n - 1], s[n]) ELSE Kept(s, T)[n - 1]]
<1> DEFINE Solves(f, m) ==
      f = [n \in 0..m |->
             IF n = 0 THEN <<>>
             ELSE IF s[n] \in T THEN Append(f[n - 1], s[n]) ELSE f[n - 1]]
           Solved == {m \in Nat : \E f : Solves(f, m)}
<1>1. 0 \in Solved
  <2>1. Solves([n \in 0..0 |-> <<>>], 0)
    OBVIOUS
  <2> QED BY <2>1
<1>2. ASSUME NEW m \in Nat, m \in Solved PROVE m + 1 \in Solved
  <2>1. PICK f : Solves(f, m)
    BY <1>2
  <2> DEFINE g == [n \in 0..(m + 1) |->
                     IF n # m + 1 THEN f[n]
                     ELSE IF s[n] \in T THEN Append(f[m], s[n]) ELSE f[m]]
  <2>2. \A n \in 0..m : g[n] = f[n] /\ n \in 0..(m + 1) /\ n # m + 1
    OBVIOUS
  <2>3. \A n \in 0..(m + 1) : n # 0 => n - 1 \in 0..m
    OBVIOUS
  <2>4. \A n \in 0..(m + 1) : g[n] =
          IF n = 0 THEN <<>>
          ELSE IF s[n] \in T THEN Append(g[n - 1], s[n]) ELSE g[n - 1]
    <3> SUFFICES ASSUME NEW n \in 0..(m + 1)
                 PROVE  g[n] = IF n = 0 THEN <<>>
                    ELSE IF s[n] \in T THEN Append(g[n - 1], s[n]) ELSE g[n - 1]
      OBVIOUS
    <3>1. CASE n = m + 1
      <4>1. n # 0 /\ n - 1 = m /\ m \in 0..m BY <3>1
      <4>2. g[n - 1] = f[m] BY <4>1, <2>2
      <4>3. g[n] = IF s[n] \in T THEN Append(f[m], s[n]) ELSE f[m] BY <3>1
      <4> QED BY <4>1, <4>2, <4>3
    <3>2. CASE n # m + 1
      <4>1. n \in 0..m BY <3>2
      <4>2. g[n] = f[n] BY <4>1, <2>2
      <4>3. n # 0 => g[n - 1] = f[n - 1] BY <2>3, <2>2, <4>1
      <4>4. f[n] = IF n = 0 THEN <<>>
                   ELSE IF s[n] \in T THEN Append(f[n - 1], s[n]) ELSE f[n - 1]
        BY <2>1, <4>1
      <4> QED BY <4>2, <4>3, <4>4
    <3> QED BY <3>1, <3>2
  <2>5. Solves(g, m + 1)
    BY <2>4
  <2> HIDE DEF g, Solves
  <2> QED BY <2>5
<1>3. Len(s) \in Solved
  <2> HIDE DEF Solved
  <2> QED BY <1>1, <1>2, Induction
<1>4. \E f : Solves(f, Len(s))
  BY <1>3
<1>5. Kept(s, T) = CHOOSE f : Solves(f, Len(s))
  BY DEF Kept
<1> QED BY <1>4, <1>5

LEMMA KeptNext ==
  ASSUME NEW s, Len(s) \in Nat, NEW T
  PROVE  /\ Kept(s, T)[0] = <<>>
         /\ \A n \in 1..Len(s) :
              Kept(s, T)[n] = IF s[n] \in T THEN Append(Kept(s, T)[n - 1], s[n])
                              ELSE Kept(s, T)[n - 1]
<1> DEFINE K == Kept(s, T)
<1>1. K = [n \in 0..Len(s) |->
             IF n = 0 THEN <<>> ELSE IF s[n] \in T THEN Append(K[n - 1], s[n]) ELSE K[n - 1]]
  BY KeptDefined
<1> HIDE DEF K
<1>2. K[0] = <<>>
  BY <1>1
<1>3. \A n \in 1..Len(s) : K[n] = IF s[n] \in T THEN Append(K[n - 1], s[n]) ELSE K[n - 1]
  <2> TAKE n \in 1..Len(s)
  <2>1. n \in 0..Len(s) /\ n # 0
    OBVIOUS
  <2> QED BY <1>1, <2>1
<1> QED BY <1>2, <1>3 DEF K

\* The elements kept of the first n of s stand for an increasing choice of
\* places of s, which are those whose element is in T.
Places(at, kept, s, T, n) ==
  /\ at \in [1..Len(kept) -> 1..n]
  /\ \A i \in DOMAIN at : kept[i] = s[at[i]]
  /\ \A i, j \in DOMAIN at : i < j => at[i] < at[j]
  /\ \A k \in 1..n : s[k] \in T => \E i \in DOMAIN at : at[i] = k

LEMMA KeptPlaces ==
  ASSUME NEW S, NEW s \in Seq(S), NEW T, NEW n \in 0..Len(s)
  PROVE  Kept(s, T)[n] \in Seq(S \cap T) /\ \E at : Places(at, Kept(s, T)[n], s, T, n)
<1> DEFINE K == Kept(s, T)
           Placed(at, m) ==
             /\ at \in [1..Len(K[m]) -> 1..m]
             /\ K[m] \in Seq(S \cap T)
             /\ \A i \in DOMAIN at : K[m][i] = s[at[i]]
             /\ \A i, j \in DOMAIN at : i < j => at[i] < at[j]
             /\ \A k \in 1..m : s[k] \in T => \E i \in DOMAIN at : at[i] = k
           Good == {m \in Nat : m <= Len(s) => \E at : Placed(at, m)}
<1>0. /\ K[0] = <<>>
      /\ \A m \in 1..Len(s) : K[m] = IF s[m] \in T THEN Append(K[m - 1], s[m]) ELSE K[m - 1]
  BY KeptNext
<1> HIDE DEF K
<1>1. 0 \in Good
  <2>1. Placed([i \in 1..0 |-> 1], 0)
    BY <1>0
  <2> HIDE DEF Placed
  <2> QED BY <2>1
<1>2. ASSUME NEW m \in Nat, m \in Good PROVE m + 1 \in Good
  <2> HIDE DEF Placed
  <2> SUFFICES ASSUME m + 1 <= Len(s) PROVE \E at : Placed(at, m + 1)
    OBVIOUS
  <2>1. PICK at : Placed(at, m)
    BY <1>2
  <2> USE DEF Placed
  <2>2. m + 1 \in 1..Len(s) /\ (m + 1) - 1 = m
    OBVIOUS
  <2>3. K[m + 1] = IF s[m + 1] \in T THEN Append(K[m], s[m + 1]) ELSE K[m]
    BY <1>0, <2>2
  <2>4. CASE s[m + 1] \notin T
    <3>1. K[m + 1] = K[m]
      BY <2>3, <2>4
    <3>2. Placed(at, m + 1)
      BY <2>1, <2>4, <3>1
    <3> HIDE DEF Placed
    <3> QED BY <3>2
  <2>5. CASE s[m + 1] \in T
    <3> DEFINE L  == Len(K[m])
               up == [i \in 1..(L + 1) |-> IF i = L + 1 THEN m + 1 ELSE at[i]]
    <3>1. K[m + 1] = Append(K[m], s[m + 1]) /\ s[m + 1] \in S /\ K[m] \in Seq(S \cap T)
      BY <2>1, <2>3, <2>5, <2>2
    <3>2. /\ L \in Nat /\ Len(K[m + 1]) = L + 1 /\ K[m + 1] \in Seq(S \cap T)
          /\ K[m + 1][L + 1] = s[m + 1]
          /\ \A i \in 1..L : K[m + 1][i] = K[m][i]
      BY <3>1, <2>5
    <3> HIDE DEF L
    <3>3. at \in [1..L -> 1..m] /\ \A i \in 1..L : up[i] = at[i]
      BY <2>1, <3>2 DEF L
    <3>4. up \in [1..Len(K[m + 1]) -> 1..(m + 1)] /\ up[L + 1] = m + 1
      BY <3>2, <3>3
    <3>5. ASSUME NEW i \in DOMAIN up PROVE K[m + 1][i] = s[up[i]]
      <4>1. i \in 1..L \/ i = L + 1
        BY <3>2, <3>4
      <4>2. CASE i = L + 1
        BY <3>2, <3>4, <4>2
      <4>3. CASE i \in 1..L
        <5>1. K[m + 1][i] = K[m][i] /\ up[i] = at[i]
          BY <3>2, <3>3, <4>3
        <5>2. K[m][i] = s[at[i]]
          BY <2>1, <3>3, <4>3
        <5> QED BY <5>1, <5>2
      <4> QED BY <4>1, <4>2, <4>3
    <3>6. ASSUME NEW i \in DOMAIN up, NEW j \in DOMAIN up, i < j PROVE up[i] < up[j]
      <4>1. i \in 1..L /\ (j \in 1..L \/ j = L + 1)
        BY <3>2, <3>4, <3>6
      <4>2. CASE j \in 1..L
        BY <2>1, <3>2, <3>3, <3>6, <4>1, <4>2 DEF L
      <4>3. CASE j = L + 1
        <5>1. up[i] \in 1..m
          BY <3>3, <4>1
        <5> QED BY <3>4, <4>3, <5>1
      <4> QED BY <4>1, <4>2, <4>3
    <3>7. \A k \in 1..(m + 1) : s[k] \in T => \E i \in DOMAIN up : up[i] = k
      <4> SUFFICES ASSUME NEW k \in 1..(m + 1), s[k] \in T
                   PROVE  \E i \in DOMAIN up : up[i] = k
        OBVIOUS
      <4>1. CASE k = m + 1 BY <4>1, <3>4, <3>2
      <4>2. CASE k # m + 1
        <5>1. PICK i \in DOMAIN at : at[i] = k BY <4>2, <2>1
        <5> QED BY <5>1, <3>3, <3>2
      <4> QED BY <4>1, <4>2
    <3>8. Placed(up, m + 1)
      BY <3>2, <3>4, <3>5, <3>6, <3>7
    <3> HIDE DEF Placed, up
    <3> QED BY <3>8
  <2> QED BY <2>4, <2>5
<1>3. n \in Good /\ n <= Len(s)
  <2> HIDE DEF Good
  <2> QED BY <1>1, <1>2, Induction
<1>4. PICK at : Placed(at, n)
  BY <1>3
<1>5. K[n] \in Seq(S \cap T) /\ Places(at, K[n], s, T, n)
  BY <1>4 DEF Places
<1> QED BY <1>5 DEF K

LEMMA KeptType ==
  ASSUME NEW S, NEW s \in Seq(S), NEW T, NEW n \in 0..Len(s)
  PROVE  Kept(s, T)[n] \in Seq(S \cap T) /\ Kept(s, T)[n] \in Seq(S)
<1>1. Kept(s, T)[n] \in Seq(S \cap T)
  BY KeptPlaces
<1> QED BY <1>1

-----------------------------------------------------------------------------
(* Sequences of anything, and what a filter and a concatenation make of    *)
(* them.                                                                   *)

LEMMA SeqIsSeq ==
  ASSUME NEW S, NEW s \in Seq(S)
  PROVE  /\ IsSeq(s) /\ Len(s) \in Nat /\ DOMAIN s = 1..Len(s)
         /\ ToSet(s) \subseteq S
<1>1. \A i \in 1..Len(s) : s[i] \in ToSet(s)
  BY DEF ToSet
<1>2. s = [i \in 1..Len(s) |-> s[i]] /\ Len(s) \in Nat
  OBVIOUS
<1>3. s \in [1..Len(s) -> ToSet(s)]
  BY <1>1, <1>2
<1>4. ToSet(s) \subseteq S
  BY DEF ToSet
<1> QED BY <1>2, <1>3, <1>4 DEF IsSeq, ToSet

LEMMA IsSeqFacts ==
  ASSUME NEW s, IsSeq(s)
  PROVE  /\ Len(s) \in Nat /\ DOMAIN s = 1..Len(s)
         /\ \A x : x \in ToSet(s) <=> \E i \in 1..Len(s) : s[i] = x
         /\ s = <<>> <=> Len(s) = 0
         /\ s = <<>> <=> ToSet(s) = {}
<1>1. s \in Seq(ToSet(s))
  BY DEF IsSeq, ToSet
<1>2. Len(s) \in Nat /\ DOMAIN s = 1..Len(s) /\ (s = <<>> <=> Len(s) = 0)
  BY <1>1
<1>3. \A x : x \in ToSet(s) <=> \E i \in 1..Len(s) : s[i] = x
  BY <1>2 DEF ToSet
<1>4. s = <<>> <=> ToSet(s) = {}
  <2>1. CASE Len(s) = 0
    BY <1>2, <1>3, <2>1
  <2>2. CASE Len(s) # 0
    <3>1. 1 \in 1..Len(s)
      BY <1>2, <2>2
    <3>2. s[1] \in ToSet(s)
      BY <1>3, <3>1
    <3> QED BY <1>2, <2>2, <3>2
  <2> QED BY <2>1, <2>2
<1> QED BY <1>2, <1>3, <1>4

LEMMA NoElements ==
  ASSUME NEW s, s = <<>>
  PROVE  IsSeq(s) /\ ToSet(s) = {} /\ Len(s) = 0
<1>1. DOMAIN s = {}
  OBVIOUS
<1>2. ToSet(s) = {}
  BY <1>1 DEF ToSet
<1>3. IsSeq(s)
  BY <1>1 DEF IsSeq
<1>4. Len(s) = 0
  OBVIOUS
<1> QED BY <1>2, <1>3, <1>4

LEMMA Single ==
  ASSUME NEW x
  PROVE  IsSeq(<<x>>) /\ ToSet(<<x>>) = {x}
<1>1. DOMAIN <<x>> = {1} /\ <<x>>[1] = x
  OBVIOUS
<1>2. ToSet(<<x>>) = {x}
  BY <1>1 DEF ToSet
<1>3. <<x>> \in Seq({x})
  OBVIOUS
<1> QED BY <1>2, <1>3 DEF IsSeq, ToSet

LEMMA Pair ==
  ASSUME NEW x, NEW y
  PROVE  IsSeq(<<x, y>>) /\ ToSet(<<x, y>>) = {x, y}
<1>1. DOMAIN <<x, y>> = {1, 2} /\ <<x, y>>[1] = x /\ <<x, y>>[2] = y
  OBVIOUS
<1>2. ToSet(<<x, y>>) = {x, y}
  BY <1>1 DEF ToSet
<1>3. <<x, y>> \in Seq({x, y})
  OBVIOUS
<1> QED BY <1>2, <1>3 DEF IsSeq, ToSet

\* A function on 1..n is a sequence of length n.
LEMMA Tabulated ==
  ASSUME NEW s, NEW n \in Nat, s = [i \in 1..n |-> s[i]]
  PROVE  IsSeq(s) /\ Len(s) = n /\ DOMAIN s = 1..n
<1>1. DOMAIN s = 1..n
  OBVIOUS
<1>2. s \in [1..n -> ToSet(s)]
  BY <1>1 DEF ToSet
<1>3. s \in Seq(ToSet(s)) /\ Len(s) = n
  BY <1>2
<1> QED BY <1>1, <1>3 DEF IsSeq, ToSet

LEMMA OnlyPlaces ==
  ASSUME NEW S, NEW s \in Seq(S), NEW T
  PROVE  Only(s, T) \in Seq(S \cap T) /\ \E at : Places(at, Only(s, T), s, T, Len(s))
<1>1. Len(s) \in 0..Len(s)
  OBVIOUS
<1> QED BY <1>1, KeptPlaces DEF Only

LEMMA OnlyType ==
  ASSUME NEW S, NEW s \in Seq(S), NEW T
  PROVE  Only(s, T) \in Seq(S) /\ Only(s, T) \in Seq(S \cap T)
<1>1. Only(s, T) \in Seq(S \cap T)
  BY OnlyPlaces
<1> QED BY <1>1

\* What is kept are the elements that are in T.
LEMMA OnlyElements ==
  ASSUME NEW s, IsSeq(s), NEW T
  PROVE  IsSeq(Only(s, T)) /\ ToSet(Only(s, T)) = ToSet(s) \cap T
<1> DEFINE o == Only(s, T)
<1>1. s \in Seq(ToSet(s)) /\ Len(s) \in Nat
  BY DEF IsSeq, ToSet
<1>2. o \in Seq(ToSet(s) \cap T)
  BY <1>1, OnlyPlaces
<1>at. PICK at : Places(at, o, s, T, Len(s))
  BY <1>1, OnlyPlaces
<1> HIDE DEF o
<1>3. IsSeq(o) /\ ToSet(o) \subseteq ToSet(s) \cap T
  BY <1>2, SeqIsSeq
<1>4. ASSUME NEW x \in ToSet(s) \cap T PROVE x \in ToSet(o)
  <2>1. PICK k \in 1..Len(s) : s[k] = x
    BY IsSeqFacts
  <2>2. PICK i \in 1..Len(o) : at[i] = k
    BY <1>at, <2>1 DEF Places
  <2>3. o[i] = x
    BY <1>at, <2>1, <2>2 DEF Places
  <2> QED BY <2>3, <1>3, IsSeqFacts
<1> QED BY <1>3, <1>4 DEF o

\* They are kept in their order.
LEMMA OnlyOrder ==
  ASSUME NEW s, IsSeq(s), NEW T,
         NEW i \in 1..Len(Only(s, T)), NEW j \in 1..Len(Only(s, T)), i < j
  PROVE  \E a, b \in 1..Len(s) : a < b /\ Only(s, T)[i] = s[a] /\ Only(s, T)[j] = s[b]
<1>1. s \in Seq(ToSet(s)) /\ Len(s) \in Nat
  BY DEF IsSeq, ToSet
<1>2. PICK at : Places(at, Only(s, T), s, T, Len(s))
  BY <1>1, OnlyPlaces
<1> QED BY <1>2 DEF Places

\* The first of them is the first element that is in T.
LEMMA OnlyFirst ==
  ASSUME NEW s, IsSeq(s), NEW T, Only(s, T) # <<>>
  PROVE  \E k \in 1..Len(s) : /\ s[k] \in T
                              /\ Only(s, T)[1] = s[k]
                              /\ \A j \in 1..(k - 1) : s[j] \notin T
<1> DEFINE o == Only(s, T)
<1>1. s \in Seq(ToSet(s)) /\ Len(s) \in Nat
  BY DEF IsSeq, ToSet
<1>2. o \in Seq(ToSet(s) \cap T)
  BY <1>1, OnlyPlaces
<1>at. PICK at : Places(at, o, s, T, Len(s))
  BY <1>1, OnlyPlaces
<1>3. o # <<>>
  OBVIOUS
<1> HIDE DEF o
<1>4. Len(o) \in Nat /\ 1 \in 1..Len(o) /\ o[1] \in T
  BY <1>2, <1>3
<1>5. at[1] \in 1..Len(s) /\ o[1] = s[at[1]]
  BY <1>at, <1>4 DEF Places
<1>6. ASSUME NEW j \in 1..(at[1] - 1) PROVE s[j] \notin T
  <2> SUFFICES ASSUME s[j] \in T PROVE FALSE
    OBVIOUS
  <2>1. j \in 1..Len(s) /\ j < at[1]
    BY <1>5
  <2>2. PICK i \in 1..Len(o) : at[i] = j
    BY <1>at, <2>1 DEF Places
  <2>3. i = 1 \/ 1 < i
    BY <1>4
  <2> QED BY <2>1, <2>2, <2>3, <1>at, <1>4, <1>5 DEF Places
<1> QED BY <1>4, <1>5, <1>6 DEF o

LEMMA Joined ==
  ASSUME NEW s, NEW t, IsSeq(s), IsSeq(t)
  PROVE  /\ IsSeq(s \o t) /\ Len(s \o t) = Len(s) + Len(t)
         /\ \A i \in 1..Len(s) : (s \o t)[i] = s[i]
         /\ \A i \in 1..Len(t) : (s \o t)[Len(s) + i] = t[i]
         /\ ToSet(s \o t) = ToSet(s) \cup ToSet(t)
<1> DEFINE S == ToSet(s) \cup ToSet(t)
<1>0. s \in Seq(ToSet(s)) /\ t \in Seq(ToSet(t)) /\ Len(s) \in Nat /\ Len(t) \in Nat
  BY DEF IsSeq, ToSet
<1>1. s \in Seq(S) /\ t \in Seq(S)
  BY <1>0
<1> HIDE DEF S
<1>2. /\ s \o t \in Seq(S) /\ Len(s \o t) = Len(s) + Len(t)
      /\ \A i \in 1..Len(s) : (s \o t)[i] = s[i]
      /\ \A i \in 1..Len(t) : (s \o t)[Len(s) + i] = t[i]
  BY <1>1, <1>0
<1>3. IsSeq(s \o t) /\ ToSet(s \o t) \subseteq S
  BY <1>2, SeqIsSeq
<1>4. ASSUME NEW x \in S PROVE x \in ToSet(s \o t)
  <2>1. CASE x \in ToSet(s)
    <3>1. PICK i \in 1..Len(s) : s[i] = x BY <2>1, IsSeqFacts
    <3>2. i \in 1..Len(s \o t) /\ (s \o t)[i] = x BY <3>1, <1>0, <1>2
    <3> QED BY <3>2, <1>3, IsSeqFacts
  <2>2. CASE x \in ToSet(t)
    <3>1. PICK i \in 1..Len(t) : t[i] = x BY <2>2, IsSeqFacts
    <3>2. Len(s) + i \in 1..Len(s \o t) /\ (s \o t)[Len(s) + i] = x BY <3>1, <1>0, <1>2
    <3> QED BY <3>2, <1>3, IsSeqFacts
  <2> QED BY <2>1, <2>2 DEF S
<1> QED BY <1>2, <1>3, <1>4 DEF S

\* The function FlattenSeq is defined by.
Flatten(ss) ==
  LET flatten[i \in 1..Len(ss)] == IF i = 1 THEN ss[i] ELSE flatten[i - 1] \o ss[i]
  IN  flatten

LEMMA FlattenDefined ==
  ASSUME NEW ss, Len(ss) \in Nat
  PROVE  Flatten(ss) = [i \in 1..Len(ss) |->
           IF i = 1 THEN ss[i] ELSE Flatten(ss)[i - 1] \o ss[i]]
<1> DEFINE Solves(f, m) == f = [i \in 1..m |-> IF i = 1 THEN ss[i] ELSE f[i - 1] \o ss[i]]
           Solved == {m \in Nat : \E f : Solves(f, m)}
<1>1. 0 \in Solved
  <2>1. Solves([i \in 1..0 |-> <<>>], 0)
    OBVIOUS
  <2> QED BY <2>1
<1>2. ASSUME NEW m \in Nat, m \in Solved PROVE m + 1 \in Solved
  <2>1. PICK f : Solves(f, m)
    BY <1>2
  <2> DEFINE g == [i \in 1..(m + 1) |->
                     IF i # m + 1 THEN f[i] ELSE IF i = 1 THEN ss[i] ELSE f[m] \o ss[i]]
  <2>2. \A i \in 1..m : g[i] = f[i] /\ i \in 1..(m + 1) /\ i # m + 1
    OBVIOUS
  <2>3. \A i \in 1..(m + 1) : i # 1 => i - 1 \in 1..m
    OBVIOUS
  <2>4. \A i \in 1..(m + 1) : g[i] = IF i = 1 THEN ss[i] ELSE g[i - 1] \o ss[i]
    <3> SUFFICES ASSUME NEW i \in 1..(m + 1)
                 PROVE  g[i] = IF i = 1 THEN ss[i] ELSE g[i - 1] \o ss[i]
      OBVIOUS
    <3>1. CASE i = m + 1
      <4>1. i # 1 => g[i - 1] = f[m] BY <3>1, <2>2, <2>3
      <4>2. g[i] = IF i = 1 THEN ss[i] ELSE f[m] \o ss[i] BY <3>1
      <4> QED BY <4>1, <4>2
    <3>2. CASE i # m + 1
      <4>1. i \in 1..m BY <3>2
      <4>2. g[i] = f[i] BY <4>1, <2>2
      <4>3. i # 1 => g[i - 1] = f[i - 1] BY <2>2, <2>3
      <4>4. f[i] = IF i = 1 THEN ss[i] ELSE f[i - 1] \o ss[i] BY <2>1, <4>1
      <4> QED BY <4>2, <4>3, <4>4
    <3> QED BY <3>1, <3>2
  <2>5. Solves(g, m + 1)
    BY <2>4
  <2> HIDE DEF g, Solves
  <2> QED BY <2>5
<1>3. Len(ss) \in Solved
  <2> HIDE DEF Solved
  <2> QED BY <1>1, <1>2, Induction
<1>4. \E f : Solves(f, Len(ss))
  BY <1>3
<1>5. Flatten(ss) = CHOOSE f : Solves(f, Len(ss))
  BY DEF Flatten
<1> QED BY <1>4, <1>5

\* A flattened sequence of sequences has the elements of all of them.
LEMMA FlattenElements ==
  ASSUME NEW ss, IsSeq(ss), \A i \in 1..Len(ss) : IsSeq(ss[i])
  PROVE  /\ IsSeq(FlattenSeq(ss))
         /\ \A x : x \in ToSet(FlattenSeq(ss)) <=> \E i \in 1..Len(ss) : x \in ToSet(ss[i])
<1> DEFINE F == Flatten(ss)
           Good == {m \in Nat : m \in 1..Len(ss) =>
                      /\ IsSeq(F[m])
                      /\ \A x : x \in ToSet(F[m]) <=> \E i \in 1..m : x \in ToSet(ss[i])}
<1>0. Len(ss) \in Nat /\ (Len(ss) = 0 <=> ss = <<>>) /\ (ss = <<>> => ToSet(ss) = {})
  BY IsSeqFacts
<1>1. \A m \in 1..Len(ss) : F[m] = IF m = 1 THEN ss[m] ELSE F[m - 1] \o ss[m]
  <2>1. F = [i \in 1..Len(ss) |-> IF i = 1 THEN ss[i] ELSE F[i - 1] \o ss[i]]
    BY <1>0, FlattenDefined
  <2> HIDE DEF F
  <2> QED BY <2>1
<1>2. Len(ss) # 0 => FlattenSeq(ss) = F[Len(ss)]
  BY DEF FlattenSeq, Flatten
<1> HIDE DEF F
<1>3. 0 \in Good
  OBVIOUS
<1>4. ASSUME NEW m \in Nat, m \in Good PROVE m + 1 \in Good
  <2> SUFFICES ASSUME m + 1 \in 1..Len(ss)
               PROVE  /\ IsSeq(F[m + 1])
                      /\ \A x : x \in ToSet(F[m + 1])
                                  <=> \E i \in 1..(m + 1) : x \in ToSet(ss[i])
    OBVIOUS
  <2>1. CASE m = 0
    <3>1. F[m + 1] = ss[m + 1] /\ m + 1 = 1 BY <1>1, <2>1
    <3>2. \A i : i \in 1..(m + 1) <=> i = m + 1 BY <2>1
    <3> QED BY <3>1, <3>2
  <2>2. CASE m # 0
    <3>1. m \in 1..Len(ss) /\ (m + 1) - 1 = m /\ m + 1 # 1 BY <2>2, <1>0
    <3>2. F[m + 1] = F[m] \o ss[m + 1] BY <1>1, <3>1
    <3>3. /\ IsSeq(F[m])
          /\ \A x : x \in ToSet(F[m]) <=> \E i \in 1..m : x \in ToSet(ss[i])
      BY <1>4, <3>1
    <3>4. IsSeq(F[m + 1]) /\ ToSet(F[m + 1]) = ToSet(F[m]) \cup ToSet(ss[m + 1])
      BY <3>2, <3>3, Joined
    <3>5. \A i : i \in 1..(m + 1) <=> i \in 1..m \/ i = m + 1
      OBVIOUS
    <3> QED BY <3>3, <3>4, <3>5
  <2> QED BY <2>1, <2>2
<1>5. Len(ss) \in Good
  <2> HIDE DEF Good
  <2> QED BY <1>0, <1>3, <1>4, Induction
<1>6. CASE Len(ss) = 0
  <2>1. FlattenSeq(ss) = ss /\ ToSet(ss) = {} /\ 1..Len(ss) = {}
    BY <1>6, <1>0 DEF FlattenSeq
  <2> QED BY <2>1
<1>7. CASE Len(ss) # 0
  <2>1. Len(ss) \in 1..Len(ss)
    BY <1>7, <1>0
  <2> QED BY <2>1, <1>2, <1>5, <1>7
<1> QED BY <1>6, <1>7

\* Every element of a flattened sequence has its place in one of the parts,
\* and no two of them have the same.
FlatPlaces(b, o, flat, ss, m) ==
  /\ b \in [1..Len(flat) -> 1..m] /\ o \in [1..Len(flat) -> Nat]
  /\ \A k \in 1..Len(flat) : o[k] \in 1..Len(ss[b[k]]) /\ flat[k] = ss[b[k]][o[k]]
  /\ \A k, l \in 1..Len(flat) : b[k] = b[l] /\ o[k] = o[l] => k = l

LEMMA FlattenPlaces ==
  ASSUME NEW ss, IsSeq(ss), \A i \in 1..Len(ss) : IsSeq(ss[i])
  PROVE  \E b, o : FlatPlaces(b, o, FlattenSeq(ss), ss, Len(ss))
<1> DEFINE F == Flatten(ss)
           Good == {m \in Nat : m \in 1..Len(ss) =>
                      IsSeq(F[m]) /\ \E b, o : FlatPlaces(b, o, F[m], ss, m)}
<1>0. Len(ss) \in Nat /\ (Len(ss) = 0 <=> ss = <<>>)
  BY IsSeqFacts
<1>1. \A m \in 1..Len(ss) : F[m] = IF m = 1 THEN ss[m] ELSE F[m - 1] \o ss[m]
  <2>1. F = [i \in 1..Len(ss) |-> IF i = 1 THEN ss[i] ELSE F[i - 1] \o ss[i]]
    BY <1>0, FlattenDefined
  <2> HIDE DEF F
  <2> QED BY <2>1
<1>2. Len(ss) # 0 => FlattenSeq(ss) = F[Len(ss)]
  BY DEF FlattenSeq, Flatten
<1> HIDE DEF F
<1>3. 0 \in Good
  OBVIOUS
<1>4. ASSUME NEW m \in Nat, m \in Good PROVE m + 1 \in Good
  <2> SUFFICES ASSUME m + 1 \in 1..Len(ss)
               PROVE  IsSeq(F[m + 1]) /\ \E b, o : FlatPlaces(b, o, F[m + 1], ss, m + 1)
    OBVIOUS
  <2>0. IsSeq(ss[m + 1]) /\ Len(ss[m + 1]) \in Nat
    BY IsSeqFacts
  <2>1. CASE m = 0
    <3> DEFINE b == [k \in 1..Len(F[m + 1]) |-> 1]
               o == [k \in 1..Len(F[m + 1]) |-> k]
    <3>1. F[m + 1] = ss[m + 1] /\ m + 1 = 1 BY <1>1, <2>1
    <3>2. FlatPlaces(b, o, F[m + 1], ss, m + 1)
      BY <3>1, <2>0 DEF FlatPlaces
    <3> QED BY <2>0, <3>1, <3>2
  <2>2. CASE m # 0
    <3>1. m \in 1..Len(ss) /\ (m + 1) - 1 = m /\ m + 1 # 1 BY <2>2, <1>0
    <3> DEFINE s == F[m]
               t == ss[m + 1]
               n == Len(s)
    <3>2. F[m + 1] = s \o t BY <1>1, <3>1
    <3>3. PICK b, o : IsSeq(s) /\ FlatPlaces(b, o, s, ss, m)
      BY <1>4, <3>1
    <3>4. /\ IsSeq(s \o t) /\ Len(s \o t) = n + Len(t) /\ n \in Nat
          /\ \A i \in 1..n : (s \o t)[i] = s[i]
          /\ \A i \in 1..Len(t) : (s \o t)[n + i] = t[i]
      <4>1. n \in Nat
        BY <3>3, IsSeqFacts
      <4>2. IsSeq(s) /\ IsSeq(t)
        BY <2>0, <3>3
      <4> HIDE DEF s, t
      <4>3. /\ IsSeq(s \o t) /\ Len(s \o t) = Len(s) + Len(t)
            /\ \A i \in 1..Len(s) : (s \o t)[i] = s[i]
            /\ \A i \in 1..Len(t) : (s \o t)[Len(s) + i] = t[i]
        BY <4>2, Joined
      <4> QED BY <4>1, <4>3
    <3> HIDE DEF n
    <3> DEFINE c == [k \in 1..(n + Len(t)) |-> IF k <= n THEN b[k] ELSE m + 1]
               p == [k \in 1..(n + Len(t)) |-> IF k <= n THEN o[k] ELSE k - n]
    <3>5. /\ b \in [1..n -> 1..m] /\ o \in [1..n -> Nat]
          /\ \A k \in 1..n : o[k] \in 1..Len(ss[b[k]]) /\ s[k] = ss[b[k]][o[k]]
          /\ \A k, l \in 1..n : b[k] = b[l] /\ o[k] = o[l] => k = l
      BY <3>3 DEF FlatPlaces, n
    <3>6. \A k \in 1..(n + Len(t)) :
            \/ k \in 1..n /\ c[k] = b[k] /\ p[k] = o[k]
            \/ /\ k - n \in 1..Len(t) /\ k = n + (k - n) /\ ~(k <= n)
               /\ c[k] = m + 1 /\ p[k] = k - n
      BY <2>0, <3>4
    <3>7. c \in [1..(n + Len(t)) -> 1..(m + 1)] /\ p \in [1..(n + Len(t)) -> Nat]
      BY <2>0, <3>4, <3>5
    <3> HIDE DEF c, p
    <3>8. ASSUME NEW k \in 1..(n + Len(t))
          PROVE  p[k] \in 1..Len(ss[c[k]]) /\ (s \o t)[k] = ss[c[k]][p[k]]
      <4>1. CASE k \in 1..n /\ c[k] = b[k] /\ p[k] = o[k]
        BY <3>4, <3>5, <4>1
      <4>2. CASE /\ k - n \in 1..Len(t) /\ k = n + (k - n)
                 /\ c[k] = m + 1 /\ p[k] = k - n
        <5>1. (s \o t)[n + (k - n)] = t[k - n]
          BY <3>4, <4>2
        <5> QED BY <4>2, <5>1
      <4> QED BY <3>6, <4>1, <4>2
    <3>9. ASSUME NEW k \in 1..(n + Len(t)), NEW l \in 1..(n + Len(t)), c[k] = c[l], p[k] = p[l]
          PROVE  k = l
      <4>1. \A i \in 1..n : b[i] \in 1..m
        BY <3>5
      <4>2. \A i \in 1..n : b[i] # m + 1
        BY <4>1
      <4>3. CASE k \in 1..n /\ l \in 1..n /\ c[k] = b[k] /\ p[k] = o[k] /\ c[l] = b[l] /\ p[l] = o[l]
        BY <3>5, <3>9, <4>3
      <4>4. CASE p[k] = k - n /\ p[l] = l - n
        <5>1. k \in Nat /\ l \in Nat /\ n \in Nat
          BY <2>0, <3>4
        <5>2. k - n = l - n
          BY <3>9, <4>4
        <5> QED BY <5>1, <5>2
      <4> QED BY <3>6, <3>9, <4>2, <4>3, <4>4
    <3>10. FlatPlaces(c, p, s \o t, ss, m + 1)
      BY <3>4, <3>7, <3>8, <3>9 DEF FlatPlaces
    <3> QED BY <3>2, <3>4, <3>10
  <2> QED BY <2>1, <2>2
<1>5. Len(ss) \in Good
  <2> HIDE DEF Good
  <2> QED BY <1>0, <1>3, <1>4, Induction
<1>6. CASE Len(ss) = 0
  <2>1. FlattenSeq(ss) = <<>>
    BY <1>6, <1>0 DEF FlattenSeq
  <2>2. FlatPlaces(<<>>, <<>>, <<>>, ss, Len(ss))
    BY <1>6 DEF FlatPlaces
  <2> QED BY <2>1, <2>2
<1>7. CASE Len(ss) # 0
  <2>1. Len(ss) \in 1..Len(ss)
    BY <1>7, <1>0
  <2> QED BY <2>1, <1>2, <1>5, <1>7
<1> QED BY <1>6, <1>7

-----------------------------------------------------------------------------
(* Prefixes.                                                               *)

\* Prefixes compare the elements.
LEMMA PrefixElements ==
  ASSUME NEW s, NEW t, IsSeq(s), IsSeq(t)
  PROVE  IsPrefix(s, t) <=> Len(s) <= Len(t) /\ \A i \in 1..Len(s) : s[i] = t[i]
<1>1. Len(s) \in Nat /\ Len(t) \in Nat /\ DOMAIN s = 1..Len(s) /\ DOMAIN t = 1..Len(t)
  BY IsSeqFacts
<1>2. s \in Seq(ToSet(s)) /\ t \in Seq(ToSet(t))
  BY DEF IsSeq, ToSet
<1>3. SubSeq(s, 1, Len(s)) = [i \in 1..Len(s) |-> s[i]]
  BY <1>1, <1>2
<1>4. Len(s) <= Len(t) => SubSeq(t, 1, Len(s)) = [i \in 1..Len(s) |-> t[i]]
  BY <1>1, <1>2
<1> QED BY <1>1, <1>3, <1>4 DEF IsPrefix

LEMMA PrefixOfItself ==
  ASSUME NEW s, IsSeq(s)
  PROVE  IsPrefix(s, s)
BY PrefixElements, IsSeqFacts

\* A prefix as long as the sequence is the sequence.
LEMMA FullPrefix ==
  ASSUME NEW s, NEW t, IsSeq(s), IsSeq(t), IsPrefix(s, t), Len(s) = Len(t)
  PROVE  s = t
<1>1. s \in Seq(ToSet(s)) /\ t \in Seq(ToSet(t)) /\ Len(s) \in Nat
  BY DEF IsSeq, ToSet
<1>2. \A i \in 1..Len(s) : s[i] = t[i]
  BY PrefixElements
<1>3. s = [i \in 1..Len(s) |-> s[i]] /\ t = [i \in 1..Len(s) |-> t[i]]
  BY <1>1
<1> QED BY <1>2, <1>3

LEMMA Appended ==
  ASSUME NEW s, IsSeq(s), NEW x
  PROVE  /\ IsSeq(Append(s, x)) /\ Len(Append(s, x)) = Len(s) + 1
         /\ Append(s, x)[Len(s) + 1] = x
         /\ \A i \in 1..Len(s) : Append(s, x)[i] = s[i]
<1>1. s \in Seq(ToSet(s) \cup {x}) /\ Len(s) \in Nat
  BY DEF IsSeq, ToSet
<1>2. /\ Append(s, x) \in Seq(ToSet(s) \cup {x}) /\ Len(Append(s, x)) = Len(s) + 1
      /\ Append(s, x)[Len(s) + 1] = x
      /\ \A i \in 1..Len(s) : Append(s, x)[i] = s[i]
  BY <1>1
<1> QED BY <1>2, SeqIsSeq
=============================================================================
