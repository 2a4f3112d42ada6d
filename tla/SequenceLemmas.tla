--------------------------- MODULE SequenceLemmas ---------------------------
(***************************************************************************)
(* Lemmas about sequences that the proofs share: concatenations, functions *)
(* that are defined by recursion, and sequences of sequences.              *)
(***************************************************************************)
EXTENDS Integers, SequencesExt, TLAPS, SequenceTheorems, WellFoundedInduction

-----------------------------------------------------------------------------
(* Sequences, induction and recursion *)

LEMMA Concat ==
    ASSUME NEW X, NEW a \in Seq(X), NEW b \in Seq(X)
    PROVE  /\ a \o b \in Seq(X) /\ Len(a \o b) = Len(a) + Len(b)
           /\ \A i \in 1 .. Len(a) : (a \o b)[i] = a[i]
           /\ \A i \in 1 .. Len(b) : (a \o b)[Len(a) + i] = b[i]
<1>1. Len(a) \in Nat /\ Len(b) \in Nat
  BY LenProperties
<1>2. /\ a \o b \in Seq(X) /\ Len(a \o b) = Len(a) + Len(b)
      /\ \A i \in 1 .. Len(a) + Len(b) :
           (a \o b)[i] = IF i <= Len(a) THEN a[i] ELSE b[i - Len(a)]
  BY ConcatProperties
<1>3. \A i \in 1 .. Len(a) : (a \o b)[i] = a[i]
  BY <1>1, <1>2
<1>4. ASSUME NEW i \in 1 .. Len(b) PROVE (a \o b)[Len(a) + i] = b[i]
  <2> DEFINE j == Len(a) + i
  <2>1. j \in 1 .. Len(a) + Len(b) /\ ~(j <= Len(a)) /\ j - Len(a) = i
    BY <1>1
  <2> HIDE DEF j
  <2>2. (a \o b)[j] = b[i]
    BY <1>2, <2>1
  <2> QED  BY <2>2 DEF j
<1> QED  BY <1>2, <1>3, <1>4

LEMMA SeqType ==
    ASSUME NEW X, NEW a \in Seq(X)
    PROVE  /\ Len(a) \in Nat /\ DOMAIN a = 1 .. Len(a)
           /\ \A i \in 1 .. Len(a) : a[i] \in X
           /\ (a = <<>> <=> Len(a) = 0)
<1>1. Len(a) \in Nat /\ DOMAIN a = 1 .. Len(a) /\ a \in [1 .. Len(a) -> X]
  BY LenProperties
<1>2. a = <<>> <=> Len(a) = 0
  BY EmptySeq
<1> QED  BY <1>1, <1>2

\* A piece of a text is a text.
LEMMA Piece ==
    ASSUME NEW X, NEW a \in Seq(X), NEW m \in Int, NEW n \in Int, 1 <= m, n <= Len(a)
    PROVE  /\ SubSeq(a, m, n) \in Seq(X)
           /\ Len(SubSeq(a, m, n)) = IF m <= n THEN n - m + 1 ELSE 0
           /\ \A i \in 1 .. n - m + 1 : SubSeq(a, m, n)[i] = a[m + i - 1]
<1>1. \A i \in m .. n : a[i] \in X
  BY SeqType
<1> QED  BY <1>1, SubSeqProperties

LEMMA Equal ==
    ASSUME NEW X, NEW a \in Seq(X), NEW b \in Seq(X), Len(a) = Len(b),
           \A i \in 1 .. Len(a) : a[i] = b[i]
    PROVE  a = b
BY SeqEqual

\* The two parts of a concatenation.
LEMMA FrontPart ==
    ASSUME NEW X, NEW a \in Seq(X), NEW b \in Seq(X)
    PROVE  SubSeq(a \o b, 1, Len(a)) = a
<1> DEFINE s == SubSeq(a \o b, 1, Len(a))
<1>1. /\ a \o b \in Seq(X) /\ Len(a \o b) = Len(a) + Len(b)
      /\ \A i \in 1 .. Len(a) : (a \o b)[i] = a[i]
  BY Concat
<1>2. Len(a) \in Nat /\ Len(b) \in Nat
  BY SeqType
<1>3. /\ s \in Seq(X) /\ Len(s) = IF 1 <= Len(a) THEN Len(a) - 1 + 1 ELSE 0
      /\ \A i \in 1 .. Len(a) - 1 + 1 : s[i] = (a \o b)[1 + i - 1]
  <2>1. 1 \in Int /\ Len(a) \in Int /\ 1 <= 1 /\ Len(a) <= Len(a \o b)
    BY <1>1, <1>2
  <2> QED  BY <1>1, <2>1, Piece
<1> HIDE DEF s
<1>4. Len(s) = Len(a)
  BY <1>2, <1>3
<1>5. \A i \in 1 .. Len(s) : s[i] = a[i]
  BY <1>1, <1>2, <1>3, <1>4
<1>6. s = a
  BY <1>3, <1>4, <1>5, Equal
<1> QED  BY <1>6 DEF s

LEMMA BackPart ==
    ASSUME NEW X, NEW a \in Seq(X), NEW b \in Seq(X)
    PROVE  SubSeq(a \o b, Len(a) + 1, Len(a \o b)) = b
<1> DEFINE s == SubSeq(a \o b, Len(a) + 1, Len(a \o b))
<1>1. /\ a \o b \in Seq(X) /\ Len(a \o b) = Len(a) + Len(b)
      /\ \A i \in 1 .. Len(b) : (a \o b)[Len(a) + i] = b[i]
  BY Concat
<1>2. Len(a) \in Nat /\ Len(b) \in Nat
  BY SeqType
<1>3. /\ s \in Seq(X)
      /\ Len(s) = IF Len(a) + 1 <= Len(a \o b) THEN Len(a \o b) - (Len(a) + 1) + 1 ELSE 0
      /\ \A i \in 1 .. Len(a \o b) - (Len(a) + 1) + 1 :
           s[i] = (a \o b)[Len(a) + 1 + i - 1]
  <2>1. /\ Len(a) + 1 \in Int /\ Len(a \o b) \in Int
        /\ 1 <= Len(a) + 1 /\ Len(a \o b) <= Len(a \o b)
    BY <1>1, <1>2
  <2> QED  BY <1>1, <2>1, Piece
<1> HIDE DEF s
<1>4. Len(s) = Len(b)
  BY <1>1, <1>2, <1>3
<1>5. \A i \in 1 .. Len(s) : s[i] = b[i]
  <2> TAKE i \in 1 .. Len(s)
  <2>1. s[i] = (a \o b)[Len(a) + 1 + i - 1] /\ Len(a) + 1 + i - 1 = Len(a) + i
    BY <1>1, <1>2, <1>3, <1>4
  <2> QED  BY <1>1, <1>4, <2>1
<1>6. s = b
  BY <1>3, <1>4, <1>5, Equal
<1> QED  BY <1>6 DEF s

LEMMA Assoc ==
    ASSUME NEW X, NEW a \in Seq(X), NEW b \in Seq(X), NEW c \in Seq(X)
    PROVE  (a \o b) \o c = a \o (b \o c)
BY ConcatAssociative

LEMMA Associates ==
    ASSUME NEW X
    PROVE  \A a \in Seq(X), b \in Seq(X), c \in Seq(X) : (a \o b) \o c = a \o (b \o c)
BY ConcatAssociative

\* Induction between two numbers, over a set.
LEMMA Induction ==
    ASSUME NEW a \in Int, NEW b \in Int, NEW T, a \in T,
           \A i \in a + 1 .. b : i - 1 \in T => i \in T
    PROVE  \A i \in a .. b : i \in T
<1> DEFINE S == {n \in Nat : a + n <= b /\ a + n \notin T}
<1>1. ASSUME S # {} PROVE FALSE
  <2>1. S \in SUBSET Nat
    OBVIOUS
  <2> HIDE DEF S
  <2>2. PICK m \in S : \A n \in S : ~ (<<n, m>> \in OpToRel(<, Nat))
    BY <1>1, <2>1, NatLessThanWellFounded, WFMin
  <2>3. \A n \in S : ~ (n < m)
    BY <2>1, <2>2 DEF OpToRel
  <2>4. m \in Nat /\ a + m <= b /\ a + m \notin T
    BY <2>2 DEF S
  <2>5. m # 0
    BY <2>4
  <2>6. m - 1 \in Nat /\ m - 1 < m /\ a + (m - 1) <= b /\ a + (m - 1) = a + m - 1
    BY <2>4, <2>5
  <2>7. m - 1 \notin S
    BY <2>3, <2>6
  <2>8. a + m - 1 \in T
    BY <2>6, <2>7 DEF S
  <2>9. a + m \in a + 1 .. b
    BY <2>4, <2>5
  <2> QED  BY <2>4, <2>8, <2>9
<1>2. ASSUME NEW i \in a .. b PROVE i \in T
  <2>1. i - a \in Nat /\ a + (i - a) = i /\ i <= b
    OBVIOUS
  <2>2. i - a \notin S
    BY <1>1
  <2> QED  BY <2>1, <2>2
<1> QED  BY <1>2

\* A function that is defined by recursion between two numbers exists.
Recursive(g, a, b, S, start, step) ==
    /\ g \in [a .. b -> S] /\ g[a] = start
    /\ \A i \in a + 1 .. b : g[i] = step[<<g[i - 1], i>>]

LEMMA Recursion ==
    ASSUME NEW a \in Int, NEW b \in Int, a <= b, NEW S, NEW start \in S,
           NEW step \in [S \X (a + 1 .. b) -> S]
    PROVE  \E g : Recursive(g, a, b, S, start, step)
<1> DEFINE Good(g, n) == /\ g \in [a .. n -> S] /\ g[a] = start
                        /\ \A i \in a + 1 .. n : g[i] = step[<<g[i - 1], i>>]
           T == {n \in a .. b : \E g : Good(g, n)}
<1>1. a \in T
  <2>1. Good([i \in a .. a |-> start], a)
    OBVIOUS
  <2> HIDE DEF Good
  <2> QED  BY <2>1
<1>2. ASSUME NEW n \in a + 1 .. b, n - 1 \in T PROVE n \in T
  <2>1. PICK g : Good(g, n - 1)
    BY <1>2
  <2>2. g[n - 1] \in S /\ <<g[n - 1], n>> \in S \X (a + 1 .. b)
    BY <2>1
  <2> DEFINE v == step[<<g[n - 1], n>>]
             h == [i \in a .. n |-> IF i = n THEN v ELSE g[i]]
  <2>3. v \in S
    BY <2>2
  <2> HIDE DEF v
  <2>4. h \in [a .. n -> S] /\ h[a] = start
    BY <2>1, <2>3
  <2>5. ASSUME NEW i \in a + 1 .. n PROVE h[i] = step[<<h[i - 1], i>>]
    <3>1. h[i - 1] = g[i - 1]
      OBVIOUS
    <3>2. CASE i = n
      <4>1. h[i] = v
        BY <3>2
      <4> HIDE DEF h
      <4> QED  BY <3>1, <3>2, <4>1 DEF v
    <3>3. CASE i # n
      <4>1. h[i] = g[i] /\ i \in a + 1 .. n - 1
        BY <3>3
      <4> HIDE DEF h
      <4> QED  BY <2>1, <3>1, <4>1
    <3> QED  BY <3>2, <3>3
  <2>6. Good(h, n)
    <3> HIDE DEF h
    <3> QED  BY <2>4, <2>5
  <2> HIDE DEF Good, h
  <2>7. n \in a .. b
    OBVIOUS
  <2> QED  BY <2>6, <2>7
<1>3. b \in T
  <2> HIDE DEF T
  <2> QED  BY <1>1, <1>2, Induction
<1>4. \E g : Good(g, b)
  BY <1>3
<1> QED  BY <1>4 DEF Recursive

LEMMA IsSeq ==
    ASSUME NEW S, NEW n \in Nat, NEW g \in [1 .. n -> S]
    PROVE  g \in Seq(S) /\ Len(g) = n
<1>1. g \in Seq(S)
  BY SeqDef
<1> QED  BY <1>1, LenProperties

-----------------------------------------------------------------------------
(* Sequences of sequences *)

\* The recursion of FlattenSeq.
Flattens(f, s, X) ==
    /\ f \in [0 .. Len(s) -> Seq(X)] /\ f[0] = <<>>
    /\ \A i \in 1 .. Len(s) : f[i] = f[i - 1] \o s[i]
    /\ FlattenSeq(s) = f[Len(s)]

LEMMA FlattenWalk ==
    ASSUME NEW X, NEW s \in Seq(Seq(X)) PROVE \E f : Flattens(f, s, X)
<1> DEFINE n == Len(s)
           D(h) == h = [i \in 1 .. n |-> IF i = 1 THEN s[i] ELSE h[i - 1] \o s[i]]
           step == [x \in Seq(X) \X (0 + 1 .. n) |-> x[1] \o s[x[2]]]
<1>1. n \in Nat /\ \A i \in 1 .. n : s[i] \in Seq(X)
  BY SeqType
<1>2. CASE n = 0
  <2>1. s = <<>> /\ FlattenSeq(s) = s
    BY <1>2, SeqType DEF FlattenSeq
  <2> DEFINE f == [i \in 0 .. 0 |-> <<>>]
  <2>2. f \in [0 .. Len(s) -> Seq(X)] /\ f[0] = <<>> /\ f[Len(s)] = <<>>
    BY <1>2
  <2> HIDE DEF f
  <2>3. Flattens(f, s, X)
    BY <1>2, <2>1, <2>2 DEF Flattens
  <2> QED  BY <2>3
<1>3. CASE n # 0
  <2>1. step \in [Seq(X) \X (0 + 1 .. n) -> Seq(X)]
    BY <1>1, Concat
  <2>2. <<>> \in Seq(X)
    OBVIOUS
  <2> HIDE DEF step, n
  <2> HIDE DEF D
  <2>21. 0 \in Int /\ n \in Int /\ 0 <= n
    BY <1>1
  <2>3. PICK g : Recursive(g, 0, n, Seq(X), <<>>, step)
    BY <2>1, <2>2, <2>21, Recursion
  <2>4. /\ g \in [0 .. n -> Seq(X)] /\ g[0] = <<>>
        /\ \A i \in 0 + 1 .. n : g[i] = step[<<g[i - 1], i>>]
    BY <2>3 DEF Recursive
  <2>5. ASSUME NEW i \in 1 .. n PROVE g[i] = g[i - 1] \o s[i]
    <3>1. <<g[i - 1], i>> \in Seq(X) \X (0 + 1 .. n)
      <4>1. i - 1 \in 0 .. n /\ i \in 0 + 1 .. n
        BY <1>1
      <4> QED  BY <2>4, <4>1
    <3>2. g[i] = step[<<g[i - 1], i>>]
      BY <2>4
    <3> QED  BY <3>1, <3>2 DEF step
  <2> DEFINE h == [i \in 1 .. n |-> g[i]]
             flatten == CHOOSE e : D(e)
  <2>6. D(h)
    <3>1. ASSUME NEW i \in 1 .. n
          PROVE  g[i] = IF i = 1 THEN s[i] ELSE h[i - 1] \o s[i]
      <4>1. CASE i = 1
        <5>1. g[1] = <<>> \o s[1] /\ s[1] \in Seq(X)
          <6>1. s[1] \in Seq(X) /\ g[1] = g[1 - 1] \o s[1] /\ 1 - 1 = 0
            <7>1. 1 \in 1 .. n /\ 1 - 1 = 0
              BY <1>1, <4>1
            <7> QED  BY <1>1, <2>5, <7>1
          <6> QED  BY <2>4, <6>1
        <5>2. <<>> \o s[1] = s[1]
          BY <5>1
        <5> QED  BY <4>1, <5>1, <5>2
      <4>2. CASE i # 1
        <5>1. h[i - 1] = g[i - 1]
          BY <1>1, <4>2
        <5> HIDE DEF h
        <5> QED  BY <2>5, <4>2, <5>1
      <4> QED  BY <4>1, <4>2
    <3>2. h = [i \in 1 .. n |-> g[i]]
      OBVIOUS
    <3> HIDE DEF h
    <3> QED  BY <3>1, <3>2 DEF D
  <2> HIDE DEF h
  <2>7. D(flatten)
    BY <2>6
  <2>8. FlattenSeq(s) = flatten[n]
    BY <1>3 DEF FlattenSeq, n, D
  <2> HIDE DEF flatten
  <2>9. flatten[1] = s[1] /\ \A i \in 2 .. n : flatten[i] = flatten[i - 1] \o s[i]
    <3>1. flatten = [i \in 1 .. n |-> IF i = 1 THEN s[i] ELSE flatten[i - 1] \o s[i]]
      BY <2>7 DEF D
    <3>2. 1 \in 1 .. n /\ \A i \in 2 .. n : i \in 1 .. n /\ i # 1
      BY <1>1, <1>3
    <3> QED  BY <3>1, <3>2
  <2> DEFINE f == [i \in 0 .. n |-> IF i = 0 THEN <<>> ELSE flatten[i]]
             T == {i \in 0 .. n : f[i] = g[i]}
  <2>10. f[0] = <<>> /\ DOMAIN f = 0 .. n /\ f = [i \in 0 .. n |-> f[i]]
    BY <1>1
  <2>11. f[n] = FlattenSeq(s)
    BY <1>1, <1>3, <2>8
  <2>12. ASSUME NEW i \in 1 .. n PROVE f[i] = f[i - 1] \o s[i]
    <3>1. CASE i = 1
      <4>1. f[1] = s[1] /\ f[0] = <<>> /\ s[1] \in Seq(X)
        BY <1>1, <1>3, <2>9
      <4> HIDE DEF f
      <4>2. <<>> \o s[1] = s[1]
        BY <4>1
      <4> HIDE DEF Flattens
      <4>3. <<>> \o s[i] = s[i] /\ f[i - 1] = <<>> /\ f[i] = s[i]
        BY <3>1, <4>1, <4>2
      <4> QED  BY <4>3
    <3>2. CASE i # 1
      <4>1. f[i] = flatten[i] /\ f[i - 1] = flatten[i - 1] /\ i \in 2 .. n
        BY <1>1, <3>2
      <4> HIDE DEF f
      <4> QED  BY <2>9, <4>1
    <3> QED  BY <3>1, <3>2
  <2> HIDE DEF f
  <2>13. 0 \in T
    BY <1>1, <2>4, <2>10
  <2>14. ASSUME NEW i \in 0 + 1 .. n, i - 1 \in T PROVE i \in T
    <3>1. i \in 1 .. n /\ i \in 0 .. n
      BY <1>1
    <3>2. g[i] = g[i - 1] \o s[i] /\ f[i] = f[i - 1] \o s[i]
      BY <2>5, <2>12, <3>1
    <3>3. f[i - 1] = g[i - 1]
      BY <2>14
    <3> QED  BY <3>1, <3>2, <3>3
  <2> HIDE DEF T
  <2>15. \A i \in 0 .. n : i \in T
    BY <2>13, <2>14, <2>21, Induction
  <2>16. f \in [0 .. n -> Seq(X)]
    BY <2>4, <2>10, <2>15 DEF T
  <2>17. Flattens(f, s, X)
    BY <2>10, <2>11, <2>12, <2>16 DEF Flattens, n
  <2> QED  BY <2>17
<1> QED  BY <1>2, <1>3

LEMMA FlattenConcat ==
    ASSUME NEW X, NEW s \in Seq(Seq(X)), NEW t \in Seq(Seq(X))
    PROVE  FlattenSeq(s \o t) = FlattenSeq(s) \o FlattenSeq(t)
<1> DEFINE u == s \o t
           m == Len(s)
           n == Len(t)
<1>0. \A x \in Seq(X), y \in Seq(X), z \in Seq(X) : (x \o y) \o z = x \o (y \o z)
  BY Associates
<1>1. u \in Seq(Seq(X)) /\ Len(u) = m + n /\ m \in Nat /\ n \in Nat
  BY Concat, SeqType
<1>2. (\A i \in 1 .. m : u[i] = s[i]) /\ (\A i \in 1 .. n : u[m + i] = t[i])
  BY Concat
<1> HIDE DEF u
<1>3. PICK f : Flattens(f, s, X)
  BY FlattenWalk
<1>4. PICK g : Flattens(g, t, X)
  BY FlattenWalk
<1>5. PICK h : Flattens(h, u, X)
  BY <1>1, FlattenWalk
<1>6. /\ f \in [0 .. m -> Seq(X)] /\ f[0] = <<>>
      /\ \A i \in 1 .. m : f[i] = f[i - 1] \o s[i]
      /\ FlattenSeq(s) = f[m]
  BY <1>3 DEF Flattens
<1>7. /\ g \in [0 .. n -> Seq(X)] /\ g[0] = <<>>
      /\ \A i \in 1 .. n : g[i] = g[i - 1] \o t[i]
      /\ FlattenSeq(t) = g[n]
  BY <1>4 DEF Flattens
<1>8. /\ h \in [0 .. m + n -> Seq(X)] /\ h[0] = <<>>
      /\ \A i \in 1 .. m + n : h[i] = h[i - 1] \o u[i]
      /\ FlattenSeq(u) = h[m + n]
  BY <1>1, <1>5 DEF Flattens
<1> DEFINE S == {i \in 0 .. m : h[i] = f[i]}
           T == {i \in 0 .. n : h[m + i] = f[m] \o g[i]}
<1> HIDE DEF m, n
<1>9. \A i \in 0 .. m : i \in S
  <2>1. 0 \in S
    BY <1>1, <1>6, <1>8
  <2>2. ASSUME NEW i \in 0 + 1 .. m, i - 1 \in S PROVE i \in S
    <3>1. i \in 1 .. m + n /\ i \in 1 .. m
      BY <1>1
    <3>2. h[i] = h[i - 1] \o u[i] /\ f[i] = f[i - 1] \o s[i]
      BY <1>6, <1>8, <3>1
    <3>3. h[i - 1] = f[i - 1] /\ u[i] = s[i]
      BY <1>2, <2>2, <3>1 DEF m
    <3>4. i \in 0 .. m /\ h[i] = f[i]
      BY <3>1, <3>2, <3>3
    <3> QED  BY <3>4
  <2> HIDE DEF S
  <2>3. 0 \in Int /\ m \in Int
    BY <1>1
  <2> QED  BY <2>1, <2>2, <2>3, Induction
<1>10. h[m] = f[m] /\ f[m] \in Seq(X)
  BY <1>1, <1>6, <1>9
<1>11. \A i \in 0 .. n : i \in T
  <2>1. 0 \in T
    <3>1. f[m] \o <<>> = f[m]
      BY <1>10
    <3>2. 0 \in 0 .. n /\ m + 0 = m
      BY <1>1
    <3> QED  BY <1>7, <1>10, <3>1, <3>2
  <2>2. ASSUME NEW i \in 0 + 1 .. n, i - 1 \in T PROVE i \in T
    <3>1. m + i \in 1 .. m + n /\ i \in 1 .. n /\ (m + i) - 1 = m + (i - 1)
      BY <1>1
    <3>2. h[m + i] = h[m + (i - 1)] \o u[m + i] /\ g[i] = g[i - 1] \o t[i]
      <4>1. h[m + i] = h[(m + i) - 1] \o u[m + i]
        <5>1. \A j \in 1 .. m + n : h[j] = h[j - 1] \o u[j]
          BY <1>8
        <5>2. m + i \in 1 .. m + n
          BY <3>1
        <5> QED  BY <5>1, <5>2, Zenon
      <4>2. g[i] = g[i - 1] \o t[i]
        BY <1>7, <3>1
      <4> QED  BY <3>1, <4>1, <4>2
    <3>3. h[m + i] = (f[m] \o g[i - 1]) \o t[i]
      <4>1. u[m + i] = t[i]
        BY <1>2, <3>1 DEF m, n
      <4>2. h[m + (i - 1)] = f[m] \o g[i - 1]
        BY <2>2
      <4> QED  BY <3>2, <4>1, <4>2
    <3>4. t[i] \in Seq(X) /\ g[i - 1] \in Seq(X)
      <4>1. t[i] \in Seq(X)
        BY <3>1, SeqType DEF n
      <4>2. i - 1 \in 0 .. n
        BY <1>1, <3>1
      <4> QED  BY <1>7, <4>1, <4>2
    <3>5. (f[m] \o g[i - 1]) \o t[i] = f[m] \o (g[i - 1] \o t[i])
      BY <1>0, <1>10, <3>4
    <3>6. i \in 0 .. n
      BY <1>1
    <3> QED  BY <3>2, <3>3, <3>5, <3>6
  <2> HIDE DEF T
  <2>3. 0 \in Int /\ n \in Int
    BY <1>1
  <2> QED  BY <2>1, <2>2, <2>3, Induction
<1>12. h[m + n] = f[m] \o g[n]
  <2>1. n \in T
    <3>1. n \in 0 .. n
      BY <1>1
    <3> HIDE DEF T
    <3> QED  BY <1>11, <3>1
  <2> QED  BY <2>1
<1> QED  BY <1>6, <1>7, <1>8, <1>12 DEF u

\* Every element replaced by a sequence.
Maps(F, X, Y) == F \in [X -> Seq(Y)]
Images(F, s) == [i \in DOMAIN s |-> F[s[i]]]
Mapped(F, s) == FlattenSeq(Images(F, s))

LEMMA MappedSeq ==
    ASSUME NEW X, NEW Y, NEW F, Maps(F, X, Y), NEW s \in Seq(X)
    PROVE  /\ Images(F, s) \in Seq(Seq(Y)) /\ Len(Images(F, s)) = Len(s)
           /\ \A i \in 1 .. Len(s) : Images(F, s)[i] = F[s[i]]
           /\ Mapped(F, s) \in Seq(Y)
<1> DEFINE e == [i \in DOMAIN s |-> F[s[i]]]
<1>1. Len(s) \in Nat /\ DOMAIN s = 1 .. Len(s) /\ \A i \in 1 .. Len(s) : s[i] \in X
  BY SeqType
<1>2. e \in [1 .. Len(s) -> Seq(Y)] /\ \A i \in 1 .. Len(s) : e[i] = F[s[i]]
  BY <1>1 DEF Maps
<1> HIDE DEF e
<1>3. e \in Seq(Seq(Y)) /\ Len(e) = Len(s)
  BY <1>1, <1>2, IsSeq
<1>4. FlattenSeq(e) \in Seq(Y)
  <2>1. PICK f : Flattens(f, e, Y)
    BY <1>3, FlattenWalk
  <2> QED  BY <1>1, <1>3, <2>1 DEF Flattens
<1> QED  BY <1>2, <1>3, <1>4 DEF e, Images, Mapped

LEMMA MappedConcat ==
    ASSUME NEW X, NEW Y, NEW F, Maps(F, X, Y), NEW s \in Seq(X), NEW t \in Seq(X)
    PROVE  Mapped(F, s \o t) = Mapped(F, s) \o Mapped(F, t)
<1> DEFINE u == s \o t
           d == Images(F, s)
           e == Images(F, t)
           w == Images(F, u)
<1>1. /\ u \in Seq(X) /\ Len(u) = Len(s) + Len(t)
      /\ \A i \in 1 .. Len(s) : u[i] = s[i]
      /\ \A i \in 1 .. Len(t) : u[Len(s) + i] = t[i]
  BY Concat
<1>2. Len(s) \in Nat /\ Len(t) \in Nat
  BY SeqType
<1> HIDE DEF u
<1>3. /\ d \in Seq(Seq(Y)) /\ Len(d) = Len(s) /\ \A i \in 1 .. Len(s) : d[i] = F[s[i]]
  BY MappedSeq
<1>4. /\ e \in Seq(Seq(Y)) /\ Len(e) = Len(t) /\ \A i \in 1 .. Len(t) : e[i] = F[t[i]]
  BY MappedSeq
<1>5. /\ w \in Seq(Seq(Y)) /\ Len(w) = Len(s) + Len(t)
      /\ \A i \in 1 .. Len(s) + Len(t) : w[i] = F[u[i]]
  <2>1. /\ w \in Seq(Seq(Y)) /\ Len(w) = Len(u)
        /\ \A i \in 1 .. Len(u) : w[i] = F[u[i]]
    <3>1. u \in Seq(X)
      BY <1>1
    <3> QED  BY <3>1, MappedSeq
  <2> QED  BY <1>1, <2>1
<1> HIDE DEF d, e, w
<1>6. /\ d \o e \in Seq(Seq(Y)) /\ Len(d \o e) = Len(s) + Len(t)
      /\ \A i \in 1 .. Len(s) : (d \o e)[i] = d[i]
      /\ \A i \in 1 .. Len(t) : (d \o e)[Len(s) + i] = e[i]
  <2>1. ASSUME NEW Z, NEW x \in Seq(Z), NEW y \in Seq(Z)
        PROVE  /\ x \o y \in Seq(Z) /\ Len(x \o y) = Len(x) + Len(y)
               /\ \A i \in 1 .. Len(x) : (x \o y)[i] = x[i]
               /\ \A i \in 1 .. Len(y) : (x \o y)[Len(x) + i] = y[i]
    BY Concat
  <2>2. /\ d \o e \in Seq(Seq(Y)) /\ Len(d \o e) = Len(d) + Len(e)
        /\ \A i \in 1 .. Len(d) : (d \o e)[i] = d[i]
        /\ \A i \in 1 .. Len(e) : (d \o e)[Len(d) + i] = e[i]
    <3>1. ASSUME NEW x \in Seq(Seq(Y)), NEW y \in Seq(Seq(Y))
          PROVE  /\ x \o y \in Seq(Seq(Y)) /\ Len(x \o y) = Len(x) + Len(y)
                 /\ \A i \in 1 .. Len(x) : (x \o y)[i] = x[i]
                 /\ \A i \in 1 .. Len(y) : (x \o y)[Len(x) + i] = y[i]
      <4> DEFINE Z == Seq(Y)
      <4>1. x \in Seq(Z) /\ y \in Seq(Z)
        OBVIOUS
      <4> HIDE DEF Z
      <4>2. /\ x \o y \in Seq(Z) /\ Len(x \o y) = Len(x) + Len(y)
            /\ \A i \in 1 .. Len(x) : (x \o y)[i] = x[i]
            /\ \A i \in 1 .. Len(y) : (x \o y)[Len(x) + i] = y[i]
        BY <2>1, <4>1
      <4> QED  BY <4>2 DEF Z
    <3> QED  BY <1>3, <1>4, <3>1
  <2> QED  BY <1>3, <1>4, <2>2
<1>7. ASSUME NEW i \in 1 .. Len(s) + Len(t) PROVE (d \o e)[i] = w[i]
  <2>1. CASE i \in 1 .. Len(s)
    <3>1. (d \o e)[i] = d[i] /\ d[i] = F[s[i]] /\ u[i] = s[i] /\ w[i] = F[u[i]]
      BY <1>1, <1>3, <1>5, <1>6, <2>1
    <3> QED  BY <3>1
  <2>2. CASE i \notin 1 .. Len(s)
    <3> DEFINE k == i - Len(s)
    <3>1. k \in 1 .. Len(t) /\ i = Len(s) + k
      BY <1>2, <2>2
    <3> HIDE DEF k
    <3>2. /\ (d \o e)[Len(s) + k] = e[k] /\ e[k] = F[t[k]]
          /\ u[Len(s) + k] = t[k] /\ w[i] = F[u[i]]
      BY <1>1, <1>4, <1>5, <1>6, <3>1
    <3> QED  BY <3>1, <3>2
  <2> QED  BY <2>1, <2>2
<1>8. d \o e = w
  <2>1. Len(d \o e) = Len(w)
    BY <1>5, <1>6
  <2>3. \A i \in 1 .. Len(d \o e) : (d \o e)[i] = w[i]
    BY <1>6, <1>7
  <2> DEFINE Z == Seq(Y)
             x == d \o e
  <2>4. x \in Seq(Z) /\ w \in Seq(Z) /\ Len(x) = Len(w) /\ \A i \in 1 .. Len(x) : x[i] = w[i]
    BY <1>5, <1>6, <2>1, <2>3
  <2> HIDE DEF x, Z
  <2>5. x = w
    BY <2>4, Equal
  <2> QED  BY <2>5 DEF x
<1>9. FlattenSeq(d \o e) = FlattenSeq(d) \o FlattenSeq(e)
  BY <1>3, <1>4, FlattenConcat
<1> QED  BY <1>8, <1>9 DEF Mapped, d, e, w, u

LEMMA MappedSmall ==
    ASSUME NEW X, NEW Y, NEW F, Maps(F, X, Y), NEW x \in X
    PROVE  Mapped(F, <<>>) = <<>> /\ Mapped(F, <<x>>) = F[x]
<1>1. Mapped(F, <<>>) = <<>>
  <2>1. [i \in DOMAIN <<>> |-> F[<<>>[i]]] = <<>>
    OBVIOUS
  <2> QED  BY <2>1 DEF Mapped, Images, FlattenSeq
<1>2. Mapped(F, <<x>>) = F[x]
  <2> DEFINE s == <<x>>
             e == Images(F, s)
  <2>1. s \in Seq(X) /\ Len(s) = 1 /\ s[1] = x /\ DOMAIN s = 1 .. 1
    OBVIOUS
  <2> HIDE DEF s
  <2>2. e \in Seq(Seq(Y)) /\ Len(e) = 1 /\ e[1] = F[x]
    BY <2>1, MappedSeq
  <2> HIDE DEF e
  <2>3. PICK f : Flattens(f, e, Y)
    BY <2>2, FlattenWalk
  <2>4. FlattenSeq(e) = <<>> \o F[x]
    <3>1. /\ f[0] = <<>> /\ \A i \in 1 .. 1 : f[i] = f[i - 1] \o e[i]
          /\ FlattenSeq(e) = f[1]
      BY <2>2, <2>3 DEF Flattens
    <3>2. f[1] = f[1 - 1] \o e[1]
      <4>1. 1 \in 1 .. 1
        OBVIOUS
      <4> QED  BY <3>1, <4>1, Zenon
    <3>3. 1 - 1 = 0
      OBVIOUS
    <3> QED  BY <2>2, <3>1, <3>2, <3>3
  <2>5. <<>> \o F[x] = F[x]
    BY DEF Maps
  <2> QED  BY <2>4, <2>5 DEF Mapped, e, s
<1> QED  BY <1>1, <1>2

-----------------------------------------------------------------------------
(* The ends of a sequence *)

LEMMA HeadTail ==
    ASSUME NEW X, NEW s \in Seq(X), s # <<>>
    PROVE  /\ Head(s) \in X /\ Tail(s) \in Seq(X) /\ s = <<Head(s)>> \o Tail(s)
           /\ Len(Tail(s)) = Len(s) - 1
BY HeadTailProperties

LEMMA FrontLast ==
    ASSUME NEW X, NEW s \in Seq(X), s # <<>>
    PROVE  \E f \in Seq(X), z \in X : s = f \o <<z>>
<1> DEFINE n == Len(s)
           f == SubSeq(s, 1, n - 1)
           z == s[n]
           u == f \o <<z>>
<1>1. n \in Nat /\ n # 0 /\ DOMAIN s = 1 .. n /\ \A i \in 1 .. n : s[i] \in X
  BY SeqType
<1>2. 1 \in Int /\ n - 1 \in Int /\ 1 <= 1 /\ n - 1 <= Len(s)
  BY <1>1
<1>3. /\ f \in Seq(X) /\ Len(f) = (IF 1 <= n - 1 THEN (n - 1) - 1 + 1 ELSE 0)
      /\ \A i \in 1 .. (n - 1) - 1 + 1 : f[i] = s[1 + i - 1]
  <2> HIDE DEF n
  <2> QED  BY <1>2, Piece DEF n
<1>4. z \in X
  BY <1>1
<1> HIDE DEF f, z, n
<1>5. Len(f) = n - 1 /\ \A i \in 1 .. n - 1 : f[i] = s[i]
  BY <1>1, <1>3
<1>6. u \in Seq(X) /\ Len(u) = n /\ u[n] = z /\ \A i \in 1 .. n - 1 : u[i] = f[i]
  BY <1>1, <1>3, <1>4, <1>5
<1> HIDE DEF u
<1>7. \A i \in 1 .. Len(u) : u[i] = s[i]
  BY <1>1, <1>5, <1>6 DEF z
<1>8. Len(u) = Len(s)
  BY <1>6 DEF n
<1>9. u = s
  BY <1>6, <1>7, <1>8, Equal
<1> QED  BY <1>3, <1>4, <1>9 DEF u

LEMMA FrontAndLast ==
    ASSUME NEW X, NEW s \in Seq(X), s # <<>>
    PROVE  /\ Front(s) \in Seq(X) /\ Len(Front(s)) = Len(s) - 1
           /\ \A i \in 1 .. Len(s) - 1 : Front(s)[i] = s[i]
           /\ Last(s) = s[Len(s)] /\ Last(s) \in X
<1> DEFINE n == Len(s) - 1
           f == SubSeq(s, 1, n)
<1>1. Len(s) \in Nat /\ Len(s) # 0 /\ \A i \in 1 .. Len(s) : s[i] \in X
  BY SeqType
<1>2. 1 \in Int /\ n \in Int /\ 1 <= 1 /\ n <= Len(s) /\ n \in Nat
  BY <1>1
<1> HIDE DEF n
<1>3. /\ f \in Seq(X) /\ Len(f) = (IF 1 <= n THEN n - 1 + 1 ELSE 0)
      /\ \A i \in 1 .. n - 1 + 1 : f[i] = s[1 + i - 1]
  BY <1>2, Piece
<1> HIDE DEF f
<1>4. Len(f) = n /\ \A i \in 1 .. n : f[i] = s[i]
  BY <1>2, <1>3
<1>5. Front(s) = f
  BY DEF Front, f, n
<1>6. Last(s) = s[Len(s)] /\ Last(s) \in X
  BY <1>1 DEF Last
<1> QED  BY <1>3, <1>4, <1>5, <1>6 DEF n

=============================================================================
