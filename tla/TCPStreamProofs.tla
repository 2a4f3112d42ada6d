-------------------------- MODULE TCPStreamProofs --------------------------
(***************************************************************************)
(* Theorems about the byte stream of TCPWire, wherever recv cuts it: the   *)
(* stream is what is left of the lines that were sent, every message that  *)
(* is delivered is one whose line has been received, and decode does not   *)
(* throw.                                                                  *)
(***************************************************************************)
EXTENDS TCPWireProofs

-----------------------------------------------------------------------------
(* The stream, cut anywhere *)

\* No text of the message repeats a word that begins or ends a line, or, where it
\* could divide one, " IS ".
Tidy(m) ==
    /\ Clear(m) /\ Short(m)
    /\ Without(m.author, Headers) /\ Without(m.text, Headers)
    /\ Without(m.author, {"LB"}) /\ Without(m.text, {"LB"})

Whole(m) == Layout(m, NoConfig)

\* A line and its end.
LEMMA WholeLine ==
    ASSUME NEW m \in ServerMessages
    PROVE  /\ Whole(m) = Line(m) \o Delimiter /\ Line(m) \in Text /\ Whole(m) \in Text
           /\ Len(Line(m)) \in Nat /\ Len(Whole(m)) = Len(Line(m)) + 2
<1>1. Whole(m) = Line(m) \o Delimiter /\ Line(m) \in Text
  BY LayoutLine, ServerMessage DEF Whole
<1>2. /\ Line(m) \o Delimiter \in Text
      /\ Len(Line(m) \o Delimiter) = Len(Line(m)) + Len(Delimiter)
  BY <1>1, Concat, DelimiterText
<1>3. Len(Line(m)) \in Nat
  BY <1>1, TextType
<1> QED  BY <1>1, <1>2, <1>3, DelimiterText

\* Of the line of such a message only the first symbol is a header word, and only
\* the last two end a line.
LEMMA LineShape ==
    ASSUME NEW m \in ServerMessages, Tidy(m)
    PROVE  LET n == Len(Line(m))
           IN  /\ \A i \in 2 .. n + 2 : Whole(m)[i] \notin Headers
               /\ \A i \in 1 .. n : Whole(m)[i] \notin Ends
               /\ Whole(m)[n + 1] = "CR" /\ Whole(m)[n + 2] = "LF"
<1> DEFINE n == Len(Line(m))
           w == Whole(m)
<1>1. /\ \A i \in 1 .. n : w[i] = Line(m)[i]
      /\ w[n + 1] = "CR" /\ w[n + 2] = "LF"
      /\ n \in Nat
  <2>1. /\ w = Line(m) \o Delimiter /\ Line(m) \in Text /\ n \in Nat
    BY WholeLine
  <2>2. /\ \A i \in 1 .. n : w[i] = Line(m)[i]
        /\ \A i \in 1 .. Len(Delimiter) : w[n + i] = Delimiter[i]
    <3>1. /\ \A i \in 1 .. n : (Line(m) \o Delimiter)[i] = Line(m)[i]
          /\ \A i \in 1 .. Len(Delimiter) : (Line(m) \o Delimiter)[n + i] = Delimiter[i]
      BY <2>1, Concat, DelimiterText
    <3> HIDE DEF n, w
    <3> QED  BY <2>1, <3>1
  <2>3. 1 \in 1 .. Len(Delimiter) /\ 2 \in 1 .. Len(Delimiter)
    BY DelimiterText
  <2> HIDE DEF n, w
  <2> QED  BY <2>1, <2>2, <2>3, DelimiterText
<1>2. \A i \in 2 .. n : Line(m)[i] \notin Headers
  <2>1. Headers \cap {"SP", "FROM", "IS", "OK", "NOK"} = {}
    BY DEF Headers
  <2>2. Without(m.author, Headers) /\ Without(m.text, Headers)
    BY DEF Tidy
  <2> QED  BY <2>1, <2>2, LineWithout
<1>3. \A i \in 1 .. n : Line(m)[i] \notin Ends
  <2>1. Ends \cap {"SP", "FROM", "IS", "OK", "NOK"} = {} /\ m.type \notin Ends
    BY ServerMessage DEF Ends, Headers
  <2>2. Without(m.author, Ends) /\ Without(m.text, Ends)
    BY DEF Tidy, Clear
  <2>3. Without(Line(m), Ends)
    BY <2>1, <2>2, LineWithout
  <2> QED  BY <2>3 DEF Without
<1> HIDE DEF n, w
<1>4. \A i \in 2 .. n + 2 : w[i] \notin Headers
  <2> SUFFICES ASSUME NEW i \in 2 .. n + 2 PROVE w[i] \notin Headers
    OBVIOUS
  <2>1. CASE i <= n
    BY <1>1, <1>2, <2>1
  <2>2. CASE i = n + 1 \/ i = n + 2
    BY <1>1, <2>2 DEF Headers
  <2> QED  BY <1>1, <2>1, <2>2
<1>5. \A i \in 1 .. n : w[i] \notin Ends
  BY <1>1, <1>3
<1> QED  BY <1>1, <1>4, <1>5 DEF n, w

\* Where the lines that were sent end, counted from what is next to be received:
\* what has been received lies at and before 0.
Aligned(cut, sequence, text) ==
    /\ cut \in [0 .. Len(sequence) -> Int]
    /\ cut[0] <= 0 /\ cut[Len(sequence)] = Len(text)
    /\ \A k \in 1 .. Len(sequence) : cut[k] = cut[k - 1] + Len(Whole(sequence[k]))
    /\ \A k, l \in 0 .. Len(sequence) : k < l => cut[k] < cut[l]
    /\ \A k \in 1 .. Len(sequence) : \A i \in 1 .. Len(Whole(sequence[k])) :
         cut[k - 1] + i >= 1 => text[cut[k - 1] + i] = Whole(sequence[k])[i]

\* Which message every delivered one was: its line has been received.
Traced(at, cut, sequence, received) ==
    /\ at \in [1 .. Len(received) -> 1 .. Len(sequence)]
    /\ \A i, j \in 1 .. Len(received) : i < j => at[i] < at[j]
    /\ \A i \in 1 .. Len(received) :
         received[i] = sequence[at[i]] /\ cut[at[i]] <= 0

\* Every symbol that is on its way belongs to a line.
LEMMA OfSomeLine ==
    ASSUME NEW sequence \in Seq(ServerMessages), NEW text \in Text, NEW cut,
           Aligned(cut, sequence, text), NEW p \in 1 .. Len(text)
    PROVE  \E k \in 1 .. Len(sequence) : cut[k - 1] < p /\ p <= cut[k]
<1> DEFINE N == Len(sequence)
           T == {k \in 0 .. N : p <= cut[k]}
<1>1. N \in Nat /\ Len(text) \in Nat
  BY LenProperties, TextType
<1>2. cut \in [0 .. N -> Int] /\ cut[0] <= 0 /\ cut[N] = Len(text)
  BY DEF Aligned
<1> HIDE DEF N
<1>3. N \in T /\ T \subseteq Nat
  BY <1>1, <1>2
<1>4. PICK k \in T : \A l \in T : ~ (<<l, k>> \in OpToRel(<, Nat))
  <2>1. T # {}
    BY <1>3
  <2> HIDE DEF T
  <2> QED  BY <1>3, <2>1, NatLessThanWellFounded, WFMin
<1>5. \A l \in T : ~ (l < k)
  BY <1>3, <1>4 DEF OpToRel
<1>6. k # 0
  BY <1>1, <1>2
<1>7. k \in 1 .. N /\ p <= cut[k]
  BY <1>1, <1>6
<1>8. cut[k - 1] < p
  <2>1. k - 1 \in 0 .. N /\ k - 1 < k
    BY <1>1, <1>7
  <2>2. k - 1 \notin T
    BY <1>5, <2>1
  <2>3. cut[k - 1] \in Int
    BY <1>2, <2>1
  <2> QED  BY <2>1, <2>2, <2>3
<1> QED  BY <1>7, <1>8 DEF N

\* A text with one line end and a header at its front.
LEMMA DecodedShape ==
    ASSUME NEW piece \in Text, NEW d \in Decoded(piece)
    PROVE  /\ piece[1] \in Headers
           /\ \E i \in 1 .. Len(piece) - 1 :
                /\ piece[i] = "CR" /\ piece[i + 1] = "LF"
                /\ \A j \in 1 .. Len(piece) : j # i /\ j # i + 1 => piece[j] \notin Ends
<1>0. Len(piece) \in Nat /\ DOMAIN piece = 1 .. Len(piece)
  BY TextType
<1>1. PICK line \in LineOf(piece) : \E t \in DOMAIN Header : IsPrefix(Header[t], line)
  BY DecodedFrom
<1>2. PICK i \in 1 .. Len(piece) - 1 :
        /\ line = SubSeq(piece, 1, i - 1) /\ SubSeq(piece, i, i + 1) = Delimiter
        /\ \A j \in DOMAIN piece \ {i, i + 1} : piece[j] \notin Ends
  BY DEF LineOf, Ends
<1>3. i - 1 \in Nat /\ i - 1 <= Len(piece) /\ i \in Int /\ i + 1 \in Int /\ 1 <= i
        /\ i + 1 <= Len(piece)
  BY <1>0
<1>4. /\ line \in Text /\ Len(line) = i - 1
      /\ \A j \in 1 .. i - 1 : line[j] = piece[j]
  BY <1>2, <1>3, Beginning
<1>5. piece[i] = "CR" /\ piece[i + 1] = "LF"
  <2> DEFINE s == SubSeq(piece, i, i + 1)
  <2>1. \A j \in 1 .. i + 1 - i + 1 : s[j] = piece[i + j - 1]
    BY <1>3, Piece
  <2>2. s = Delimiter
    BY <1>2
  <2> HIDE DEF s
  <2>3. /\ 1 \in 1 .. i + 1 - i + 1 /\ 2 \in 1 .. i + 1 - i + 1
        /\ i + 1 - 1 = i /\ i + 2 - 1 = i + 1
    BY <1>3
  <2>4. s[1] = piece[i] /\ s[2] = piece[i + 1]
    BY <2>1, <2>3
  <2> QED  BY <2>2, <2>4, DelimiterText
<1>6. PICK t \in Headers : IsPrefix(Header[t], line)
  BY <1>1, HeaderDomain
<1>7. piece[1] = t
  <2> DEFINE h == Header[t]
             n == Len(h)
  <2>1. h \in Text /\ n \in Nat /\ n >= 2 /\ h[1] = t
    BY HeaderText
  <2>2. n <= Len(line) /\ SubSeq(h, 1, n) = SubSeq(line, 1, n)
    BY <1>6 DEF IsPrefix
  <2>3. SubSeq(h, 1, n) = h
    BY <2>1, SubSeqFull DEF Text
  <2>4. \A j \in 1 .. n : SubSeq(line, 1, n)[j] = line[j]
    BY <1>4, <2>1, <2>2, Beginning
  <2> HIDE DEF h, n
  <2>5. 1 \in 1 .. n /\ 1 \in 1 .. i - 1
    BY <1>3, <1>4, <2>1, <2>2
  <2>6. h[1] = line[1] /\ line[1] = piece[1]
    <3>1. line[1] = piece[1]
      BY <1>4, <2>5
    <3>2. SubSeq(line, 1, n)[1] = line[1]
      BY <2>4, <2>5
    <3>3. h = SubSeq(line, 1, n)
      BY <2>2, <2>3
    <3> QED  BY <3>1, <3>2, <3>3
  <2> QED  BY <2>1, <2>6
<1>8. \A j \in 1 .. Len(piece) : j # i /\ j # i + 1 => piece[j] \notin Ends
  BY <1>0, <1>2
<1> QED  BY <1>5, <1>6, <1>7, <1>8

\* However the stream is cut, what is decoded is a line at the front of what is
\* on its way, and that line is received with it.
LEMMA PieceDecoded ==
    ASSUME NEW sequence \in Seq(ServerMessages), NEW text \in Text, NEW cut,
           \A k \in 1 .. Len(sequence) : Tidy(sequence[k]),
           Aligned(cut, sequence, text),
           NEW n \in 1 .. Len(text), NEW d \in Decoded(SubSeq(text, 1, n))
    PROVE  \E k \in 1 .. Len(sequence) :
             d = sequence[k] /\ cut[k] > 0 /\ cut[k] <= n
<1> DEFINE N == Len(sequence)
           piece == SubSeq(text, 1, n)
<1>1. N \in Nat /\ Len(text) \in Nat
  BY LenProperties, TextType
<1>2. n \in Nat /\ n <= Len(text) /\ 1 <= n
  BY <1>1
<1>3. piece \in Text /\ Len(piece) = n /\ \A i \in 1 .. n : piece[i] = text[i]
  BY <1>2, Beginning
<1>4. piece[1] \in Headers
  BY <1>3, DecodedShape
<1>5. PICK i \in 1 .. n - 1 :
        /\ piece[i] = "CR" /\ piece[i + 1] = "LF"
        /\ \A j \in 1 .. n : j # i /\ j # i + 1 => piece[j] \notin Ends
  BY <1>3, DecodedShape
<1>6. PICK k \in 1 .. N : cut[k - 1] < 1 /\ 1 <= cut[k]
  <2>1. 1 \in 1 .. Len(text)
    BY <1>1, <1>2
  <2> QED  BY <2>1, OfSomeLine
<1> DEFINE m == sequence[k]
           w == Whole(m)
           L == Len(Line(m))
<1>7. m \in ServerMessages /\ Tidy(m)
  BY ElementOfSeq
<1>8. w \in Text /\ L \in Nat /\ Len(w) = L + 2 /\ w = Line(m) \o Delimiter /\ Line(m) \in Text
  BY <1>7, WholeLine
<1>9. /\ \A j \in 2 .. L + 2 : w[j] \notin Headers
      /\ \A j \in 1 .. L : w[j] \notin Ends
      /\ w[L + 1] = "CR" /\ w[L + 2] = "LF"
  BY <1>7, LineShape
<1>10. /\ cut[k - 1] \in Int /\ cut[k] \in Int /\ cut[k] = cut[k - 1] + Len(w)
       /\ \A j \in 1 .. Len(w) : cut[k - 1] + j >= 1 => text[cut[k - 1] + j] = w[j]
  <2>1. k - 1 \in 0 .. N /\ k \in 0 .. N
    BY <1>1
  <2>2. cut \in [0 .. N -> Int]
    BY DEF Aligned
  <2>3. cut[k] = cut[k - 1] + Len(w)
    BY DEF Aligned
  <2>4. \A j \in 1 .. Len(w) : cut[k - 1] + j >= 1 => text[cut[k - 1] + j] = w[j]
    BY DEF Aligned
  <2> QED  BY <2>1, <2>2, <2>3, <2>4
<1> HIDE DEF piece, w, L, m, N
<1>11. cut[k - 1] = 0
  <2> DEFINE j == 1 - cut[k - 1]
  <2>1. j \in 1 .. L + 2 /\ cut[k - 1] + j = 1
    BY <1>6, <1>8, <1>10
  <2> HIDE DEF j
  <2>2. w[j] = text[1]
    <3>1. cut[k - 1] + j >= 1 => text[cut[k - 1] + j] = w[j]
      BY <1>8, <1>10, <2>1
    <3> QED  BY <2>1, <3>1
  <2>3. text[1] \in Headers
    BY <1>2, <1>3, <1>4
  <2>4. ~(j >= 2)
    BY <1>8, <1>9, <2>1, <2>2, <2>3
  <2>5. j = 1
    BY <1>8, <2>1, <2>4
  <2> QED  BY <1>10, <2>1, <2>5
<1>12. \A j \in 1 .. L + 2 : text[j] = w[j]
  <2> SUFFICES ASSUME NEW j \in 1 .. L + 2 PROVE text[j] = w[j]
    OBVIOUS
  <2>1. cut[k - 1] + j = j /\ j >= 1
    BY <1>11
  <2> QED  BY <1>8, <1>10, <2>1
<1>13. \A j \in 1 .. n : j <= L + 2 => piece[j] = w[j]
  BY <1>2, <1>3, <1>8, <1>12
<1>14. L + 2 <= n
  <2> SUFFICES ASSUME n < L + 2 PROVE FALSE
    BY <1>2, <1>8
  <2>1. i \in 1 .. n /\ i + 1 \in 1 .. n /\ i + 1 <= L + 1 /\ i \in 1 .. L /\ i <= L + 2
    BY <1>2, <1>8
  <2>2. piece[i] = w[i]
    BY <1>13, <2>1
  <2>3. w[i] \notin Ends
    BY <1>9, <2>1
  <2> QED  BY <1>5, <2>2, <2>3 DEF Ends
<1>15. i = L + 1
  <2>1. L + 1 \in 1 .. n /\ L + 2 \in 1 .. n /\ L + 1 <= L + 2 /\ L + 2 <= L + 2
    BY <1>2, <1>8, <1>14
  <2>2. piece[L + 1] = "CR" /\ piece[L + 2] = "LF"
    BY <1>9, <1>13, <2>1
  <2>3. L + 1 = i \/ L + 1 = i + 1
    BY <1>5, <2>1, <2>2 DEF Ends
  <2>4. L + 2 = i \/ L + 2 = i + 1
    BY <1>5, <2>1, <2>2 DEF Ends
  <2> QED  BY <1>8, <2>3, <2>4
<1>16. IsPrefix(w, piece)
  <2>1. SubSeq(piece, 1, L + 2) = w
    <3>1. L + 2 \in Nat /\ L + 2 <= Len(piece)
      BY <1>3, <1>8, <1>14
    <3>2. /\ SubSeq(piece, 1, L + 2) \in Text /\ Len(SubSeq(piece, 1, L + 2)) = L + 2
          /\ \A j \in 1 .. L + 2 : SubSeq(piece, 1, L + 2)[j] = piece[j]
      BY <1>3, <3>1, Beginning
    <3>3. \A j \in 1 .. L + 2 : piece[j] = w[j]
      <4> TAKE j \in 1 .. L + 2
      <4>1. j \in 1 .. n /\ j <= L + 2
        BY <1>2, <1>8, <1>14
      <4> QED  BY <1>13, <4>1
    <3>4. \A j \in 1 .. L + 2 : SubSeq(piece, 1, L + 2)[j] = w[j]
      BY <3>2, <3>3
    <3> QED  BY <1>8, <3>2, <3>4, Equal
  <2>2. SubSeq(w, 1, L + 2) = w
    BY <1>8, SubSeqFull DEF Text
  <2>3. L + 2 <= Len(piece)
    BY <1>3, <1>14
  <2> QED  BY <1>8, <2>1, <2>2, <2>3 DEF IsPrefix
<1> DEFINE rest == SubSeq(piece, L + 2 + 1, Len(piece))
<1>17. rest \in Text /\ piece = w \o rest
  <2>1. /\ SubSeq(piece, Len(w) + 1, Len(piece)) \in Text
        /\ piece = w \o SubSeq(piece, Len(w) + 1, Len(piece))
    BY <1>3, <1>8, <1>16, PrefixAndRest
  <2> QED  BY <1>8, <2>1
<1>18. Without(rest, Ends)
  <2>1. L + 2 \in Nat /\ L + 2 <= Len(piece)
    BY <1>3, <1>8, <1>14
  <2>2. Len(rest) = n - (L + 2) /\ \A j \in 1 .. n - (L + 2) : rest[j] = piece[L + 2 + j]
    BY <1>3, <2>1, Ending
  <2> HIDE DEF rest
  <2> SUFFICES ASSUME NEW j \in 1 .. Len(rest) PROVE rest[j] \notin Ends
    BY DEF Without
  <2> DEFINE q == L + 2 + j
  <2>3. q \in 1 .. n /\ q # i /\ q # i + 1 /\ rest[j] = piece[q]
    BY <1>2, <1>8, <1>14, <1>15, <2>2
  <2> HIDE DEF q
  <2>4. piece[q] \notin Ends
    BY <1>5, <2>3
  <2> QED  BY <2>3, <2>4
<1> HIDE DEF rest
<1>19. Clear(m)
  BY <1>7 DEF Tidy
<1>20. Decoded((Line(m) \o Delimiter) \o rest) = IF Full(m) THEN {m} ELSE {}
  BY <1>7, <1>17, <1>18, <1>19, LineDecoded
<1>21. piece = (Line(m) \o Delimiter) \o rest
  BY <1>8, <1>17
<1>22. d \in Decoded(piece)
  BY DEF piece
<1>23. d = m
  BY <1>20, <1>21, <1>22
<1>24. cut[k] > 0 /\ cut[k] <= n
  BY <1>2, <1>6, <1>8, <1>10, <1>11, <1>14
<1> QED  BY <1>23, <1>24 DEF m, N

\* A line more.
LEMMA AlignedAppend ==
    ASSUME NEW sequence \in Seq(ServerMessages), NEW text \in Text, NEW cut,
           Aligned(cut, sequence, text), NEW m \in ServerMessages
    PROVE  \E more : /\ Aligned(more, Append(sequence, m), text \o Whole(m))
                     /\ \A k \in 0 .. Len(sequence) : more[k] = cut[k]
<1> DEFINE N == Len(sequence)
           s == Append(sequence, m)
           w == Whole(m)
           whole == text \o w
           more == [k \in 0 .. N + 1 |-> IF k <= N THEN cut[k] ELSE Len(text) + Len(w)]
<1>1. N \in Nat /\ Len(text) \in Nat
  BY LenProperties, TextType
<1>2. w \in Text /\ Len(w) \in Nat /\ Len(w) >= 2
  <2>1. w \in Text /\ Len(Line(m)) \in Nat /\ Len(w) = Len(Line(m)) + 2
    BY WholeLine
  <2> HIDE DEF w
  <2> QED  BY <2>1
<1>3. /\ Len(s) = N + 1 /\ s[N + 1] = m /\ \A k \in 1 .. N : s[k] = sequence[k]
  BY AppendProperties
<1>4. /\ Len(whole) = Len(text) + Len(w)
      /\ \A i \in 1 .. Len(text) : whole[i] = text[i]
      /\ \A i \in 1 .. Len(w) : whole[Len(text) + i] = w[i]
  BY <1>2, Concat
<1>20. cut \in [0 .. N -> Int] /\ cut[0] <= 0 /\ cut[N] = Len(text)
  BY DEF Aligned
<1>21. \A k \in 1 .. N : cut[k] = cut[k - 1] + Len(Whole(sequence[k]))
  BY DEF Aligned
<1>22. \A k, l \in 0 .. N : k < l => cut[k] < cut[l]
  BY DEF Aligned
<1>23. \A k \in 1 .. N : \A i \in 1 .. Len(Whole(sequence[k])) :
         cut[k - 1] + i >= 1 => text[cut[k - 1] + i] = Whole(sequence[k])[i]
  BY DEF Aligned
<1>6. \A k \in 1 .. N : Len(Whole(sequence[k])) \in Nat
  <2> TAKE k \in 1 .. N
  <2>1. sequence[k] \in ServerMessages
    BY ElementOfSeq
  <2> QED  BY <2>1, WholeLine, TextType
<1> HIDE DEF N, s, whole, w
<1>24. \A k \in 0 .. N : cut[k] \in Int /\ cut[k] <= Len(text)
  <2> TAKE k \in 0 .. N
  <2>1. k = N \/ k < N
    BY <1>1
  <2>2. N \in 0 .. N /\ cut[k] \in Int
    BY <1>1, <1>20
  <2> QED  BY <1>1, <1>20, <1>22, <2>1, <2>2
<1>25. \A k \in 1 .. N : k \in 0 .. N /\ k - 1 \in 0 .. N
  BY <1>1
<1>7. /\ more \in [0 .. N + 1 -> Int]
      /\ \A k \in 0 .. N : more[k] = cut[k]
      /\ more[N + 1] = Len(text) + Len(w)
  BY <1>1, <1>2, <1>20
<1> HIDE DEF more
<1>8. \A k \in 0 .. N + 1 : k \in 0 .. N \/ k = N + 1
  BY <1>1
<1>9. more[0] <= 0 /\ more[N + 1] = Len(whole)
  BY <1>1, <1>4, <1>20, <1>7
<1>10. ASSUME NEW k \in 1 .. N + 1 PROVE more[k] = more[k - 1] + Len(Whole(s[k]))
  <2>1. CASE k \in 1 .. N
    <3>1. more[k] = cut[k] /\ more[k - 1] = cut[k - 1] /\ s[k] = sequence[k]
      BY <1>25, <1>3, <1>7, <2>1
    <3> QED  BY <1>21, <2>1, <3>1
  <2>2. CASE k = N + 1
    <3>1. k - 1 = N /\ N \in 0 .. N
      BY <1>1, <2>2
    <3>2. more[k - 1] = Len(text)
      BY <1>20, <1>7, <3>1
    <3>3. Whole(s[k]) = w
      BY <1>3, <2>2 DEF w
    <3> QED  BY <1>7, <2>2, <3>2, <3>3
  <2> QED  BY <1>1, <2>1, <2>2
<1>11. ASSUME NEW k \in 0 .. N + 1, NEW l \in 0 .. N + 1, k < l PROVE more[k] < more[l]
  <2>1. CASE l \in 0 .. N
    <3>1. k \in 0 .. N
      BY <1>1, <1>11, <2>1
    <3> QED  BY <1>22, <1>7, <1>11, <2>1, <3>1
  <2>2. CASE l = N + 1
    <3>1. k \in 0 .. N /\ N \in 0 .. N /\ (k = N \/ k < N)
      BY <1>1, <1>11, <2>2
    <3>2. cut[k] <= Len(text) /\ cut[k] \in Int
      BY <1>24, <3>1
    <3>3. more[k] <= Len(text) /\ more[k] \in Int
      BY <1>7, <3>1, <3>2
    <3>4. Len(text) < Len(text) + Len(w)
      BY <1>1, <1>2
    <3> QED  BY <1>1, <1>2, <1>7, <2>2, <3>3, <3>4
  <2> QED  BY <1>8, <2>1, <2>2
<1>12. ASSUME NEW k \in 1 .. N + 1, NEW i \in 1 .. Len(Whole(s[k])), more[k - 1] + i >= 1
       PROVE  whole[more[k - 1] + i] = Whole(s[k])[i]
  <2>1. CASE k \in 1 .. N
    <3>1. /\ more[k - 1] = cut[k - 1] /\ s[k] = sequence[k] /\ k - 1 \in 0 .. N /\ k \in 0 .. N
      BY <1>25, <1>3, <1>7, <2>1
    <3>2. text[cut[k - 1] + i] = Whole(sequence[k])[i]
      BY <1>23, <1>12, <2>1, <3>1
    <3>3. cut[k - 1] + i <= Len(text)
      <4>1. cut[k] = cut[k - 1] + Len(Whole(sequence[k])) /\ cut[k] \in Int /\ cut[k - 1] \in Int
        BY <1>21, <1>24, <2>1, <3>1
      <4>2. cut[k] <= Len(text)
        BY <1>24, <3>1
      <4>3. i \in Int /\ i <= Len(Whole(sequence[k])) /\ Len(Whole(sequence[k])) \in Nat
        BY <1>6, <2>1, <3>1
      <4> QED  BY <1>1, <4>1, <4>2, <4>3
    <3>4. cut[k - 1] + i \in 1 .. Len(text)
      <4>1. cut[k - 1] + i >= 1
        BY <1>12, <3>1
      <4>2. cut[k - 1] \in Int /\ i \in Int
        BY <1>24, <3>1
      <4> QED  BY <1>1, <3>3, <4>1, <4>2
    <3> QED  BY <1>4, <3>1, <3>2, <3>4
  <2>2. CASE k = N + 1
    <3>1. k - 1 = N /\ N \in 0 .. N
      BY <1>1, <2>2
    <3>2. more[k - 1] = Len(text)
      BY <1>20, <1>7, <3>1
    <3>3. Whole(s[k]) = w
      BY <1>3, <2>2 DEF w
    <3> QED  BY <1>4, <3>2, <3>3
  <2> QED  BY <1>1, <2>1, <2>2
<1>13. Aligned(more, s, whole)
  BY <1>3, <1>7, <1>9, <1>10, <1>11, <1>12 DEF Aligned
<1> QED  BY <1>7, <1>13 DEF s, whole, w, N

\* A piece less.
LEMMA AlignedReceive ==
    ASSUME NEW sequence \in Seq(ServerMessages), NEW text \in Text, NEW cut,
           Aligned(cut, sequence, text), NEW n \in 1 .. Len(text)
    PROVE  \E less : /\ Aligned(less, sequence, SubSeq(text, n + 1, Len(text)))
                     /\ \A k \in 0 .. Len(sequence) : less[k] = cut[k] - n
<1> DEFINE N == Len(sequence)
           after == SubSeq(text, n + 1, Len(text))
           less == [k \in 0 .. N |-> cut[k] - n]
<1>1. N \in Nat /\ Len(text) \in Nat
  BY LenProperties, TextType
<1>2. n \in Nat /\ n <= Len(text) /\ 1 <= n
  BY <1>1
<1>3. Len(after) = Len(text) - n /\ \A i \in 1 .. Len(text) - n : after[i] = text[n + i]
  BY <1>2, Ending
<1>20. cut \in [0 .. N -> Int] /\ cut[0] <= 0 /\ cut[N] = Len(text)
  BY DEF Aligned
<1>21. \A k \in 1 .. N : cut[k] = cut[k - 1] + Len(Whole(sequence[k]))
  BY DEF Aligned
<1>22. \A k, l \in 0 .. N : k < l => cut[k] < cut[l]
  BY DEF Aligned
<1>23. \A k \in 1 .. N : \A i \in 1 .. Len(Whole(sequence[k])) :
         cut[k - 1] + i >= 1 => text[cut[k - 1] + i] = Whole(sequence[k])[i]
  BY DEF Aligned
<1>5. \A k \in 1 .. N : Len(Whole(sequence[k])) \in Nat
  <2> TAKE k \in 1 .. N
  <2>1. sequence[k] \in ServerMessages
    BY ElementOfSeq
  <2> QED  BY <2>1, WholeLine, TextType
<1> HIDE DEF N, after
<1>24. \A k \in 0 .. N : cut[k] \in Int /\ cut[k] <= Len(text)
  <2> TAKE k \in 0 .. N
  <2>1. k = N \/ k < N
    BY <1>1
  <2>2. N \in 0 .. N /\ cut[k] \in Int
    BY <1>1, <1>20
  <2> QED  BY <1>1, <1>20, <1>22, <2>1, <2>2
<1>6. less \in [0 .. N -> Int] /\ \A k \in 0 .. N : less[k] = cut[k] - n
  BY <1>1, <1>2, <1>20
<1> HIDE DEF less
<1>7. less[0] <= 0 /\ less[N] = Len(after)
  <2>1. 0 \in 0 .. N /\ N \in 0 .. N
    BY <1>1
  <2>2. cut[0] \in Int /\ cut[0] <= 0 /\ cut[N] = Len(text)
    BY <1>20, <2>1
  <2>3. less[0] = cut[0] - n /\ less[N] = cut[N] - n
    BY <1>6, <2>1
  <2>4. less[0] <= 0
    BY <1>2, <2>2, <2>3
  <2>5. Len(after) = Len(text) - n
    BY <1>3
  <2> QED  BY <2>2, <2>3, <2>4, <2>5
<1>8. ASSUME NEW k \in 1 .. N PROVE less[k] = less[k - 1] + Len(Whole(sequence[k]))
  <2>1. k \in 0 .. N /\ k - 1 \in 0 .. N
    BY <1>1
  <2>2. cut[k] \in Int /\ cut[k - 1] \in Int
    BY <1>24, <2>1
  <2>3. less[k] = cut[k] - n /\ less[k - 1] = cut[k - 1] - n
    BY <1>6, <2>1
  <2>4. cut[k] = cut[k - 1] + Len(Whole(sequence[k])) /\ Len(Whole(sequence[k])) \in Nat
    BY <1>5, <1>21
  <2> QED  BY <1>2, <2>2, <2>3, <2>4
<1>9. ASSUME NEW k \in 0 .. N, NEW l \in 0 .. N, k < l PROVE less[k] < less[l]
  <2>1. cut[k] \in Int /\ cut[l] \in Int /\ cut[k] < cut[l]
    BY <1>22, <1>24, <1>9
  <2> QED  BY <1>2, <1>6, <2>1
<1>10. ASSUME NEW k \in 1 .. N, NEW i \in 1 .. Len(Whole(sequence[k])), less[k - 1] + i >= 1
       PROVE  after[less[k - 1] + i] = Whole(sequence[k])[i]
  <2>1. k \in 0 .. N /\ k - 1 \in 0 .. N
    BY <1>1
  <2>2. cut[k] \in Int /\ cut[k - 1] \in Int /\ less[k - 1] = cut[k - 1] - n
    BY <1>24, <1>6, <2>1
  <2>3. i \in Int /\ i <= Len(Whole(sequence[k])) /\ Len(Whole(sequence[k])) \in Nat
    BY <1>5
  <2>4. cut[k] = cut[k - 1] + Len(Whole(sequence[k])) /\ cut[k] <= Len(text)
    BY <1>21, <1>24, <2>1
  <2> DEFINE x == less[k - 1] + i
  <2>5. x \in 1 .. Len(text) - n /\ n + x = cut[k - 1] + i /\ cut[k - 1] + i >= 1
    <3>1. less[k - 1] + i >= 1 /\ n \in Nat /\ less[k - 1] \in Int
      BY <1>2, <1>10, <2>2
    <3>2. x \in Int
      BY <2>3, <3>1
    <3>3. n + x = cut[k - 1] + i
      BY <2>2, <2>3, <3>1
    <3>4. cut[k - 1] + i >= 1
      BY <2>2, <2>3, <3>1
    <3>5. x <= Len(text) - n
      BY <1>1, <1>2, <2>2, <2>3, <2>4
    <3> QED  BY <1>1, <1>2, <3>1, <3>2, <3>3, <3>4, <3>5
  <2>6. text[cut[k - 1] + i] = Whole(sequence[k])[i]
    BY <1>23, <2>5
  <2> HIDE DEF x
  <2>7. after[x] = text[cut[k - 1] + i]
    BY <1>3, <2>5
  <2> QED  BY <2>6, <2>7 DEF x
<1>11. Aligned(less, sequence, after)
  BY <1>6, <1>7, <1>8, <1>9, <1>10 DEF Aligned, N
<1> QED  BY <1>6, <1>11 DEF after, N

\* Nothing is delivered: the lines of what was delivered are still received.
LEMMA TracedSame ==
    ASSUME NEW sequence, NEW longer, NEW received, NEW at, NEW cut, NEW moved,
           Traced(at, cut, sequence, received), Len(sequence) \in Nat,
           Len(longer) \in Nat, Len(sequence) <= Len(longer), Len(received) \in Nat,
           \A k \in 1 .. Len(sequence) : longer[k] = sequence[k],
           \A k \in 1 .. Len(sequence) : cut[k] <= 0 => moved[k] <= 0
    PROVE  Traced(at, moved, longer, received)
<1>1. /\ at \in [1 .. Len(received) -> 1 .. Len(sequence)]
      /\ \A i, j \in 1 .. Len(received) : i < j => at[i] < at[j]
      /\ \A i \in 1 .. Len(received) :
           received[i] = sequence[at[i]] /\ cut[at[i]] <= 0
  BY DEF Traced
<1>2. \A k \in 1 .. Len(sequence) : k \in 1 .. Len(longer)
  OBVIOUS
<1>3. at \in [1 .. Len(received) -> 1 .. Len(longer)]
  BY <1>1, <1>2
<1>4. \A i \in 1 .. Len(received) : received[i] = longer[at[i]] /\ moved[at[i]] <= 0
  BY <1>1
<1> QED  BY <1>1, <1>3, <1>4 DEF Traced

\* A line is received, and its message delivered.
LEMMA TracedMore ==
    ASSUME NEW sequence \in Seq(ServerMessages), NEW text \in Text, NEW cut,
           Aligned(cut, sequence, text), NEW n \in 1 .. Len(text), NEW less,
           \A l \in 0 .. Len(sequence) : less[l] = cut[l] - n,
           NEW received \in Seq(ShortMessages), NEW at, Traced(at, cut, sequence, received),
           NEW k \in 1 .. Len(sequence), cut[k] > 0, cut[k] <= n
    PROVE  \E more : Traced(more, less, sequence, Append(received, sequence[k]))
<1> DEFINE N == Len(sequence)
           R == Len(received)
           d == sequence[k]
           longer == Append(received, d)
           more == [i \in 1 .. R + 1 |-> IF i <= R THEN at[i] ELSE k]
<1>1. N \in Nat /\ R \in Nat /\ Len(text) \in Nat
  BY LenProperties, TextType
<1>2. Len(longer) = R + 1 /\ longer[R + 1] = d /\ \A i \in 1 .. R : longer[i] = received[i]
  <2>1. received \in Seq(ShortMessages \cup {d}) /\ d \in ShortMessages \cup {d}
    BY SeqMonotonic
  <2> QED  BY <2>1, AppendProperties
<1>3. /\ at \in [1 .. R -> 1 .. N]
      /\ \A i, j \in 1 .. R : i < j => at[i] < at[j]
      /\ \A i \in 1 .. R : received[i] = sequence[at[i]] /\ cut[at[i]] <= 0
  BY DEF Traced
<1>4. cut \in [0 .. N -> Int] /\ \A a, b \in 0 .. N : a < b => cut[a] < cut[b]
  BY DEF Aligned
<1> HIDE DEF N, R, longer, d
<1>5. k \in 1 .. N /\ \A l \in 0 .. N : less[l] = cut[l] - n
  BY DEF N
<1>6. /\ more \in [1 .. R + 1 -> 1 .. N]
      /\ \A i \in 1 .. R : more[i] = at[i]
      /\ more[R + 1] = k
  BY <1>1, <1>3, <1>5
<1> HIDE DEF more
<1>7. ASSUME NEW i \in 1 .. R PROVE at[i] < k
  <2>1. at[i] \in 0 .. N /\ k \in 0 .. N /\ cut[at[i]] <= 0 /\ at[i] \in Int /\ k \in Int
    BY <1>1, <1>3, <1>5
  <2>2. at[i] # k
    <3>1. cut[k] \in Int
      BY <1>4, <2>1
    <3> QED  BY <2>1, <3>1
  <2>3. ~(k < at[i])
    <3>1. k < at[i] => cut[k] < cut[at[i]]
      BY <1>4, <2>1
    <3>2. cut[k] \in Int /\ cut[at[i]] \in Int
      BY <1>4, <2>1
    <3> QED  BY <2>1, <3>1, <3>2
  <2> QED  BY <2>1, <2>2, <2>3
<1>8. \A i \in 1 .. R + 1 : i \in 1 .. R \/ i = R + 1
  BY <1>1
<1>9. ASSUME NEW i \in 1 .. R + 1, NEW j \in 1 .. R + 1, i < j PROVE more[i] < more[j]
  <2>1. i \in 1 .. R
    BY <1>1, <1>9
  <2>2. CASE j \in 1 .. R
    BY <1>3, <1>6, <1>9, <2>1, <2>2
  <2>3. CASE j = R + 1
    BY <1>6, <1>7, <2>1, <2>3
  <2> QED  BY <1>8, <2>2, <2>3
<1>10. ASSUME NEW i \in 1 .. R + 1
       PROVE  longer[i] = sequence[more[i]] /\ less[more[i]] <= 0
  <2>1. CASE i \in 1 .. R
    <3>1. longer[i] = sequence[at[i]] /\ more[i] = at[i] /\ cut[at[i]] <= 0
      BY <1>2, <1>3, <1>6, <2>1
    <3>2. at[i] \in 0 .. N
      BY <1>1, <1>3, <2>1
    <3>3. less[at[i]] = cut[at[i]] - n /\ cut[at[i]] \in Int /\ n \in Int /\ n >= 1
      BY <1>1, <1>4, <1>5, <3>2
    <3>4. less[at[i]] <= 0
      BY <3>1, <3>3
    <3> QED  BY <3>1, <3>4
  <2>2. CASE i = R + 1
    <3>1. longer[i] = d /\ more[i] = k
      BY <1>2, <1>6, <2>2
    <3>2. k \in 0 .. N
      BY <1>1, <1>5
    <3>3. less[k] = cut[k] - n /\ cut[k] \in Int /\ n \in Int
      BY <1>1, <1>4, <1>5, <3>2
    <3>4. less[k] <= 0
      BY <3>3
    <3> QED  BY <3>1, <3>4 DEF d
  <2> QED  BY <1>8, <2>1, <2>2
<1>11. Traced(more, less, sequence, longer)
  BY <1>2, <1>6, <1>9, <1>10 DEF Traced, N
<1> QED  BY <1>11 DEF longer, d

-----------------------------------------------------------------------------
(* What was delivered *)

\* If all messages sent are tidy, decode never throws, the stream is what is left
\* of their lines, and every message delivered is one whose line has been received.
StreamInv ==
    (\A k \in 1 .. Len(sent) : Tidy(sent[k]))
    => /\ crashed = FALSE
       /\ \E cut : /\ Aligned(cut, sent, stream)
                   /\ \E at : Traced(at, cut, sent, delivered)

\* A line of a tidy message joins the stream.
LEMMA StreamGrows ==
    ASSUME WireType, StreamInv, NEW m \in ServerMessages,
           sent' = Append(sent, m), UNCHANGED <<delivered, crashed>>,
           Tidy(m) => stream' = stream \o Whole(m)
    PROVE  StreamInv'
<1> SUFFICES ASSUME \A k \in 1 .. Len(sent') : Tidy(sent'[k])
             PROVE  /\ crashed' = FALSE
                    /\ \E cut : /\ Aligned(cut, sent', stream')
                                /\ \E at : Traced(at, cut, sent', delivered')
  BY DEF StreamInv
<1>1. /\ sent \in Seq(ServerMessages) /\ Len(sent) \in Nat /\ stream \in Text
      /\ Len(delivered) \in Nat
  BY LenProperties DEF WireType
<1>2. /\ Len(sent') = Len(sent) + 1 /\ sent'[Len(sent) + 1] = m
      /\ \A k \in 1 .. Len(sent) : sent'[k] = sent[k]
  BY <1>1, AppendProperties
<1>3. Tidy(m) /\ \A k \in 1 .. Len(sent) : Tidy(sent[k])
  <2>1. Len(sent) + 1 \in 1 .. Len(sent') /\ \A k \in 1 .. Len(sent) : k \in 1 .. Len(sent')
    BY <1>1, <1>2
  <2> QED  BY <1>2, <2>1
<1>4. crashed = FALSE
  BY <1>3 DEF StreamInv
<1>5. PICK cut : Aligned(cut, sent, stream) /\ \E at : Traced(at, cut, sent, delivered)
  BY <1>3 DEF StreamInv
<1>6. PICK at : Traced(at, cut, sent, delivered)
  BY <1>5
<1>7. PICK more : /\ Aligned(more, Append(sent, m), stream \o Whole(m))
                  /\ \A k \in 0 .. Len(sent) : more[k] = cut[k]
  BY <1>1, <1>5, AlignedAppend
<1>8. Aligned(more, sent', stream')
  BY <1>3, <1>7
<1>9. Traced(at, more, sent', delivered)
  <2>1. \A k \in 1 .. Len(sent) : k \in 0 .. Len(sent)
    BY <1>1
  <2>2. \A k \in 1 .. Len(sent) : cut[k] <= 0 => more[k] <= 0
    BY <1>7, <2>1
  <2>3. Len(sent') \in Nat /\ Len(sent) <= Len(sent')
    BY <1>1, <1>2
  <2> QED  BY <1>1, <1>2, <1>6, <2>2, <2>3, TracedSame
<1> QED  BY <1>4, <1>8, <1>9

\* That holds in every state.
LEMMA StreamInvHolds == Spec => []StreamInv
<1>1. Init => StreamInv
  <2> SUFFICES ASSUME Init PROVE StreamInv
    OBVIOUS
  <2>1. stream = <<>> /\ sent = <<>> /\ delivered = <<>> /\ crashed = FALSE
    BY DEF Init
  <2> DEFINE cut == [k \in 0 .. 0 |-> 0]
             at == [i \in 1 .. 0 |-> 1]
  <2>2. Len(sent) = 0 /\ Len(stream) = 0 /\ Len(delivered) = 0
    BY <2>1
  <2>3. cut \in [0 .. 0 -> Int] /\ cut[0] = 0 /\ \A k, l \in 0 .. 0 : ~ (k < l)
    OBVIOUS
  <2> HIDE DEF cut
  <2>4. Aligned(cut, sent, stream)
    BY <2>2, <2>3 DEF Aligned
  <2>5. at \in [1 .. 0 -> 1 .. 0]
    OBVIOUS
  <2> HIDE DEF at
  <2>6. Traced(at, cut, sent, delivered)
    BY <2>2, <2>5 DEF Traced
  <2> QED  BY <2>1, <2>4, <2>6 DEF StreamInv
<1>2. WireType /\ Encoded /\ StreamInv /\ [Next]_vars => StreamInv'
  <2> SUFFICES ASSUME WireType, Encoded, StreamInv, [Next]_vars PROVE StreamInv'
    OBVIOUS
  <2>1. CASE UNCHANGED <<stream, sent, delivered, crashed>>
    BY <2>1 DEF StreamInv
  <2>2. ASSUME NEW of \in Typed, Encode(of) PROVE UNCHANGED <<stream, sent, delivered, crashed>>
    BY <2>2 DEF Encode
  <2>3. ASSUME Substitute PROVE UNCHANGED <<stream, sent, delivered, crashed>>
    BY <2>3 DEF Substitute
  <2>4. ASSUME SendOff, job.of.message.type = "MSG" /\ Len(sent) < MaxMessages
        PROVE  StreamInv'
    <3>1. /\ job.phase = "encoding" /\ Settled(job.text)
          /\ stream' = stream \o job.text /\ sent' = Append(sent, job.of.message)
          /\ UNCHANGED <<delivered, crashed>>
      BY <2>4 DEF SendOff, Settled
    <3> DEFINE m == job.of.message
    <3>2. job.of \in Typed /\ m \in ServerMessages
      <4>1. job.of \in Typed
        BY <3>1 DEF WireType, Idle, Jobs
      <4> QED  BY <2>4, <4>1, RelayedMessage
    <3>3. ASSUME Tidy(m) PROVE stream' = stream \o Whole(m)
      <4>1. Settled(m.author) /\ Settled(m.text)
        <5>1. Without(m.author, {"LB"}) /\ Without(m.text, {"LB"})
          BY <3>3 DEF Tidy
        <5>2. ASSUME NEW t \in Text, Without(t, {"LB"}) PROVE Settled(t)
          <6>1. Len(t) \in Nat
            BY TextType
          <6>2. \A i \in 1 .. Len(t) - 2 : t[i] # "LB"
            BY <5>2, <6>1 DEF Without
          <6> QED  BY <6>2 DEF Settled, Placeholders
        <5>3. m.author \in Text /\ m.text \in Text
          BY <3>2, ServerMessage
        <5> QED  BY <5>1, <5>2, <5>3
      <4>2. UsesPlain(job.of)
        BY <2>4, <4>1 DEF UsesPlain, Used, Value, values
      <4>3. job.text \in Stages(job.of)
        BY <3>1, <4>2 DEF Encoded
      <4>4. job.text = Layout(m, job.of.config)
        BY <3>1, <3>2, <4>2, <4>3, EncodedLine
      <4>5. Layout(m, job.of.config) = Whole(m)
        BY <3>2, LayoutLine DEF Whole
      <4> QED  BY <3>1, <4>4, <4>5
    <3> HIDE DEF m
    <3>4. sent' = Append(sent, m)
      BY <3>1 DEF m
    <3> QED  BY <3>1, <3>2, <3>3, <3>4, StreamGrows
  <2>5. ASSUME SendOff, ~(job.of.message.type = "MSG" /\ Len(sent) < MaxMessages)
        PROVE  UNCHANGED <<stream, sent, delivered, crashed>>
    BY <2>5 DEF SendOff
  <2>6. ASSUME NEW m \in Announced, Announce(m) PROVE StreamInv'
    <3>1. /\ stream' = stream \o Whole(m)
          /\ sent' = Append(sent, m)
          /\ UNCHANGED <<delivered, crashed>>
      BY <2>6 DEF Announce, Whole
    <3>2. m \in ServerMessages
      BY AnnouncedMessage
    <3> QED  BY <3>1, <3>2, StreamGrows
  <2>7. ASSUME NEW n \in 1 .. Len(stream), Receive(n) PROVE StreamInv'
    <3> SUFFICES ASSUME \A k \in 1 .. Len(sent) : Tidy(sent[k])
                 PROVE  /\ crashed' = FALSE
                        /\ \E cut : /\ Aligned(cut, sent, stream')
                                    /\ \E at : Traced(at, cut, sent, delivered')
      BY <2>7 DEF StreamInv, Receive
    <3> DEFINE found == Decoded(SubSeq(stream, 1, n))
    <3>1. /\ stream' = SubSeq(stream, n + 1, Len(stream))
          /\ \/ UNCHANGED <<delivered, crashed>>
             \/ \E m \in found :
                  IF TooLong(m) THEN crashed' = TRUE /\ UNCHANGED delivered
                  ELSE delivered' = Append(delivered, m) /\ UNCHANGED crashed
      BY <2>7 DEF Receive
    <3>2. /\ sent \in Seq(ServerMessages) /\ stream \in Text
          /\ delivered \in Seq(ShortMessages)
      BY DEF WireType
    <3>3. Len(sent) \in Nat /\ Len(delivered) \in Nat /\ Len(stream) \in Nat
      BY <3>2, LenProperties, TextType
    <3>4. crashed = FALSE
      BY DEF StreamInv
    <3>5. PICK cut : Aligned(cut, sent, stream) /\ \E at : Traced(at, cut, sent, delivered)
      BY DEF StreamInv
    <3>6. PICK at : Traced(at, cut, sent, delivered)
      BY <3>5
    <3>7. PICK less : /\ Aligned(less, sent, SubSeq(stream, n + 1, Len(stream)))
                      /\ \A k \in 0 .. Len(sent) : less[k] = cut[k] - n
      BY <3>2, <3>5, AlignedReceive
    <3>8. \A m \in found : \E k \in 1 .. Len(sent) : m = sent[k] /\ cut[k] > 0 /\ cut[k] <= n
      BY <3>2, <3>5, PieceDecoded
    <3> HIDE DEF found
    <3>9. CASE UNCHANGED <<delivered, crashed>>
      <4>1. \A k \in 1 .. Len(sent) : cut[k] <= 0 => less[k] <= 0
        <5> TAKE k \in 1 .. Len(sent)
        <5>1. k \in 0 .. Len(sent)
          BY <3>3
        <5>2. cut[k] \in Int
          BY <3>5, <5>1 DEF Aligned
        <5>3. less[k] = cut[k] - n /\ n \in Int /\ n >= 1
          BY <3>3, <3>7, <5>1
        <5> QED  BY <5>2, <5>3
      <4>2. Traced(at, less, sent, delivered)
        BY <3>3, <3>6, <4>1, TracedSame
      <4> QED  BY <3>1, <3>4, <3>7, <3>9, <4>2
    <3>10. ASSUME NEW m \in found,
                  IF TooLong(m) THEN crashed' = TRUE /\ UNCHANGED delivered
                  ELSE delivered' = Append(delivered, m) /\ UNCHANGED crashed
           PROVE  /\ crashed' = FALSE
                  /\ \E more : Traced(more, less, sent, delivered')
      <4>1. PICK k \in 1 .. Len(sent) : m = sent[k] /\ cut[k] > 0 /\ cut[k] <= n
        BY <3>8
      <4>2. ~TooLong(m)
        <5>1. Tidy(m) /\ m \in ServerMessages
          BY <3>2, <4>1, ElementOfSeq
        <5>2. m \in MessagesOf(Headers)
          BY <5>1 DEF ServerMessages, MessagesOf, Headers
        <5> QED  BY <5>1, <5>2, TakenOrThrown DEF Tidy
      <4>3. \E more : Traced(more, less, sent, Append(delivered, sent[k]))
        BY <3>2, <3>5, <3>6, <3>7, <4>1, TracedMore
      <4>4. delivered' = Append(delivered, sent[k]) /\ crashed' = crashed
        BY <3>10, <4>1, <4>2
      <4> QED  BY <3>4, <4>3, <4>4
    <3> QED  BY <3>1, <3>7, <3>9, <3>10
  <2>8. CASE UNCHANGED vars
    BY <2>1, <2>8 DEF vars
  <2> QED  BY <2>1, <2>2, <2>3, <2>4, <2>5, <2>6, <2>7, <2>8 DEF Next
<1> QED  BY <1>1, <1>2, WireTypeHolds, EncodedHolds, PTL DEF Spec

\* However recv cuts the stream, only what was sent is delivered, in its order and
\* at most once, if no text repeats the words that begin or divide a line.
THEOREM DeliveredWasSentHolds == Spec => []DeliveredWasSent
<1>1. WireType /\ StreamInv => DeliveredWasSent
  <2> SUFFICES ASSUME WireType, StreamInv,
                      \A i \in DOMAIN sent :
                        /\ OneReading(sent[i])
                        /\ ~HasWord(sent[i].author \o sent[i].text, Headers)
               PROVE  \E at \in [DOMAIN delivered -> DOMAIN sent] :
                        /\ \A i, j \in DOMAIN at : i < j => at[i] < at[j]
                        /\ \A i \in DOMAIN at : delivered[i] = sent[at[i]]
    BY DEF DeliveredWasSent
  <2>1. /\ sent \in Seq(ServerMessages) /\ DOMAIN sent = 1 .. Len(sent)
        /\ DOMAIN delivered = 1 .. Len(delivered)
    BY LenProperties DEF WireType
  <2>2. ASSUME NEW k \in 1 .. Len(sent) PROVE Tidy(sent[k])
    <3> DEFINE m == sent[k]
    <3>1. m \in ServerMessages
      BY <2>1, ElementOfSeq
    <3>2. OneReading(m) /\ ~HasWord(m.author \o m.text, Headers)
      BY <2>1
    <3> HIDE DEF m
    <3>3. m.author \in Text /\ m.text \in Text /\ m.author \o m.text \in Text
      BY <3>1, ServerMessage, Concat
    <3>4. Clear(m) /\ Short(m)
      BY <3>1, <3>2, ReadOnce
    <3>5. Without(m.author, Headers) /\ Without(m.text, Headers)
      BY <3>2, <3>3, WithoutWord, ConcatWithout
    <3>6. Without(m.author, {"CR", "LF", "LB"}) /\ Without(m.text, {"CR", "LF", "LB"})
      <4>1. ~HasWord(m.author \o m.text, {"CR", "LF", "LB"})
        BY <3>2 DEF OneReading
      <4> QED  BY <3>3, <4>1, WithoutWord, ConcatWithout
    <3>7. Without(m.author, {"LB"}) /\ Without(m.text, {"LB"})
      BY <3>6 DEF Without
    <3>8. Tidy(m)
      BY <3>4, <3>5, <3>7 DEF Tidy
    <3> QED  BY <3>8 DEF m
  <2>3. PICK cut : \E at : Traced(at, cut, sent, delivered)
    BY <2>2 DEF StreamInv
  <2>4. PICK at : Traced(at, cut, sent, delivered)
    BY <2>3
  <2>5. /\ at \in [1 .. Len(delivered) -> 1 .. Len(sent)]
        /\ DOMAIN at = 1 .. Len(delivered)
        /\ \A i, j \in 1 .. Len(delivered) : i < j => at[i] < at[j]
        /\ \A i \in 1 .. Len(delivered) : delivered[i] = sent[at[i]]
    BY <2>4 DEF Traced
  <2> QED  BY <2>1, <2>5
<1> QED  BY <1>1, WireTypeHolds, StreamInvHolds, PTL

\* However recv cuts the stream, no message within the limits of Message ends the
\* program, if no text repeats the words that begin, divide or end a line.
THEOREM ShortNamesSurviveHolds == Spec => []ShortNamesSurvive
<1>1. WireType /\ StreamInv => ShortNamesSurvive
  <2> SUFFICES ASSUME WireType, StreamInv, crashed,
                      \A i \in DOMAIN sent :
                        ~(\/ ~Short(sent[i])
                          \/ HasWord(sent[i].author \o sent[i].text,
                                     Headers \cup {"IS", "CR", "LF", "LB"}))
               PROVE  FALSE
    BY DEF ShortNamesSurvive
  <2>1. sent \in Seq(ServerMessages) /\ DOMAIN sent = 1 .. Len(sent)
    BY LenProperties DEF WireType
  <2>2. ASSUME NEW k \in 1 .. Len(sent) PROVE Tidy(sent[k])
    <3> DEFINE m == sent[k]
               words == Headers \cup {"IS", "CR", "LF", "LB"}
    <3>1. m \in ServerMessages
      BY <2>1, ElementOfSeq
    <3>2. Short(m) /\ ~HasWord(m.author \o m.text, words)
      BY <2>1
    <3> HIDE DEF m, words
    <3>3. m.author \in Text /\ m.text \in Text /\ m.author \o m.text \in Text
      BY <3>1, ServerMessage, Concat
    <3>4. Without(m.author, words) /\ Without(m.text, words)
      BY <3>2, <3>3, WithoutWord, ConcatWithout
    <3>5. \A t, some : Without(t, words) /\ some \subseteq words => Without(t, some)
      BY DEF Without
    <3>6. Headers \subseteq words /\ Ends \subseteq words /\ {"IS"} \subseteq words
             /\ {"LB"} \subseteq words
      BY DEF words, Ends
    <3>7. Tidy(m)
      BY <3>2, <3>4, <3>5, <3>6 DEF Tidy, Clear
    <3> QED  BY <3>7 DEF m
  <2> QED  BY <2>2 DEF StreamInv
<1> QED  BY <1>1, WireTypeHolds, StreamInvHolds, PTL

=============================================================================
