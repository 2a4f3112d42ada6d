--------------------------- MODULE TCPWireProofs ---------------------------
(***************************************************************************)
(* Theorems about TCPWire, for every set of symbols, messages,             *)
(* configurations and limits: the types, the line that TCPEncoder::encode  *)
(* returns, and what becomes of a recv that returns a whole line.  They    *)
(* rest on lemmas about texts: where the symbols of a concatenation are,   *)
(* what the splits of a text are, and what the expressions of              *)
(* TCPDecoder::decode find in it.                                          *)
(***************************************************************************)
EXTENDS TCPWire, TLAPS, SequenceTheorems, WellFoundedInduction

-----------------------------------------------------------------------------
(* Texts *)

\* Where the symbols of two texts are in their concatenation.
LEMMA Concat ==
    ASSUME NEW a \in Text, NEW b \in Text
    PROVE  /\ a \o b \in Text /\ Len(a \o b) = Len(a) + Len(b)
           /\ \A i \in 1 .. Len(a) : (a \o b)[i] = a[i]
           /\ \A i \in 1 .. Len(b) : (a \o b)[Len(a) + i] = b[i]
<1>1. Len(a) \in Nat /\ Len(b) \in Nat
  BY LenProperties DEF Text
<1>2. /\ a \o b \in Text /\ Len(a \o b) = Len(a) + Len(b)
      /\ \A i \in 1 .. Len(a) + Len(b) :
           (a \o b)[i] = IF i <= Len(a) THEN a[i] ELSE b[i - Len(a)]
  BY ConcatProperties DEF Text
<1>3. \A i \in 1 .. Len(a) : (a \o b)[i] = a[i]
  BY <1>1, <1>2
<1>4. ASSUME NEW i \in 1 .. Len(b) PROVE (a \o b)[Len(a) + i] = b[i]
  <2> DEFINE j == Len(a) + i
  <2>1. j \in 1 .. Len(a) + Len(b) /\ ~(j <= Len(a)) /\ j - Len(a) = i
    BY <1>1
  <2> HIDE DEF j
  <2>2. (a \o b)[j] = b[i]
    BY <1>2, <2>1
  <2> QED  BY <2>2 DEF j
<1> QED  BY <1>2, <1>3, <1>4

\* A text is a function from 1 to its length.
LEMMA TextType ==
    ASSUME NEW a \in Text
    PROVE  /\ Len(a) \in Nat /\ DOMAIN a = 1 .. Len(a)
           /\ \A i \in 1 .. Len(a) : a[i] \in Symbols
           /\ (a = <<>> <=> Len(a) = 0)
<1>1. Len(a) \in Nat /\ DOMAIN a = 1 .. Len(a) /\ a \in [1 .. Len(a) -> Symbols]
  BY LenProperties DEF Text
<1>2. a = <<>> <=> Len(a) = 0
  BY EmptySeq DEF Text
<1> QED  BY <1>1, <1>2

\* A piece of a text is a text.
LEMMA Piece ==
    ASSUME NEW a \in Text, NEW m \in Int, NEW n \in Int, 1 <= m, n <= Len(a)
    PROVE  /\ SubSeq(a, m, n) \in Text
           /\ Len(SubSeq(a, m, n)) = IF m <= n THEN n - m + 1 ELSE 0
           /\ \A i \in 1 .. n - m + 1 : SubSeq(a, m, n)[i] = a[m + i - 1]
<1>1. \A i \in m .. n : a[i] \in Symbols
  BY TextType
<1> QED  BY <1>1, SubSeqProperties DEF Text

\* Texts are equal that have the same length and the same symbols.
LEMMA Equal ==
    ASSUME NEW a \in Text, NEW b \in Text, Len(a) = Len(b),
           \A i \in 1 .. Len(a) : a[i] = b[i]
    PROVE  a = b
BY SeqEqual DEF Text

\* The two parts of a concatenation.
LEMMA FrontPart ==
    ASSUME NEW a \in Text, NEW b \in Text
    PROVE  SubSeq(a \o b, 1, Len(a)) = a
<1> DEFINE s == SubSeq(a \o b, 1, Len(a))
<1>1. /\ a \o b \in Text /\ Len(a \o b) = Len(a) + Len(b)
      /\ \A i \in 1 .. Len(a) : (a \o b)[i] = a[i]
  BY Concat
<1>2. Len(a) \in Nat /\ Len(b) \in Nat
  BY TextType
<1>3. /\ s \in Text /\ Len(s) = IF 1 <= Len(a) THEN Len(a) - 1 + 1 ELSE 0
      /\ \A i \in 1 .. Len(a) - 1 + 1 : s[i] = (a \o b)[1 + i - 1]
  <2>1. 1 \in Int /\ Len(a) \in Int /\ 1 <= 1 /\ Len(a) <= Len(a \o b)
    BY <1>1, <1>2
  <2> QED  BY <1>1, <2>1, Piece
<1> HIDE DEF s
<1>4. Len(s) = Len(a)
  BY <1>2, <1>3
<1>5. \A i \in 1 .. Len(s) : s[i] = a[i]
  BY <1>1, <1>2, <1>3, <1>4
<1>6. s = a
  BY <1>3, <1>4, <1>5, Equal
<1> QED  BY <1>6 DEF s

\* What follows the first part is the second.
LEMMA BackPart ==
    ASSUME NEW a \in Text, NEW b \in Text
    PROVE  SubSeq(a \o b, Len(a) + 1, Len(a \o b)) = b
<1> DEFINE s == SubSeq(a \o b, Len(a) + 1, Len(a \o b))
<1>1. /\ a \o b \in Text /\ Len(a \o b) = Len(a) + Len(b)
      /\ \A i \in 1 .. Len(b) : (a \o b)[Len(a) + i] = b[i]
  BY Concat
<1>2. Len(a) \in Nat /\ Len(b) \in Nat
  BY TextType
<1>3. /\ s \in Text
      /\ Len(s) = IF Len(a) + 1 <= Len(a \o b) THEN Len(a \o b) - (Len(a) + 1) + 1 ELSE 0
      /\ \A i \in 1 .. Len(a \o b) - (Len(a) + 1) + 1 :
           s[i] = (a \o b)[Len(a) + 1 + i - 1]
  <2>1. /\ Len(a) + 1 \in Int /\ Len(a \o b) \in Int
        /\ 1 <= Len(a) + 1 /\ Len(a \o b) <= Len(a \o b)
    BY <1>1, <1>2
  <2> QED  BY <1>1, <2>1, Piece
<1> HIDE DEF s
<1>4. Len(s) = Len(b)
  BY <1>1, <1>2, <1>3
<1>5. \A i \in 1 .. Len(s) : s[i] = b[i]
  <2> TAKE i \in 1 .. Len(s)
  <2>1. s[i] = (a \o b)[Len(a) + 1 + i - 1] /\ Len(a) + 1 + i - 1 = Len(a) + i
    BY <1>1, <1>2, <1>3, <1>4
  <2> QED  BY <1>1, <1>4, <2>1
<1>6. s = b
  BY <1>3, <1>4, <1>5, Equal
<1> QED  BY <1>6 DEF s

\* The parts of a text may be joined in any order.
LEMMA Assoc ==
    ASSUME NEW a \in Text, NEW b \in Text, NEW c \in Text
    PROVE  (a \o b) \o c = a \o (b \o c)
BY ConcatAssociative DEF Text

\* The beginning of a text, and what follows it.
LEMMA Beginning ==
    ASSUME NEW a \in Text, NEW n \in Nat, n <= Len(a)
    PROVE  /\ SubSeq(a, 1, n) \in Text /\ Len(SubSeq(a, 1, n)) = n
           /\ \A i \in 1 .. n : SubSeq(a, 1, n)[i] = a[i]
<1> DEFINE h == SubSeq(a, 1, n)
<1>1. 1 \in Int /\ n \in Int /\ 1 <= 1
  OBVIOUS
<1>2. /\ h \in Text /\ Len(h) = IF 1 <= n THEN n - 1 + 1 ELSE 0
      /\ \A i \in 1 .. n - 1 + 1 : h[i] = a[1 + i - 1]
  BY <1>1, Piece
<1> HIDE DEF h
<1>3. n - 1 + 1 = n /\ \A i \in 1 .. n : 1 + i - 1 = i
  OBVIOUS
<1>4. h \in Text /\ Len(h) = n /\ \A i \in 1 .. n : h[i] = a[i]
  BY <1>2, <1>3
<1> QED  BY <1>4 DEF h

\* What follows the beginning of a text.
LEMMA Ending ==
    ASSUME NEW a \in Text, NEW n \in Nat, n <= Len(a)
    PROVE  /\ SubSeq(a, n + 1, Len(a)) \in Text
           /\ Len(SubSeq(a, n + 1, Len(a))) = Len(a) - n
           /\ \A i \in 1 .. Len(a) - n : SubSeq(a, n + 1, Len(a))[i] = a[n + i]
<1> DEFINE t == SubSeq(a, n + 1, Len(a))
<1>1. Len(a) \in Nat
  BY TextType
<1>2. n + 1 \in Int /\ Len(a) \in Int /\ 1 <= n + 1 /\ Len(a) <= Len(a)
  BY <1>1
<1>3. /\ t \in Text
      /\ Len(t) = IF n + 1 <= Len(a) THEN Len(a) - (n + 1) + 1 ELSE 0
      /\ \A i \in 1 .. Len(a) - (n + 1) + 1 : t[i] = a[n + 1 + i - 1]
  BY <1>2, Piece
<1> HIDE DEF t
<1>4. Len(a) - (n + 1) + 1 = Len(a) - n /\ \A i \in 1 .. Len(a) - n : n + 1 + i - 1 = n + i
  BY <1>1
<1>5. Len(t) = Len(a) - n
  BY <1>1, <1>3
<1>6. t \in Text /\ Len(t) = Len(a) - n /\ \A i \in 1 .. Len(a) - n : t[i] = a[n + i]
  BY <1>3, <1>4, <1>5
<1> QED  BY <1>6 DEF t

\* A text is its beginning and what follows it.
LEMMA HeadTail ==
    ASSUME NEW a \in Text, NEW n \in Nat, n <= Len(a)
    PROVE  a = SubSeq(a, 1, n) \o SubSeq(a, n + 1, Len(a))
<1> DEFINE h == SubSeq(a, 1, n)
           t == SubSeq(a, n + 1, Len(a))
<1>1. Len(a) \in Nat
  BY TextType
<1>2. /\ h \in Text /\ Len(h) = n
      /\ \A i \in 1 .. n : h[i] = a[i]
  BY Beginning
<1>3. /\ t \in Text /\ Len(t) = Len(a) - n
      /\ \A i \in 1 .. Len(a) - n : t[i] = a[n + i]
  BY Ending
<1> HIDE DEF h, t
<1>4. /\ h \o t \in Text /\ Len(h \o t) = n + (Len(a) - n)
      /\ \A i \in 1 .. n : (h \o t)[i] = h[i]
      /\ \A i \in 1 .. Len(a) - n : (h \o t)[n + i] = t[i]
  <2>1. /\ h \o t \in Text /\ Len(h \o t) = Len(h) + Len(t)
        /\ \A i \in 1 .. Len(h) : (h \o t)[i] = h[i]
        /\ \A i \in 1 .. Len(t) : (h \o t)[Len(h) + i] = t[i]
    BY <1>2, <1>3, Concat
  <2> QED  BY <1>2, <1>3, <2>1
<1>5. ASSUME NEW i \in 1 .. Len(a) PROVE (h \o t)[i] = a[i]
  <2>1. CASE i <= n
    BY <1>2, <1>4, <2>1
  <2>2. CASE i > n
    <3> DEFINE x == i - n
    <3>1. x \in 1 .. Len(a) - n /\ i = n + x
      BY <1>1, <2>2
    <3> HIDE DEF x
    <3> QED  BY <1>3, <1>4, <3>1
  <2>3. i <= n \/ i > n
    BY <1>1
  <2> QED  BY <2>1, <2>2, <2>3
<1>6. h \o t = a
  <2>1. Len(h \o t) = Len(a)
    BY <1>1, <1>4
  <2> QED  BY <1>4, <1>5, <2>1, Equal
<1> QED  BY <1>6 DEF h, t

\* Nothing in the text is one of the words.
Without(text, words) == \A i \in 1 .. Len(text) : text[i] \notin words

\* A word is in a concatenation if it is in one of its parts.
LEMMA ConcatWithout ==
    ASSUME NEW a \in Text, NEW b \in Text, NEW words
    PROVE  Without(a \o b, words) <=> Without(a, words) /\ Without(b, words)
<1>1. /\ Len(a) \in Nat /\ Len(b) \in Nat
      /\ Len(a \o b) = Len(a) + Len(b)
      /\ \A i \in 1 .. Len(a) : (a \o b)[i] = a[i]
      /\ \A i \in 1 .. Len(b) : (a \o b)[Len(a) + i] = b[i]
  BY Concat, TextType
<1>2. ASSUME Without(a \o b, words) PROVE Without(a, words)
  BY <1>1, <1>2 DEF Without
<1>3. ASSUME Without(a \o b, words) PROVE Without(b, words)
  <2> SUFFICES ASSUME NEW i \in 1 .. Len(b) PROVE b[i] \notin words
    BY DEF Without
  <2>1. Len(a) + i \in 1 .. Len(a \o b)
    BY <1>1
  <2> QED  BY <1>1, <1>3, <2>1 DEF Without
<1>4. ASSUME Without(a, words), Without(b, words) PROVE Without(a \o b, words)
  <2> SUFFICES ASSUME NEW i \in 1 .. Len(a) + Len(b) PROVE (a \o b)[i] \notin words
    BY <1>1 DEF Without
  <2>1. CASE i <= Len(a)
    BY <1>1, <1>4, <2>1 DEF Without
  <2>2. CASE i > Len(a)
    <3> DEFINE j == i - Len(a)
    <3>1. j \in 1 .. Len(b) /\ i = Len(a) + j
      BY <1>1, <2>2
    <3> HIDE DEF j
    <3> QED  BY <1>1, <1>4, <3>1 DEF Without
  <2> QED  BY <1>1, <2>1, <2>2
<1> QED  BY <1>2, <1>3, <1>4

\* The same, said as the properties say it.
LEMMA WithoutWord ==
    ASSUME NEW a \in Text, NEW words
    PROVE  Without(a, words) <=> ~HasWord(a, words)
BY TextType DEF Without, HasWord

-----------------------------------------------------------------------------
(* The decoder *)

Ends == {"CR", "LF"}

\* The words of the formats are symbols, whatever else is one.
LEMMA FixedSymbols ==
    /\ "ERR" \in Symbols /\ "REPLY" \in Symbols /\ "AUTH" \in Symbols /\ "JOIN" \in Symbols
    /\ "MSG" \in Symbols /\ "BYE" \in Symbols /\ "FROM" \in Symbols /\ "IS" \in Symbols
    /\ "AS" \in Symbols /\ "USING" \in Symbols /\ "OK" \in Symbols /\ "NOK" \in Symbols
    /\ "SP" \in Symbols /\ "CR" \in Symbols /\ "LF" \in Symbols /\ "LB" \in Symbols
    /\ "RB" \in Symbols /\ "UNKNOWN" \in Symbols /\ "DisplayName" \in Symbols
    /\ "Reply" \in Symbols /\ "MessageContent" \in Symbols /\ "Username" \in Symbols
    /\ "Secret" \in Symbols /\ "ChannelID" \in Symbols /\ "dl" \in Symbols
BY SymbolsAssumption DEF Fixed

\* Texts of one to four symbols.
LEMMA Tuple ==
    ASSUME NEW a \in Symbols, NEW b \in Symbols, NEW c \in Symbols, NEW d \in Symbols
    PROVE  /\ <<a>> \in Text /\ Len(<<a>>) = 1 /\ <<a>>[1] = a
           /\ <<a, b>> \in Text /\ Len(<<a, b>>) = 2
           /\ <<a, b>>[1] = a /\ <<a, b>>[2] = b
           /\ <<a, b, c>> \in Text /\ Len(<<a, b, c>>) = 3
           /\ <<a, b, c>>[1] = a /\ <<a, b, c>>[2] = b /\ <<a, b, c>>[3] = c
           /\ <<a, b, c, d>> \in Text /\ Len(<<a, b, c, d>>) = 4
           /\ <<a, b, c, d>>[1] = a /\ <<a, b, c, d>>[2] = b
           /\ <<a, b, c, d>>[3] = c /\ <<a, b, c, d>>[4] = d
BY DEF Text

\* CR LF.
LEMMA DelimiterText ==
    Delimiter \in Text /\ Len(Delimiter) = 2 /\ Delimiter[1] = "CR" /\ Delimiter[2] = "LF"
BY FixedSymbols, Tuple DEF Delimiter

\* A line of its own, its end, and a rest without an end: that line is found.
LEMMA LineFound ==
    ASSUME NEW line \in Text, NEW rest \in Text, Without(line, Ends), Without(rest, Ends)
    PROVE  LineOf((line \o Delimiter) \o rest) = {line}
<1> DEFINE begin == line \o Delimiter
           p == begin \o rest
           n == Len(line)
           At(i) == SubSeq(p, i, i + 1) = Delimiter
                      /\ \A j \in DOMAIN p \ {i, i + 1} : p[j] \notin Ends
<1>1. /\ begin \in Text /\ Len(begin) = n + 2
      /\ \A i \in 1 .. n : begin[i] = line[i]
      /\ \A i \in 1 .. 2 : begin[n + i] = Delimiter[i]
  <2>1. /\ begin \in Text /\ Len(begin) = n + Len(Delimiter)
        /\ \A i \in 1 .. n : begin[i] = line[i]
        /\ \A i \in 1 .. Len(Delimiter) : begin[n + i] = Delimiter[i]
    BY Concat, DelimiterText
  <2> QED  BY <2>1, DelimiterText
<1>2. /\ p \in Text /\ Len(p) = Len(begin) + Len(rest)
      /\ \A i \in 1 .. Len(begin) : p[i] = begin[i]
      /\ \A i \in 1 .. Len(rest) : p[Len(begin) + i] = rest[i]
  BY <1>1, Concat
<1>3. n \in Nat /\ Len(rest) \in Nat /\ Len(p) \in Nat /\ DOMAIN p = 1 .. Len(p)
  BY <1>2, TextType
<1>4. SubSeq(p, 1, n) = line
  <2>1. p = line \o (Delimiter \o rest) /\ Delimiter \o rest \in Text
    BY Assoc, Concat, DelimiterText
  <2> QED  BY <2>1, FrontPart
<1> HIDE DEF begin, p, n
<1>5. p[n + 1] = "CR" /\ p[n + 2] = "LF"
  <2>1. n + 1 \in 1 .. Len(begin) /\ n + 2 \in 1 .. Len(begin) /\ 1 \in 1 .. 2 /\ 2 \in 1 .. 2
    BY <1>1, <1>3
  <2>2. begin[n + 1] = "CR" /\ begin[n + 2] = "LF"
    BY <1>1, <2>1, DelimiterText
  <2> QED  BY <1>2, <2>1, <2>2
<1>6. \A j \in 1 .. Len(p) : j # n + 1 /\ j # n + 2 => p[j] \notin Ends
  <2> SUFFICES ASSUME NEW j \in 1 .. Len(p), j # n + 1, j # n + 2 PROVE p[j] \notin Ends
    OBVIOUS
  <2>1. CASE j <= n
    BY <1>1, <1>2, <1>3, <2>1 DEF Without, n
  <2>2. CASE j > n + 2
    <3> DEFINE k == j - Len(begin)
    <3>1. k \in 1 .. Len(rest) /\ j = Len(begin) + k
      BY <1>1, <1>2, <1>3, <2>2
    <3> HIDE DEF k
    <3> QED  BY <1>2, <3>1 DEF Without
  <2> QED  BY <1>3, <2>1, <2>2
<1>7. At(n + 1) /\ n + 1 \in 1 .. Len(p) - 1
  <2> DEFINE s == SubSeq(p, n + 1, n + 1 + 1)
  <2>1. n + 1 \in 1 .. Len(p) - 1
    BY <1>1, <1>2, <1>3
  <2>2. n + 1 \in Int /\ n + 1 + 1 \in Int /\ 1 <= n + 1 /\ n + 1 + 1 <= Len(p)
    BY <1>1, <1>2, <1>3
  <2>3. /\ s \in Text
        /\ Len(s) = IF n + 1 <= n + 1 + 1 THEN n + 1 + 1 - (n + 1) + 1 ELSE 0
        /\ \A i \in 1 .. n + 1 + 1 - (n + 1) + 1 : s[i] = p[n + 1 + i - 1]
    BY <1>2, <2>2, Piece
  <2> HIDE DEF s
  <2>4. Len(s) = 2 /\ s[1] = p[n + 1] /\ s[2] = p[n + 2]
    <3>1. n + 1 + 1 - (n + 1) + 1 = 2 /\ n + 1 + 1 - 1 = n + 1 /\ n + 1 + 2 - 1 = n + 2
             /\ n + 1 <= n + 1 + 1
      BY <1>3
    <3> QED  BY <2>3, <3>1
  <2>5. s = Delimiter
    <3>1. \A i \in 1 .. Len(s) : s[i] = Delimiter[i]
      BY <1>5, <2>4, DelimiterText
    <3> QED  BY <2>3, <2>4, <3>1, DelimiterText, Equal
  <2>6. n + 1 + 1 = n + 2
    BY <1>3
  <2> QED  BY <1>3, <1>6, <2>1, <2>5, <2>6 DEF s
<1>8. ASSUME NEW i \in 1 .. Len(p) - 1, At(i) PROVE i = n + 1
  <2>1. n + 1 \in {i, i + 1} /\ n + 2 \in {i, i + 1}
    BY <1>1, <1>2, <1>3, <1>5, <1>8 DEF Ends
  <2> QED  BY <1>3, <2>1
<1> DEFINE k == n + 1
           Found == {i \in 1 .. Len(p) - 1 : At(i)}
<1>9. SubSeq(p, 1, k - 1) = line
  BY <1>3, <1>4
<1>10. LineOf(p) = {SubSeq(p, 1, i - 1) : i \in Found}
  BY DEF LineOf, Ends
<1>11. k \in Found /\ \A i \in Found : i = k
  BY <1>7, <1>8
<1> HIDE DEF Found, k
<1>12. ASSUME NEW x \in LineOf(p) PROVE x = line
  <2>1. PICK i \in Found : x = SubSeq(p, 1, i - 1)
    BY <1>10
  <2>2. i = k
    BY <1>11
  <2> QED  BY <1>9, <2>1, <2>2
<1>13. line \in LineOf(p)
  BY <1>9, <1>10, <1>11
<1>14. LineOf(p) = {line}
  BY <1>12, <1>13
<1> QED  BY <1>14 DEF p, begin

\* A header is its type and words that are no type.
LEMMA HeaderText ==
    ASSUME NEW t \in Headers
    PROVE  /\ t \in DOMAIN Header /\ Header[t] \in Text /\ Header[t][1] = t
           /\ Len(Header[t]) \in Nat /\ Len(Header[t]) >= 2
           /\ \A i \in 2 .. Len(Header[t]) : Header[t][i] \in {"SP", "FROM"}
<1>1. DOMAIN Header = Headers
  BY DEF Header, Headers
<1>2. /\ Header["ERR"] = <<"ERR", "SP", "FROM", "SP">>
      /\ Header["REPLY"] = <<"REPLY", "SP">>
      /\ Header["AUTH"] = <<"AUTH", "SP">>
      /\ Header["JOIN"] = <<"JOIN", "SP">>
      /\ Header["MSG"] = <<"MSG", "SP", "FROM", "SP">>
      /\ Header["BYE"] = <<"BYE", "SP", "FROM", "SP">>
  BY DEF Header
<1> DEFINE Good(h, u) == /\ h \in Text /\ h[1] = u /\ Len(h) \in Nat /\ Len(h) >= 2
                         /\ \A i \in 2 .. Len(h) : h[i] \in {"SP", "FROM"}
<1>3. Good(<<"ERR", "SP", "FROM", "SP">>, "ERR")
  <2> DEFINE h == <<"ERR", "SP", "FROM", "SP">>
  <2>1. h \in Text /\ Len(h) = 4 /\ h[1] = "ERR" /\ h[2] = "SP" /\ h[3] = "FROM" /\ h[4] = "SP"
    BY FixedSymbols, Tuple
  <2> HIDE DEF h
  <2> QED  BY <2>1 DEF h
<1>4. Good(<<"MSG", "SP", "FROM", "SP">>, "MSG")
  <2> DEFINE h == <<"MSG", "SP", "FROM", "SP">>
  <2>1. h \in Text /\ Len(h) = 4 /\ h[1] = "MSG" /\ h[2] = "SP" /\ h[3] = "FROM" /\ h[4] = "SP"
    BY FixedSymbols, Tuple
  <2> HIDE DEF h
  <2> QED  BY <2>1 DEF h
<1>5. Good(<<"BYE", "SP", "FROM", "SP">>, "BYE")
  <2> DEFINE h == <<"BYE", "SP", "FROM", "SP">>
  <2>1. h \in Text /\ Len(h) = 4 /\ h[1] = "BYE" /\ h[2] = "SP" /\ h[3] = "FROM" /\ h[4] = "SP"
    BY FixedSymbols, Tuple
  <2> HIDE DEF h
  <2> QED  BY <2>1 DEF h
<1>6. Good(<<"REPLY", "SP">>, "REPLY")
  <2> DEFINE h == <<"REPLY", "SP">>
  <2>1. h \in Text /\ Len(h) = 2 /\ h[1] = "REPLY" /\ h[2] = "SP"
    BY FixedSymbols, Tuple
  <2> HIDE DEF h
  <2> QED  BY <2>1 DEF h
<1>7. Good(<<"AUTH", "SP">>, "AUTH")
  <2> DEFINE h == <<"AUTH", "SP">>
  <2>1. h \in Text /\ Len(h) = 2 /\ h[1] = "AUTH" /\ h[2] = "SP"
    BY FixedSymbols, Tuple
  <2> HIDE DEF h
  <2> QED  BY <2>1 DEF h
<1>8. Good(<<"JOIN", "SP">>, "JOIN")
  <2> DEFINE h == <<"JOIN", "SP">>
  <2>1. h \in Text /\ Len(h) = 2 /\ h[1] = "JOIN" /\ h[2] = "SP"
    BY FixedSymbols, Tuple
  <2> HIDE DEF h
  <2> QED  BY <2>1 DEF h
<1> HIDE DEF Good
<1>9. Good(Header[t], t)
  BY <1>2, <1>3, <1>4, <1>5, <1>6, <1>7, <1>8 DEF Headers
<1> QED  BY <1>1, <1>9 DEF Good

\* Every type has one.
LEMMA HeaderDomain == DOMAIN Header = Headers
BY DEF Header, Headers

\* A line is of one type, and its body is what follows the header.
LEMMA TypeFound ==
    ASSUME NEW t \in Headers, NEW body \in Text
    PROVE  /\ {u \in DOMAIN Header : IsPrefix(Header[u], Header[t] \o body)} = {t}
           /\ SubSeq(Header[t] \o body, Len(Header[t]) + 1, Len(Header[t] \o body)) = body
<1> DEFINE line == Header[t] \o body
<1>1. SubSeq(line, 1, Len(Header[t])) = Header[t]
         /\ SubSeq(line, Len(Header[t]) + 1, Len(line)) = body
  BY HeaderText, FrontPart, BackPart
<1>2. /\ line \in Text /\ Len(line) = Len(Header[t]) + Len(body)
      /\ \A i \in 1 .. Len(Header[t]) : line[i] = Header[t][i]
  BY HeaderText, Concat
<1>3. Len(body) \in Nat /\ Len(Header[t]) \in Nat /\ Len(Header[t]) >= 2 /\ line[1] = t
  BY <1>2, HeaderText, TextType
<1> HIDE DEF line
<1>4. IsPrefix(Header[t], line)
  <2>1. SubSeq(Header[t], 1, Len(Header[t])) = Header[t]
    BY HeaderText, SubSeqFull DEF Text
  <2> QED  BY <1>1, <1>2, <1>3, <2>1 DEF IsPrefix
<1>5. ASSUME NEW u \in Headers, IsPrefix(Header[u], line) PROVE u = t
  <2> DEFINE h == Header[u]
             n == Len(h)
  <2>1. h \in Text /\ n \in Nat /\ n >= 2 /\ h[1] = u
    BY HeaderText
  <2>2. n <= Len(line) /\ SubSeq(h, 1, n) = SubSeq(line, 1, n)
    BY <1>5 DEF IsPrefix
  <2>3. SubSeq(h, 1, n) = h
    BY <2>1, SubSeqFull DEF Text
  <2> HIDE DEF h, n
  <2>4. \A i \in 1 .. n - 1 + 1 : SubSeq(line, 1, n)[i] = line[1 + i - 1]
    <3>1. 1 \in Int /\ n \in Int /\ 1 <= 1
      BY <2>1
    <3> QED  BY <1>2, <2>2, <3>1, Piece
  <2>5. 1 \in 1 .. n - 1 + 1 /\ 1 + 1 - 1 = 1
    BY <2>1
  <2>7. SubSeq(line, 1, n)[1] = line[1 + 1 - 1]
    BY <2>4, <2>5
  <2>6. h[1] = line[1]
    BY <2>2, <2>3, <2>5, <2>7
  <2> QED  BY <1>3, <2>1, <2>6
<1> QED  BY <1>1, <1>4, <1>5, HeaderDomain DEF line

\* The divider of a word.
LEMMA DividerText ==
    ASSUME NEW w \in Symbols
    PROVE  /\ Divider(w) \in Text /\ Len(Divider(w)) = 3
           /\ Divider(w)[1] = "SP" /\ Divider(w)[2] = w /\ Divider(w)[3] = "SP"
BY FixedSymbols, Tuple DEF Divider

\* Where a divider is matched, its three symbols stand.
LEMMA Match ==
    ASSUME NEW text \in Text, NEW i \in Nat, 1 <= i, i + 2 <= Len(text), NEW w \in Symbols
    PROVE  SubSeq(text, i, i + 2) = <<"SP", w, "SP">> <=>
             text[i] = "SP" /\ text[i + 1] = w /\ text[i + 2] = "SP"
<1> DEFINE s == SubSeq(text, i, i + 2)
           d == <<"SP", w, "SP">>
<1>1. d \in Text /\ Len(d) = 3 /\ d[1] = "SP" /\ d[2] = w /\ d[3] = "SP"
  BY FixedSymbols, Tuple
<1>2. /\ s \in Text /\ Len(s) = IF i <= i + 2 THEN i + 2 - i + 1 ELSE 0
      /\ \A j \in 1 .. i + 2 - i + 1 : s[j] = text[i + j - 1]
  <2>1. i \in Int /\ i + 2 \in Int
    OBVIOUS
  <2> QED  BY <2>1, Piece
<1> HIDE DEF s, d
<1>3. Len(s) = 3 /\ s[1] = text[i] /\ s[2] = text[i + 1] /\ s[3] = text[i + 2]
  <2>1. i <= i + 2 /\ i + 2 - i + 1 = 3 /\ i + 1 - 1 = i /\ i + 2 - 1 = i + 1
           /\ i + 3 - 1 = i + 2
    OBVIOUS
  <2> QED  BY <1>2, <2>1
<1>4. ASSUME s = d PROVE text[i] = "SP" /\ text[i + 1] = w /\ text[i + 2] = "SP"
  BY <1>1, <1>3, <1>4
<1>5. ASSUME text[i] = "SP" /\ text[i + 1] = w /\ text[i + 2] = "SP" PROVE s = d
  <2>1. Len(s) = Len(d) /\ \A j \in 1 .. Len(s) : s[j] = d[j]
    BY <1>1, <1>3, <1>5
  <2> QED  BY <1>1, <1>2, <2>1, Equal
<1> QED  BY <1>4, <1>5 DEF s, d

Joined(a, w, b) == (a \o Divider(w)) \o b

\* What is where in two parts and the divider between them.
PartsOf(text, a, w, b) ==
    /\ text \in Text /\ Len(text) = Len(a) + 3 + Len(b)
    /\ \A i \in 1 .. Len(a) : text[i] = a[i]
    /\ text[Len(a) + 1] = "SP" /\ text[Len(a) + 2] = w /\ text[Len(a) + 3] = "SP"
    /\ \A i \in 1 .. Len(b) : text[Len(a) + 3 + i] = b[i]
    /\ SubSeq(text, 1, Len(a)) = a
    /\ SubSeq(text, Len(a) + 4, Len(text)) = b

\* A text joined from two parts has them, and the divider between them.
LEMMA JoinedParts ==
    ASSUME NEW a \in Text, NEW b \in Text, NEW w \in Symbols
    PROVE  PartsOf(Joined(a, w, b), a, w, b)
<1> DEFINE n == Len(a)
           front == a \o Divider(w)
           text == Joined(a, w, b)
<1>0. text = front \o b
  BY DEF Joined
<1>1. /\ front \in Text /\ Len(front) = n + 3
      /\ \A i \in 1 .. n : front[i] = a[i]
      /\ front[n + 1] = "SP" /\ front[n + 2] = w /\ front[n + 3] = "SP"
  <2>1. /\ front \in Text /\ Len(front) = n + Len(Divider(w))
        /\ \A i \in 1 .. n : front[i] = a[i]
        /\ \A i \in 1 .. Len(Divider(w)) : front[n + i] = Divider(w)[i]
    BY Concat, DividerText
  <2> HIDE DEF front, n
  <2> QED  BY <2>1, DividerText
<1>2. /\ text \in Text /\ Len(text) = Len(front) + Len(b)
      /\ \A i \in 1 .. Len(front) : text[i] = front[i]
      /\ \A i \in 1 .. Len(b) : text[Len(front) + i] = b[i]
  <2> HIDE DEF front, text
  <2> QED  BY <1>0, <1>1, Concat
<1>3. n \in Nat /\ Len(b) \in Nat /\ (a = <<>> <=> n = 0) /\ (b = <<>> <=> Len(b) = 0)
  BY TextType
<1>4. SubSeq(text, 1, n) = a
  <2>1. text = a \o (Divider(w) \o b) /\ Divider(w) \o b \in Text
    BY <1>0, Assoc, Concat, DividerText
  <2> QED  BY <2>1, FrontPart
<1>5. SubSeq(text, Len(front) + 1, Len(text)) = b
  BY <1>0, <1>1, BackPart
<1> HIDE DEF front, text, n
<1>6. /\ \A i \in 1 .. n : text[i] = a[i]
      /\ text[n + 1] = "SP" /\ text[n + 2] = w /\ text[n + 3] = "SP"
      /\ \A i \in 1 .. Len(b) : text[n + 3 + i] = b[i]
      /\ Len(text) = n + 3 + Len(b)
  BY <1>1, <1>2, <1>3
<1>7. Len(front) + 1 = n + 4
  BY <1>1, <1>3
<1>8. SubSeq(text, n + 4, Len(text)) = b
  BY <1>5, <1>7
<1>9. /\ text \in Text /\ Len(text) = Len(a) + 3 + Len(b)
      /\ \A i \in 1 .. Len(a) : text[i] = a[i]
      /\ text[Len(a) + 1] = "SP" /\ text[Len(a) + 2] = w /\ text[Len(a) + 3] = "SP"
      /\ \A i \in 1 .. Len(b) : text[Len(a) + 3 + i] = b[i]
      /\ SubSeq(text, 1, Len(a)) = a
      /\ SubSeq(text, Len(a) + 4, Len(text)) = b
  BY <1>2, <1>4, <1>6, <1>8 DEF n
<1>10. PartsOf(text, a, w, b)
  BY <1>9 DEF PartsOf
<1> QED  BY <1>10 DEF text

\* Every split is at a divider, and one is between the parts that are divided,
\* if none of them is empty.
LEMMA SplitAt ==
    ASSUME NEW text \in Text, NEW w \in Symbols, NEW s \in Splits(text, w)
    PROVE  \E i \in 2 .. Len(text) - 3 :
             /\ s = <<SubSeq(text, 1, i - 1), SubSeq(text, i + 3, Len(text))>>
             /\ text[i + 1] = w
<1>1. PICK i \in 2 .. Len(text) - 3 :
         /\ s = <<SubSeq(text, 1, i - 1), SubSeq(text, i + 3, Len(text))>>
         /\ SubSeq(text, i, i + 2) = <<"SP", w, "SP">>
  BY DEF Splits
<1>2. i \in Nat /\ 1 <= i /\ i + 2 <= Len(text)
  BY TextType
<1>3. text[i + 1] = w
  BY <1>1, <1>2, Match
<1> QED  BY <1>1, <1>3

\* A text is split between the parts that it was joined from.
LEMMA SplitBetween ==
    ASSUME NEW a \in Text, NEW b \in Text, NEW w \in Symbols, a # <<>>, b # <<>>
    PROVE  <<a, b>> \in Splits(Joined(a, w, b), w)
<1> DEFINE n == Len(a)
           text == Joined(a, w, b)
           k == n + 1
<1>0. PartsOf(text, a, w, b)
  BY JoinedParts
<1>1. /\ text \in Text /\ Len(text) = n + 3 + Len(b)
      /\ text[n + 1] = "SP" /\ text[n + 2] = w /\ text[n + 3] = "SP"
      /\ SubSeq(text, 1, n) = a /\ SubSeq(text, n + 4, Len(text)) = b
  <2> HIDE DEF text
  <2> QED  BY <1>0 DEF PartsOf
<1>2. n \in Nat /\ Len(b) \in Nat /\ n # 0 /\ Len(b) # 0
  BY TextType
<1> HIDE DEF text, n
<1>3. k \in 2 .. Len(text) - 3 /\ k \in Nat /\ 1 <= k /\ k + 2 <= Len(text)
  BY <1>1, <1>2
<1>4. text[k] = "SP" /\ text[k + 1] = w /\ text[k + 2] = "SP"
  BY <1>1, <1>2
<1>5. SubSeq(text, 1, k - 1) = a /\ SubSeq(text, k + 3, Len(text)) = b
  <2>1. k - 1 = n /\ k + 3 = n + 4
    BY <1>2
  <2> QED  BY <1>1, <2>1
<1> HIDE DEF k
<1>6. SubSeq(text, k, k + 2) = <<"SP", w, "SP">>
  BY <1>1, <1>3, <1>4, Match
<1>7. <<SubSeq(text, 1, k - 1), SubSeq(text, k + 3, Len(text))>> \in Splits(text, w)
  BY <1>3, <1>6 DEF Splits
<1>8. <<a, b>> \in Splits(text, w)
  BY <1>5, <1>7
<1> QED  BY <1>8 DEF text

\* It is split nowhere else if the parts do not have the word of the divider.
LEMMA SplitOnce ==
    ASSUME NEW a \in Text, NEW b \in Text, NEW w \in Symbols, w # "SP",
           Without(a, {w}), Without(b, {w})
    PROVE  Splits(Joined(a, w, b), w) =
             IF a # <<>> /\ b # <<>> THEN {<<a, b>>} ELSE {}
<1> DEFINE text == Joined(a, w, b)
<1>1. /\ text \in Text /\ Len(text) = Len(a) + 3 + Len(b)
      /\ \A i \in 1 .. Len(a) : text[i] = a[i]
      /\ text[Len(a) + 1] = "SP" /\ text[Len(a) + 2] = w /\ text[Len(a) + 3] = "SP"
      /\ \A i \in 1 .. Len(b) : text[Len(a) + 3 + i] = b[i]
      /\ SubSeq(text, 1, Len(a)) = a /\ SubSeq(text, Len(a) + 4, Len(text)) = b
  <2>1. PartsOf(text, a, w, b)
    BY JoinedParts
  <2> HIDE DEF text
  <2> QED  BY <2>1 DEF PartsOf
<1>5. a # <<>> /\ b # <<>> => <<a, b>> \in Splits(text, w)
  BY SplitBetween
<1>2. Len(a) \in Nat /\ Len(b) \in Nat /\ (a = <<>> <=> Len(a) = 0) /\ (b = <<>> <=> Len(b) = 0)
  BY TextType
<1> HIDE DEF text
<1>3. ASSUME NEW j \in 1 .. Len(text), text[j] = w PROVE j = Len(a) + 2
  <2>1. CASE j <= Len(a)
    BY <1>1, <1>3, <2>1 DEF Without
  <2>2. CASE j > Len(a) + 3
    <3> DEFINE k == j - (Len(a) + 3)
    <3>1. k \in 1 .. Len(b) /\ j = Len(a) + 3 + k
      BY <1>1, <1>2, <2>2
    <3> HIDE DEF k
    <3> QED  BY <1>1, <1>3, <3>1 DEF Without
  <2>3. CASE j = Len(a) + 1 \/ j = Len(a) + 3
    BY <1>1, <1>3, <2>3
  <2> QED  BY <1>2, <2>1, <2>2, <2>3
<1>4. ASSUME NEW s \in Splits(text, w) PROVE s = <<a, b>> /\ a # <<>> /\ b # <<>>
  <2>1. PICK i \in 2 .. Len(text) - 3 :
           /\ s = <<SubSeq(text, 1, i - 1), SubSeq(text, i + 3, Len(text))>>
           /\ text[i + 1] = w
    BY <1>1, <1>4, SplitAt
  <2>2. i = Len(a) + 1
    <3>1. i + 1 \in 1 .. Len(text)
      BY <1>1, <1>2
    <3>2. i + 1 = Len(a) + 2
      BY <1>3, <2>1, <3>1
    <3> QED  BY <1>2, <3>2
  <2>3. i - 1 = Len(a) /\ i + 3 = Len(a) + 4 /\ Len(a) # 0 /\ Len(b) # 0
    BY <1>1, <1>2, <2>2
  <2> QED  BY <1>1, <1>2, <2>1, <2>3
<1> QED  BY <1>4, <1>5 DEF text

Answers == {<<"OK">>, <<"NOK">>}

\* Both answers are one symbol.
LEMMA AnswerText ==
    ASSUME NEW a \in Answers
    PROVE  a \in Text /\ Len(a) = 1 /\ a # <<>>
<1>1. "OK" \in Symbols /\ "NOK" \in Symbols
  BY FixedSymbols
<1>2. /\ <<"OK">> \in Text /\ Len(<<"OK">>) = 1
      /\ <<"NOK">> \in Text /\ Len(<<"NOK">>) = 1
  BY <1>1, Tuple
<1>3. a = <<"OK">> \/ a = <<"NOK">>
  BY DEF Answers
<1> QED  BY <1>2, <1>3

\* An answer is the one split whose first part has one symbol.
LEMMA SplitReply ==
    ASSUME NEW a \in Text, a \in Answers, NEW b \in Text, NEW w \in Symbols
    PROVE  {s \in Splits(Joined(a, w, b), w) : s[1] \in Answers} =
             IF b # <<>> THEN {<<a, b>>} ELSE {}
<1> DEFINE text == Joined(a, w, b)
           answers == {s \in Splits(text, w) : s[1] \in Answers}
<1>1. Len(a) = 1 /\ a # <<>>
  BY AnswerText
<1>2. Len(b) \in Nat /\ (b = <<>> <=> Len(b) = 0)
  BY TextType
<1>0. PartsOf(text, a, w, b)
  BY JoinedParts
<1>3. text \in Text /\ Len(text) = Len(a) + 3 + Len(b)
  BY <1>0 DEF PartsOf
<1>4. SubSeq(text, 1, Len(a)) = a /\ SubSeq(text, Len(a) + 4, Len(text)) = b
  BY <1>0 DEF PartsOf
<1>5. b # <<>> => <<a, b>> \in Splits(text, w)
  BY <1>1, SplitBetween
<1> HIDE DEF text
<1>6. ASSUME NEW s \in answers PROVE s = <<a, b>> /\ b # <<>>
  <2>1. PICK i \in 2 .. Len(text) - 3 :
           s = <<SubSeq(text, 1, i - 1), SubSeq(text, i + 3, Len(text))>>
    BY <1>3, <1>6, SplitAt
  <2>2. Len(s[1]) = 1
    BY <1>6, AnswerText
  <2>3. Len(SubSeq(text, 1, i - 1)) = IF 1 <= i - 1 THEN i - 1 - 1 + 1 ELSE 0
    <3>1. 1 \in Int /\ i - 1 \in Int /\ 1 <= 1 /\ i - 1 <= Len(text)
      BY <1>1, <1>2, <1>3
    <3> QED  BY <1>3, <3>1, Piece
  <2>4. i = 2 /\ Len(b) # 0
    BY <1>1, <1>2, <1>3, <2>1, <2>2, <2>3
  <2>5. i - 1 = Len(a) /\ i + 3 = Len(a) + 4
    BY <1>1, <2>4
  <2> QED  BY <1>2, <1>4, <2>1, <2>4, <2>5
<1>7. b # <<>> => <<a, b>> \in answers
  BY <1>5
<1> QED  BY <1>6, <1>7 DEF text

\* Of one way to match, the greedy group has no choice.
LEMMA GreedyOne ==
    ASSUME NEW a \in Text, NEW b
    PROVE  Greedy({<<a, b>>}) = {<<a, b>>} /\ Greedy({}) = {}
BY TextType DEF Greedy

\* What the server sends; a type leaves what it has no use for empty.
ServerMessages ==
    {m \in MessagesOf({"ERR", "REPLY", "MSG", "BYE"}) :
        /\ m.ok => m.type = "REPLY"
        /\ m.type = "REPLY" => m.author = <<>>
        /\ m.type = "BYE" => m.text = <<>>}

Answer(m) == IF m.ok THEN <<"OK">> ELSE <<"NOK">>

\* A line of the server without its end, and behind its header.
Body(m) ==
    CASE m.type = "REPLY" -> Joined(Answer(m), "IS", m.text)
      [] m.type = "BYE" -> m.author
      [] m.type \in {"ERR", "MSG"} -> Joined(m.author, "IS", m.text)
Line(m) == Header[m.type] \o Body(m)

\* The parts of a message of the server, and its line, are texts.
LEMMA ServerMessage ==
    ASSUME NEW m \in ServerMessages
    PROVE  /\ m.type \in {"ERR", "REPLY", "MSG", "BYE"} /\ m.type \in Headers
           /\ m.author \in Text /\ m.text \in Text /\ m.ok \in BOOLEAN
           /\ m = [type |-> m.type, author |-> m.author, text |-> m.text, ok |-> m.ok]
           /\ Answer(m) \in Answers /\ Answer(m) \in Text
           /\ Body(m) \in Text /\ Line(m) \in Text
<1>1. m \in MessagesOf({"ERR", "REPLY", "MSG", "BYE"})
  BY DEF ServerMessages
<1>2. /\ m.type \in {"ERR", "REPLY", "MSG", "BYE"}
      /\ m.author \in Text /\ m.text \in Text /\ m.ok \in BOOLEAN
      /\ m = [type |-> m.type, author |-> m.author, text |-> m.text, ok |-> m.ok]
  BY <1>1 DEF MessagesOf
<1>3. m.type \in Headers
  BY <1>2 DEF Headers
<1>4. Answer(m) \in Answers
  BY DEF Answer, Answers
<1>5. Answer(m) \in Text
  BY <1>4, AnswerText
<1>6. "IS" \in Symbols
  BY FixedSymbols
<1>7. Joined(Answer(m), "IS", m.text) \in Text /\ Joined(m.author, "IS", m.text) \in Text
  BY <1>2, <1>5, <1>6, JoinedParts DEF PartsOf
<1>8. Body(m) \in Text
  BY <1>2, <1>7 DEF Body
<1>9. Line(m) \in Text
  BY <1>3, <1>8, HeaderText, Concat DEF Line
<1> QED  BY <1>2, <1>3, <1>4, <1>5, <1>8, <1>9

\* The format of a type describes its line.
LEMMA LayoutLine ==
    ASSUME NEW m \in ServerMessages, NEW config
    PROVE  Layout(m, config) = Line(m) \o Delimiter
<1>1. /\ m.type \in {"ERR", "REPLY", "MSG", "BYE"} /\ m.type \in Headers
      /\ m.author \in Text /\ m.text \in Text /\ Answer(m) \in Text
  BY ServerMessage
<1>2. "IS" \in Symbols
  BY FixedSymbols
<1>3. ASSUME NEW h \in Text, NEW a \in Text, NEW b \in Text
      PROVE  h \o Joined(a, "IS", b) = ((h \o a) \o Divider("IS")) \o b
  <2>1. Divider("IS") \in Text
    BY <1>2, DividerText
  <2>2. a \o Divider("IS") \in Text /\ h \o a \in Text
    BY <2>1, Concat
  <2>3. h \o ((a \o Divider("IS")) \o b) = (h \o (a \o Divider("IS"))) \o b
    BY <2>2, Assoc
  <2>4. h \o (a \o Divider("IS")) = (h \o a) \o Divider("IS")
    BY <2>1, Assoc
  <2> QED  BY <2>3, <2>4 DEF Joined
<1>4. Header[m.type] \in Text
  BY <1>1, HeaderText
<1>5. CASE m.type = "REPLY"
  <2>1. Header.REPLY \in Text /\ Body(m) = Joined(Answer(m), "IS", m.text)
    BY <1>4, <1>5 DEF Body
  <2>2. Layout(m, config) =
          (((Header.REPLY \o Answer(m)) \o Divider("IS")) \o m.text) \o Delimiter
    BY <1>5 DEF Layout, Answer
  <2>3. Line(m) = Header.REPLY \o Joined(Answer(m), "IS", m.text)
    BY <1>5, <2>1 DEF Line
  <2>4. Header.REPLY \o Joined(Answer(m), "IS", m.text) =
          ((Header.REPLY \o Answer(m)) \o Divider("IS")) \o m.text
    BY <1>1, <1>3, <2>1
  <2> QED  BY <2>2, <2>3, <2>4
<1>6. CASE m.type = "BYE"
  BY <1>6 DEF Layout, Line, Body
<1>7. CASE m.type \in {"ERR", "MSG"}
  <2>1. Line(m) = Header[m.type] \o Joined(m.author, "IS", m.text)
    BY <1>7 DEF Line, Body
  <2>2. Layout(m, config) =
          (((Header[m.type] \o m.author) \o Divider("IS")) \o m.text) \o Delimiter
    BY <1>7 DEF Layout
  <2>3. Header[m.type] \o Joined(m.author, "IS", m.text) =
          ((Header[m.type] \o m.author) \o Divider("IS")) \o m.text
    BY <1>1, <1>3, <1>4
  <2> QED  BY <2>1, <2>2, <2>3
<1> QED  BY <1>1, <1>5, <1>6, <1>7

\* The texts of the message have no line end, and no second divider for the
\* types whose first group could reach it.
Clear(m) ==
    /\ Without(m.author, Ends) /\ Without(m.text, Ends)
    /\ m.type # "REPLY" => Without(m.author, {"IS"}) /\ Without(m.text, {"IS"})

Full(m) == /\ m.type = "REPLY" \/ m.author # <<>>
           /\ m.type = "BYE" \/ m.text # <<>>

\* Words that no header, no divider and no answer has.
LEMMA LineWithout ==
    ASSUME NEW m \in ServerMessages, NEW words,
           Without(m.author, words), Without(m.text, words),
           words \cap {"SP", "FROM", "IS", "OK", "NOK"} = {}
    PROVE  /\ Without(Body(m), words)
           /\ \A i \in 2 .. Len(Line(m)) : Line(m)[i] \notin words
           /\ m.type \notin words => Without(Line(m), words)
<1>1. /\ m.type \in {"ERR", "REPLY", "MSG", "BYE"} /\ m.type \in Headers
      /\ m.author \in Text /\ m.text \in Text /\ Answer(m) \in Text /\ Body(m) \in Text
  BY ServerMessage
<1>2. "IS" \in Symbols
  BY FixedSymbols
<1>3. Divider("IS") \in Text /\ Without(Divider("IS"), words)
  BY <1>2, DividerText DEF Without
<1>4. ASSUME NEW a \in Text, NEW b \in Text, Without(a, words), Without(b, words)
      PROVE  Without(Joined(a, "IS", b), words)
  <2>1. a \o Divider("IS") \in Text
    BY <1>3, Concat
  <2>2. Without(a \o Divider("IS"), words)
    BY <1>3, <1>4, ConcatWithout
  <2> QED  BY <1>4, <2>1, <2>2, ConcatWithout DEF Joined
<1>5. Without(Answer(m), words)
  <2>1. Without(<<"OK">>, words) /\ Without(<<"NOK">>, words)
    BY DEF Without
  <2> QED  BY <2>1 DEF Answer
<1>6. Without(Body(m), words)
  <2>1. CASE m.type = "REPLY"
    <3>1. Without(Joined(Answer(m), "IS", m.text), words)
      BY <1>1, <1>4, <1>5
    <3> QED  BY <2>1, <3>1 DEF Body
  <2>2. CASE m.type = "BYE"
    BY <2>2 DEF Body
  <2>3. CASE m.type \in {"ERR", "MSG"}
    <3>1. Without(Joined(m.author, "IS", m.text), words)
      BY <1>1, <1>4
    <3> QED  BY <2>3, <3>1 DEF Body
  <2> QED  BY <1>1, <2>1, <2>2, <2>3
<1> DEFINE h == Header[m.type]
<1>7. /\ h \in Text /\ Len(h) \in Nat /\ Len(h) >= 2 /\ h[1] = m.type
      /\ \A i \in 2 .. Len(h) : h[i] \in {"SP", "FROM"}
  BY <1>1, HeaderText
<1>8. /\ Len(Line(m)) = Len(h) + Len(Body(m)) /\ Len(Body(m)) \in Nat
      /\ \A i \in 1 .. Len(h) : Line(m)[i] = h[i]
      /\ \A i \in 1 .. Len(Body(m)) : Line(m)[Len(h) + i] = Body(m)[i]
  <2>1. Line(m) = h \o Body(m)
    BY DEF Line
  <2> HIDE DEF h
  <2>2. /\ Len(h \o Body(m)) = Len(h) + Len(Body(m))
        /\ \A i \in 1 .. Len(h) : (h \o Body(m))[i] = h[i]
        /\ \A i \in 1 .. Len(Body(m)) : (h \o Body(m))[Len(h) + i] = Body(m)[i]
    BY <1>1, <1>7, Concat
  <2>3. Len(Body(m)) \in Nat
    BY <1>1, TextType
  <2> QED  BY <2>1, <2>2, <2>3
<1> HIDE DEF h
<1>9. ASSUME NEW i \in 2 .. Len(Line(m)) PROVE Line(m)[i] \notin words
  <2>1. CASE i <= Len(h)
    <3>1. Line(m)[i] \in {"SP", "FROM"}
      BY <1>7, <1>8, <2>1
    <3> QED  BY <3>1
  <2>2. CASE i > Len(h)
    <3> DEFINE j == i - Len(h)
    <3>1. j \in 1 .. Len(Body(m)) /\ i = Len(h) + j
      BY <1>7, <1>8, <2>2
    <3> HIDE DEF j
    <3> QED  BY <1>6, <1>8, <3>1 DEF Without
  <2> QED  BY <1>7, <2>1, <2>2
<1>10. ASSUME m.type \notin words PROVE Without(Line(m), words)
  <2> SUFFICES ASSUME NEW i \in 1 .. Len(Line(m)) PROVE Line(m)[i] \notin words
    BY DEF Without
  <2>1. CASE i = 1
    BY <1>7, <1>8, <1>10, <2>1
  <2>2. CASE i # 1
    BY <1>7, <1>8, <1>9, <2>2
  <2> QED  BY <2>1, <2>2
<1> QED  BY <1>6, <1>9, <1>10

Grouped(m) ==
    CASE m.type = "REPLY" -> <<Answer(m), m.text>>
      [] m.type = "BYE" -> <<m.author>>
      [] m.type \in {"ERR", "MSG"} -> <<m.author, m.text>>

\* The expression of a type finds the groups that the line was made from.
LEMMA GroupsFound ==
    ASSUME NEW m \in ServerMessages, Clear(m)
    PROVE  /\ Groups(m.type, Body(m)) = IF Full(m) THEN {Grouped(m)} ELSE {}
           /\ Extracted(m.type, Grouped(m)) = m
<1>1. /\ m.type \in {"ERR", "REPLY", "MSG", "BYE"}
      /\ m.author \in Text /\ m.text \in Text /\ m.ok \in BOOLEAN
      /\ m = [type |-> m.type, author |-> m.author, text |-> m.text, ok |-> m.ok]
      /\ Answer(m) \in Text /\ Answer(m) \in Answers
  BY ServerMessage
<1>2. "IS" \in Symbols
  BY FixedSymbols
<1>3. /\ m.ok => m.type = "REPLY"
      /\ m.type = "REPLY" => m.author = <<>>
      /\ m.type = "BYE" => m.text = <<>>
  BY DEF ServerMessages
<1>4. CASE m.type = "REPLY"
  <2> DEFINE found == {s \in Splits(Joined(Answer(m), "IS", m.text), "IS") : s[1] \in Answers}
  <2>1. found = IF m.text # <<>> THEN {<<Answer(m), m.text>>} ELSE {}
    BY <1>1, <1>2, SplitReply
  <2>2. Groups(m.type, Body(m)) = Greedy(found)
    BY <1>4 DEF Groups, Body, Answers
  <2>3. Greedy({<<Answer(m), m.text>>}) = {<<Answer(m), m.text>>} /\ Greedy({}) = {}
    BY <1>1, GreedyOne
  <2>4. Grouped(m) = <<Answer(m), m.text>> /\ (Full(m) <=> m.text # <<>>)
    BY <1>4 DEF Grouped, Full
  <2> HIDE DEF found
  <2>5. Groups(m.type, Body(m)) = IF Full(m) THEN {Grouped(m)} ELSE {}
    BY <2>1, <2>2, <2>3, <2>4
  <2>6. Answer(m) = <<"OK">> <=> m.ok
    <3>1. <<"OK">> # <<"NOK">>
      OBVIOUS
    <3> QED  BY <1>1, <3>1 DEF Answer
  <2>7. Extracted(m.type, <<Answer(m), m.text>>) =
          [type |-> "REPLY", author |-> <<>>, text |-> m.text, ok |-> Answer(m) = <<"OK">>]
    BY <1>4 DEF Extracted
  <2>8. (Answer(m) = <<"OK">>) = m.ok
    BY <1>1, <2>6
  <2> QED  BY <1>1, <1>3, <1>4, <2>4, <2>5, <2>7, <2>8
<1>5. CASE m.type = "BYE"
  <2>1. Groups(m.type, Body(m)) = IF m.author = <<>> THEN {} ELSE {<<m.author>>}
    BY <1>5 DEF Groups, Body
  <2>2. Grouped(m) = <<m.author>> /\ (Full(m) <=> m.author # <<>>)
    BY <1>5 DEF Grouped, Full
  <2>3. Extracted(m.type, <<m.author>>) =
          [type |-> "BYE", author |-> m.author, text |-> <<>>, ok |-> FALSE]
    BY <1>5 DEF Extracted
  <2>4. m.ok = FALSE
    BY <1>1, <1>3, <1>5
  <2> QED  BY <1>1, <1>3, <1>5, <2>1, <2>2, <2>3, <2>4
<1>6. CASE m.type \in {"ERR", "MSG"}
  <2> DEFINE found == Splits(Joined(m.author, "IS", m.text), "IS")
  <2>1. found = IF m.author # <<>> /\ m.text # <<>> THEN {<<m.author, m.text>>} ELSE {}
    BY <1>1, <1>2, <1>6, SplitOnce DEF Clear
  <2>2. Groups(m.type, Body(m)) = Greedy(found)
    BY <1>6 DEF Groups, Body
  <2>3. Greedy({<<m.author, m.text>>}) = {<<m.author, m.text>>} /\ Greedy({}) = {}
    BY <1>1, GreedyOne
  <2>4. Grouped(m) = <<m.author, m.text>> /\ (Full(m) <=> m.author # <<>> /\ m.text # <<>>)
    BY <1>6 DEF Grouped, Full
  <2> HIDE DEF found
  <2>5. Groups(m.type, Body(m)) = IF Full(m) THEN {Grouped(m)} ELSE {}
    BY <2>1, <2>2, <2>3, <2>4
  <2>6. Extracted(m.type, <<m.author, m.text>>) =
          [type |-> m.type, author |-> m.author, text |-> m.text, ok |-> FALSE]
    BY <1>6 DEF Extracted
  <2>7. m.ok = FALSE
    BY <1>1, <1>3, <1>6
  <2> QED  BY <1>1, <2>4, <2>5, <2>6, <2>7
<1> QED  BY <1>1, <1>4, <1>5, <1>6

\* What decode returns comes from a line, a type and groups of the piece.
LEMMA DecodedFrom ==
    ASSUME NEW piece, NEW x
    PROVE  x \in Decoded(piece) <=>
             \E line \in LineOf(piece) :
               \E t \in {u \in DOMAIN Header : IsPrefix(Header[u], line)} :
                 \E g \in Groups(t, SubSeq(line, Len(Header[t]) + 1, Len(line))) :
                   x = Extracted(t, g)
BY DEF Decoded

\* A whole line of the server is read as the message it was made from, also with
\* the beginning of another line behind it; a line with an empty part is skipped.
LEMMA LineDecoded ==
    ASSUME NEW m \in ServerMessages, Clear(m), NEW rest \in Text, Without(rest, Ends)
    PROVE  Decoded((Line(m) \o Delimiter) \o rest) = IF Full(m) THEN {m} ELSE {}
<1> DEFINE piece == (Line(m) \o Delimiter) \o rest
           line == Line(m)
           Types(l) == {u \in DOMAIN Header : IsPrefix(Header[u], l)}
           Behind(t, l) == SubSeq(l, Len(Header[t]) + 1, Len(l))
<1>1. m.type \in Headers /\ line \in Text /\ Body(m) \in Text
  BY ServerMessage
<1>2. Without(line, Ends)
  <2>1. Ends \cap {"SP", "FROM", "IS", "OK", "NOK"} = {} /\ m.type \notin Ends
    BY <1>1 DEF Ends, Headers
  <2> QED  BY <2>1, LineWithout DEF Clear
<1>3. LineOf(piece) = {line}
  BY <1>1, <1>2, LineFound
<1>4. Types(line) = {m.type} /\ Behind(m.type, line) = Body(m)
  BY <1>1, TypeFound DEF Line
<1>5. Groups(m.type, Body(m)) = IF Full(m) THEN {Grouped(m)} ELSE {}
  BY GroupsFound
<1>6. Extracted(m.type, Grouped(m)) = m
  BY GroupsFound
<1>7. \A x : x \in Decoded(piece) <=>
               \E l \in LineOf(piece) : \E t \in Types(l) :
                 \E g \in Groups(t, Behind(t, l)) : x = Extracted(t, g)
  BY DecodedFrom, Zenon
<1> HIDE DEF piece, line, Types, Behind
<1>8. \A x : x \in Decoded(piece) <=> \E g \in Groups(m.type, Body(m)) : x = Extracted(m.type, g)
  BY <1>3, <1>4, <1>7
<1>9. Decoded(piece) = IF Full(m) THEN {m} ELSE {}
  BY <1>5, <1>6, <1>8
<1> QED  BY <1>9 DEF piece, line

-----------------------------------------------------------------------------
(* The encoder *)

Settled(text) == Placeholders(text) = {}

\* regex_search finds the leftmost placeholder, where there is one.
LEMMA LeastPlaceholder ==
    ASSUME NEW text \in Text, ~Settled(text)
    PROVE  /\ Min(Placeholders(text)) \in Placeholders(text)
           /\ \A i \in Placeholders(text) : Min(Placeholders(text)) <= i
<1> DEFINE P == Placeholders(text)
<1>1. \A i \in P : i \in 1 .. Len(text) - 2
  BY DEF Placeholders
<1>0. Len(text) \in Nat
  BY TextType
<1> HIDE DEF P
<1>6. P \subseteq Nat
  BY <1>0, <1>1
<1>7. P # {}
  BY DEF P, Settled
<1>2. PICK m \in P : \A n \in P : ~ (<<n, m>> \in OpToRel(<, Nat))
  BY <1>6, <1>7, NatLessThanWellFounded, WFMin
<1>3. \A n \in P : ~ (n < m)
  BY <1>2, <1>6 DEF OpToRel
<1>4. \A n \in P : m <= n
  BY <1>3, <1>6
<1>5. Min(P) \in P /\ \A n \in P : Min(P) <= n
  BY <1>4 DEF Min
<1> QED  BY <1>5 DEF P

\* A placeholder is three symbols of the text.
LEMMA PlaceholderAt ==
    ASSUME NEW text \in Text, NEW i \in Placeholders(text)
    PROVE  /\ i \in Nat /\ 1 <= i /\ i + 2 <= Len(text)
           /\ text[i] = "LB" /\ text[i + 1] \notin NotWords /\ text[i + 2] = "RB"
           /\ i \in DOMAIN text /\ text[i + 1] \in Symbols
<1>1. Len(text) \in Nat /\ DOMAIN text = 1 .. Len(text)
  BY TextType
<1>2. text[i] = "LB" /\ text[i + 1] \notin NotWords /\ text[i + 2] = "RB"
  BY DEF Placeholders
<1>5. i \in 1 .. Len(text) - 2
  BY DEF Placeholders
<1>3. i \in Nat /\ 1 <= i /\ i + 2 <= Len(text) /\ i \in 1 .. Len(text)
         /\ i + 1 \in 1 .. Len(text)
  BY <1>1, <1>5
<1>4. text[i + 1] \in Symbols
  BY <1>3, TextType
<1> QED  BY <1>1, <1>2, <1>3, <1>4

\* What is inserted is a text, whatever the word.
LEMMA ValueText ==
    ASSUME NEW of \in Typed, NEW key
    PROVE  Value(key, of) \in Text
<1>1. /\ of.message \in MessagesOf({"ERR", "AUTH", "JOIN", "MSG", "BYE"})
      /\ of.config \in [username : Text, secret : Text, channel : Text]
  BY TypedAssumption
<1>2. <<"UNKNOWN">> \in Text
  <2>1. "UNKNOWN" \in Symbols
    BY FixedSymbols
  <2> QED  BY <2>1, Tuple
<1>3. /\ of.message.author \in Text /\ of.message.text \in Text
      /\ of.config.username \in Text /\ of.config.secret \in Text
      /\ of.config.channel \in Text
  BY <1>1 DEF MessagesOf
<1> QED  BY <1>2, <1>3, DelimiterText DEF Value, values

\* A round of the loop takes this text to that one.
Rounds(text, of, next) ==
    /\ text \in Text /\ next \in Text
    /\ ~Settled(text) /\ Replaced(text, of) = next

\* A round leaves a text.
LEMMA ReplacedText ==
    ASSUME NEW of \in Typed, NEW text \in Text, ~Settled(text)
    PROVE  Replaced(text, of) \in Text
<1> DEFINE i == Min(Placeholders(text))
<1>1. i \in Nat /\ 1 <= i /\ i + 2 <= Len(text)
  BY LeastPlaceholder, PlaceholderAt
<1>2. Len(text) \in Nat
  BY TextType
<1> HIDE DEF i
<1>3. SubSeq(text, 1, i - 1) \in Text
  <2>1. 1 \in Int /\ i - 1 \in Int /\ 1 <= 1 /\ i - 1 <= Len(text)
    BY <1>1, <1>2
  <2> QED  BY <2>1, Piece
<1>4. SubSeq(text, i + 3, Len(text)) \in Text
  <2>1. i + 3 \in Int /\ Len(text) \in Int /\ 1 <= i + 3 /\ Len(text) <= Len(text)
    BY <1>1, <1>2
  <2> QED  BY <2>1, Piece
<1>5. (SubSeq(text, 1, i - 1) \o Value(text[i + 1], of)) \o SubSeq(text, i + 3, Len(text))
         \in Text
  BY <1>3, <1>4, ValueText, Concat
<1> QED  BY <1>5 DEF Replaced, i

\* A placeholder of the formats.
LEMMA KeyText ==
    ASSUME NEW k \in Symbols
    PROVE  /\ Key(k) \in Text /\ Len(Key(k)) = 3
           /\ Key(k)[1] = "LB" /\ Key(k)[2] = k /\ Key(k)[3] = "RB"
BY FixedSymbols, Tuple DEF Key

Names == Symbols \ NotWords

\* The placeholder behind a text without one is replaced.
LEMMA FirstRound ==
    ASSUME NEW of \in Typed, NEW text \in Text, Settled(text), NEW k \in Names
    PROVE  Rounds(text \o Key(k), of, text \o Value(k, of))
<1> DEFINE whole == text \o Key(k)
           n == Len(text)
           i == Min(Placeholders(whole))
<1>0. k \in Symbols /\ k \notin NotWords
  BY DEF Names
<1>1. /\ whole \in Text /\ Len(whole) = n + 3
      /\ \A j \in 1 .. n : whole[j] = text[j]
      /\ whole[n + 1] = "LB" /\ whole[n + 2] = k /\ whole[n + 3] = "RB"
  <2>1. /\ whole \in Text /\ Len(whole) = n + Len(Key(k))
        /\ \A j \in 1 .. n : whole[j] = text[j]
        /\ \A j \in 1 .. Len(Key(k)) : whole[n + j] = Key(k)[j]
    BY <1>0, Concat, KeyText
  <2>2. Len(Key(k)) = 3 /\ Key(k)[1] = "LB" /\ Key(k)[2] = k /\ Key(k)[3] = "RB"
    BY <1>0, KeyText
  <2> HIDE DEF whole, n
  <2> QED  BY <2>1, <2>2
<1>2. n \in Nat
  BY TextType
<1>3. SubSeq(whole, 1, n) = text
  BY <1>0, KeyText, FrontPart
<1> HIDE DEF whole, n
<1>4. n + 1 \in Placeholders(whole)
  <2>1. n + 1 \in 1 .. Len(whole) - 2 /\ n + 1 + 1 = n + 2 /\ n + 1 + 2 = n + 3
    BY <1>1, <1>2
  <2> QED  BY <1>0, <1>1, <2>1 DEF Placeholders
<1>5. ASSUME NEW j \in Placeholders(whole) PROVE j >= n + 1
  <2> SUFFICES ASSUME j < n + 1 PROVE FALSE
    BY <1>1, <1>2, PlaceholderAt
  <2>1. /\ j \in Nat /\ 1 <= j /\ j + 2 <= Len(whole)
        /\ whole[j] = "LB" /\ whole[j + 1] \notin NotWords /\ whole[j + 2] = "RB"
    BY <1>1, PlaceholderAt
  <2>2. j + 1 # n + 1
    BY <1>1, <2>1 DEF NotWords
  <2>3. j + 2 # n + 1
    <3>1. "LB" # "RB"
      OBVIOUS
    <3> QED  BY <1>1, <2>1, <3>1
  <2>4. j + 2 <= n
    BY <1>2, <2>1, <2>2, <2>3
  <2>5. j \in 1 .. n - 2 /\ j \in 1 .. n /\ j + 1 \in 1 .. n /\ j + 2 \in 1 .. n
    BY <1>2, <2>1, <2>4
  <2>6. text[j] = "LB" /\ text[j + 1] \notin NotWords /\ text[j + 2] = "RB"
    BY <1>1, <2>1, <2>5
  <2>7. j \in Placeholders(text)
    BY <2>5, <2>6 DEF Placeholders, n
  <2> QED  BY <2>7 DEF Settled
<1>6. i = n + 1
  <2>1. i \in Placeholders(whole) /\ i <= n + 1
    BY <1>1, <1>4, LeastPlaceholder DEF Settled
  <2>2. i \in Nat
    BY <1>1, <2>1, PlaceholderAt
  <2> QED  BY <1>2, <1>5, <2>1, <2>2
<1>7. SubSeq(whole, i + 3, Len(whole)) = <<>>
  <2> DEFINE s == SubSeq(whole, i + 3, Len(whole))
  <2>1. /\ i + 3 \in Int /\ Len(whole) \in Int /\ 1 <= i + 3 /\ Len(whole) <= Len(whole)
        /\ ~(i + 3 <= Len(whole))
    BY <1>1, <1>2, <1>6
  <2>2. s \in Text /\ Len(s) = 0
    BY <1>1, <2>1, Piece
  <2> HIDE DEF s
  <2>3. s = <<>>
    BY <2>2, TextType
  <2> QED  BY <2>3 DEF s
<1>8. SubSeq(whole, 1, i - 1) = text
  <2>1. i - 1 = n
    BY <1>2, <1>6
  <2> QED  BY <1>3, <2>1
<1>9. whole[i + 1] = k
  <2>1. i + 1 = n + 2
    BY <1>2, <1>6
  <2> QED  BY <1>1, <2>1
<1>10. text \o Value(k, of) \in Text /\ (text \o Value(k, of)) \o <<>> = text \o Value(k, of)
  <2>1. text \o Value(k, of) \in Text
    BY ValueText, Concat
  <2> QED  BY <2>1, ConcatEmptySeq DEF Text
<1>11. Replaced(whole, of) = text \o Value(k, of)
  BY <1>7, <1>8, <1>9, <1>10 DEF Replaced
<1>12. Rounds(whole, of, text \o Value(k, of))
  BY <1>1, <1>4, <1>10, <1>11 DEF Rounds, Settled
<1> QED  BY <1>12 DEF whole

\* What stands behind the leftmost placeholder is left alone.
LEMMA RoundBefore ==
    ASSUME NEW of \in Typed, NEW text, NEW next, Rounds(text, of, next), NEW post \in Text
    PROVE  Rounds(text \o post, of, next \o post)
<1> DEFINE whole == text \o post
           i == Min(Placeholders(text))
           j == Min(Placeholders(whole))
           n == Len(text)
           tail == SubSeq(text, i + 3, n)
           front == SubSeq(text, 1, i - 1) \o Value(text[i + 1], of)
<1>1. text \in Text /\ next \in Text /\ ~Settled(text) /\ Replaced(text, of) = next
  BY DEF Rounds
<1>2. /\ whole \in Text /\ Len(whole) = n + Len(post)
      /\ \A x \in 1 .. n : whole[x] = text[x]
      /\ \A x \in 1 .. Len(post) : whole[n + x] = post[x]
  BY <1>1, Concat
<1>3. n \in Nat /\ Len(post) \in Nat
  BY <1>1, TextType
<1>4. /\ i \in Placeholders(text) /\ \A x \in Placeholders(text) : i <= x
      /\ i \in Nat /\ 1 <= i /\ i + 2 <= n
  BY <1>1, LeastPlaceholder, PlaceholderAt
<1>5. next = front \o tail
  BY <1>1 DEF Replaced
<1>6. SubSeq(text, 1, i - 1) \in Text /\ tail \in Text /\ front \in Text
  <2>1. /\ 1 \in Int /\ i - 1 \in Int /\ 1 <= 1 /\ i - 1 <= n
        /\ i + 3 \in Int /\ n \in Int /\ 1 <= i + 3 /\ n <= n
    BY <1>3, <1>4
  <2>2. SubSeq(text, 1, i - 1) \in Text /\ tail \in Text
    BY <1>1, <2>1, Piece
  <2> QED  BY <2>2, ValueText, Concat
<1>7. Replaced(whole, of) =
        (SubSeq(whole, 1, j - 1) \o Value(whole[j + 1], of)) \o SubSeq(whole, j + 3, Len(whole))
  BY DEF Replaced
<1> HIDE DEF whole, i, j, n, tail
<1>8. i \in Placeholders(whole)
  <2>1. /\ i \in 1 .. Len(whole) - 2
        /\ i \in 1 .. n /\ i + 1 \in 1 .. n /\ i + 2 \in 1 .. n
    BY <1>2, <1>3, <1>4
  <2>2. text[i] = "LB" /\ text[i + 1] \notin NotWords /\ text[i + 2] = "RB"
    BY <1>1, <1>4, PlaceholderAt
  <2>3. whole[i] = "LB" /\ whole[i + 1] \notin NotWords /\ whole[i + 2] = "RB"
    BY <1>2, <2>1, <2>2
  <2> QED  BY <2>1, <2>3 DEF Placeholders
<1>9. j \in Placeholders(whole) /\ j <= i
  BY <1>2, <1>8, LeastPlaceholder DEF j, Settled
<1>10. j \in Nat /\ 1 <= j
  BY <1>2, <1>9, PlaceholderAt
<1>11. j \in Placeholders(text)
  <2>1. j \in 1 .. n - 2 /\ j \in 1 .. n /\ j + 1 \in 1 .. n /\ j + 2 \in 1 .. n
    BY <1>3, <1>4, <1>9, <1>10
  <2>2. whole[j] = "LB" /\ whole[j + 1] \notin NotWords /\ whole[j + 2] = "RB"
    BY <1>2, <1>9, PlaceholderAt
  <2>3. text[j] = "LB" /\ text[j + 1] \notin NotWords /\ text[j + 2] = "RB"
    BY <1>2, <2>1, <2>2
  <2>4. j \in 1 .. Len(text) - 2
    BY <2>1 DEF n
  <2> QED  BY <2>3, <2>4 DEF Placeholders
<1>12. j = i
  BY <1>4, <1>9, <1>10, <1>11
<1>13. SubSeq(whole, 1, i - 1) = SubSeq(text, 1, i - 1)
  <2> DEFINE s == SubSeq(whole, 1, i - 1)
             t == SubSeq(text, 1, i - 1)
  <2>1. 1 \in Int /\ i - 1 \in Int /\ 1 <= 1 /\ i - 1 <= n /\ i - 1 <= Len(whole)
    BY <1>2, <1>3, <1>4
  <2>2. /\ s \in Text /\ Len(s) = IF 1 <= i - 1 THEN i - 1 - 1 + 1 ELSE 0
        /\ \A x \in 1 .. i - 1 - 1 + 1 : s[x] = whole[1 + x - 1]
    BY <1>2, <2>1, Piece
  <2>3. /\ t \in Text /\ Len(t) = IF 1 <= i - 1 THEN i - 1 - 1 + 1 ELSE 0
        /\ \A x \in 1 .. i - 1 - 1 + 1 : t[x] = text[1 + x - 1]
    BY <1>1, <2>1, Piece DEF n
  <2> HIDE DEF s, t
  <2>4. Len(s) = Len(t) /\ \A x \in 1 .. Len(s) : s[x] = t[x]
    <3>1. Len(s) = i - 1 /\ i - 1 - 1 + 1 = i - 1
      BY <1>4, <2>2
    <3>2. \A x \in 1 .. i - 1 : 1 + x - 1 = x /\ x \in 1 .. n
      BY <1>3, <1>4
    <3> QED  BY <1>2, <2>2, <2>3, <3>1, <3>2
  <2>5. s = t
    BY <2>2, <2>3, <2>4, Equal
  <2> QED  BY <2>5 DEF s, t
<1>14. whole[i + 1] = text[i + 1]
  <2>1. i + 1 \in 1 .. n
    BY <1>3, <1>4
  <2> QED  BY <1>2, <2>1
<1>15. SubSeq(whole, i + 3, Len(whole)) = tail \o post
  <2> DEFINE head == SubSeq(text, 1, i + 2)
  <2>1. head \in Text /\ Len(head) = i + 2
    <3>1. i + 2 \in Nat /\ i + 2 <= Len(text)
      BY <1>4 DEF n
    <3> QED  BY <1>1, <3>1, Beginning
  <2>2. text = head \o tail
    <3>1. i + 2 \in Nat /\ i + 2 <= Len(text) /\ i + 2 + 1 = i + 3
      BY <1>4 DEF n
    <3>2. text = SubSeq(text, 1, i + 2) \o SubSeq(text, i + 2 + 1, Len(text))
      BY <1>1, <3>1, HeadTail
    <3> QED  BY <3>1, <3>2 DEF n, tail
  <2> HIDE DEF head
  <2>3. tail \o post \in Text
    BY <1>6, Concat
  <2>4. whole = head \o (tail \o post)
    <3>1. head \in Text /\ tail \in Text /\ post \in Text
      BY <1>6, <2>1
    <3>2. (head \o tail) \o post = head \o (tail \o post)
      BY <3>1, Assoc
    <3>3. whole = text \o post
      BY DEF whole
    <3> QED  BY <2>2, <3>2, <3>3
  <2>5. SubSeq(whole, Len(head) + 1, Len(whole)) = tail \o post
    BY <2>1, <2>3, <2>4, BackPart
  <2>6. Len(head) + 1 = i + 3
    BY <1>4, <2>1
  <2> QED  BY <2>5, <2>6
<1>16. Replaced(whole, of) = front \o (tail \o post)
  BY <1>7, <1>12, <1>13, <1>14, <1>15
<1>17. front \o (tail \o post) = next \o post
  <2> HIDE DEF front
  <2> QED  BY <1>5, <1>6, Assoc
<1>18. next \o post \in Text /\ ~Settled(whole)
  BY <1>1, <1>8, Concat DEF Settled
<1>19. Rounds(whole, of, next \o post)
  BY <1>2, <1>16, <1>17, <1>18 DEF Rounds
<1> QED  BY <1>19 DEF whole

\* Where two texts meet there is a space or a line end.
Apart(a, b) == \/ Len(a) > 0 /\ a[Len(a)] = "SP"
               \/ Len(b) > 0 /\ b[1] \in {"SP", "CR"}

\* No placeholder comes about where such texts meet.
LEMMA NoPlaceholders ==
    ASSUME NEW a \in Text, NEW b \in Text, Settled(a), Settled(b), Apart(a, b)
    PROVE  Settled(a \o b)
<1> DEFINE whole == a \o b
           n == Len(a)
<1>1. /\ whole \in Text /\ Len(whole) = n + Len(b)
      /\ \A x \in 1 .. n : whole[x] = a[x]
      /\ \A x \in 1 .. Len(b) : whole[n + x] = b[x]
  BY Concat
<1>2. n \in Nat /\ Len(b) \in Nat
  BY TextType
<1>3. \/ n > 0 /\ a[n] = "SP"
      \/ Len(b) > 0 /\ b[1] \in {"SP", "CR"}
  BY DEF Apart
<1>4. \A j \in 1 .. n - 2 : ~(a[j] = "LB" /\ a[j + 1] \notin NotWords /\ a[j + 2] = "RB")
  BY DEF Placeholders, Settled
<1>5. \A j \in 1 .. Len(b) - 2 : ~(b[j] = "LB" /\ b[j + 1] \notin NotWords /\ b[j + 2] = "RB")
  BY DEF Placeholders, Settled
<1> HIDE DEF whole, n
<1>6. ASSUME NEW i \in Placeholders(whole) PROVE FALSE
  <2>1. /\ i \in Nat /\ 1 <= i /\ i + 2 <= n + Len(b)
        /\ whole[i] = "LB" /\ whole[i + 1] \notin NotWords /\ whole[i + 2] = "RB"
    BY <1>1, PlaceholderAt
  <2>2. CASE i + 2 <= n
    <3>1. i \in 1 .. n - 2 /\ i \in 1 .. n /\ i + 1 \in 1 .. n /\ i + 2 \in 1 .. n
      BY <1>2, <2>1, <2>2
    <3> QED  BY <1>1, <1>4, <2>1, <3>1
  <2>3. CASE i > n
    <3> DEFINE x == i - n
    <3>1. /\ x \in 1 .. Len(b) - 2 /\ x \in 1 .. Len(b) /\ x + 1 \in 1 .. Len(b)
          /\ x + 2 \in 1 .. Len(b)
          /\ i = n + x /\ i + 1 = n + (x + 1) /\ i + 2 = n + (x + 2)
      BY <1>2, <2>1, <2>3
    <3> HIDE DEF x
    <3>2. b[x] = "LB" /\ b[x + 1] \notin NotWords /\ b[x + 2] = "RB"
      BY <1>1, <2>1, <3>1
    <3> QED  BY <1>5, <3>1, <3>2
  <2>4. CASE i + 1 = n
    <3>1. n \in 1 .. n /\ 1 \in 1 .. Len(b) /\ i + 2 = n + 1
      BY <1>2, <2>1, <2>4
    <3>2. whole[n] = a[n] /\ whole[n + 1] = b[1]
      BY <1>1, <3>1
    <3>3. whole[n] \notin NotWords /\ whole[n + 1] = "RB"
      BY <2>1, <2>4, <3>1
    <3> QED  BY <1>3, <3>2, <3>3 DEF NotWords
  <2>5. CASE i = n
    <3>1. n \in 1 .. n /\ 1 \in 1 .. Len(b)
      BY <1>2, <2>1, <2>5
    <3>2. whole[n] = a[n] /\ whole[n + 1] = b[1]
      BY <1>1, <3>1
    <3>3. whole[n] = "LB" /\ whole[n + 1] \notin NotWords
      BY <2>1, <2>5
    <3> QED  BY <1>3, <3>2, <3>3 DEF NotWords
  <2> QED  BY <1>2, <2>1, <2>2, <2>3, <2>4, <2>5
<1> QED  BY <1>6 DEF whole, Settled

\* A text without a placeholder that ends in a space: what may stand in front of
\* a value.
Ready(text) ==
    text \in Text /\ Settled(text) /\ Len(text) > 0 /\ text[Len(text)] = "SP"

\* No header, divider or line end has a placeholder or is a part of one.
LEMMA FixedSettled ==
    /\ Settled(Delimiter)
    /\ \A w \in Symbols : Settled(Divider(w))
    /\ \A t \in Headers : Ready(Header[t])
<1>1. Settled(Delimiter)
  <2>1. 1 .. Len(Delimiter) - 2 = {}
    BY DelimiterText
  <2> QED  BY <2>1 DEF Settled, Placeholders
<1>2. ASSUME NEW w \in Symbols PROVE Settled(Divider(w))
  <2>1. Len(Divider(w)) = 3 /\ Divider(w)[1] = "SP"
    BY DividerText
  <2>2. \A i \in 1 .. Len(Divider(w)) - 2 : Divider(w)[i] # "LB"
    BY <2>1
  <2> QED  BY <2>2 DEF Settled, Placeholders
<1>3. ASSUME NEW t \in Headers PROVE Ready(Header[t])
  <2> DEFINE h == Header[t]
  <2>1. /\ h \in Text /\ h[1] = t /\ Len(h) \in Nat /\ Len(h) >= 2
        /\ \A i \in 2 .. Len(h) : h[i] \in {"SP", "FROM"}
    BY HeaderText
  <2>2. Len(h) > 0 /\ h[Len(h)] = "SP"
    <3>1. /\ Header["ERR"] = <<"ERR", "SP", "FROM", "SP">>
          /\ Header["REPLY"] = <<"REPLY", "SP">>
          /\ Header["AUTH"] = <<"AUTH", "SP">>
          /\ Header["JOIN"] = <<"JOIN", "SP">>
          /\ Header["MSG"] = <<"MSG", "SP", "FROM", "SP">>
          /\ Header["BYE"] = <<"BYE", "SP", "FROM", "SP">>
      BY DEF Header
    <3>2. ASSUME NEW w PROVE LET s == <<w, "SP">> IN Len(s) > 0 /\ s[Len(s)] = "SP"
      OBVIOUS
    <3>3. ASSUME NEW w PROVE LET s == <<w, "SP", "FROM", "SP">>
                             IN  Len(s) > 0 /\ s[Len(s)] = "SP"
      OBVIOUS
    <3> QED  BY <3>1, <3>2, <3>3 DEF Headers
  <2>3. t # "LB"
    BY DEF Headers
  <2> HIDE DEF h
  <2>4. \A i \in 1 .. Len(h) - 2 : h[i] # "LB"
    <3>1. \A i \in 2 .. Len(h) : h[i] # "LB"
      <4>1. "SP" # "LB" /\ "FROM" # "LB"
        OBVIOUS
      <4> QED  BY <2>1, <4>1
    <3> QED  BY <2>1, <2>3, <3>1
  <2>5. Settled(h)
    BY <2>4 DEF Settled, Placeholders
  <2> QED  BY <2>1, <2>2, <2>5 DEF Ready, h
<1> QED  BY <1>1, <1>2, <1>3

\* A value without placeholders behind such a text, and what may follow it.
LEMMA ReadyStep ==
    ASSUME NEW p, Ready(p), NEW v \in Text, Settled(v)
    PROVE  /\ p \o v \in Text /\ Settled(p \o v)
           /\ Settled((p \o v) \o Delimiter)
           /\ \A w \in Symbols : Ready((p \o v) \o Divider(w))
<1>1. p \in Text /\ Settled(p) /\ Len(p) > 0 /\ p[Len(p)] = "SP"
  BY DEF Ready
<1>2. p \o v \in Text /\ Settled(p \o v)
  <2>1. Apart(p, v)
    BY <1>1 DEF Apart
  <2> QED  BY <1>1, <2>1, NoPlaceholders, Concat
<1>3. Settled((p \o v) \o Delimiter)
  <2>1. Apart(p \o v, Delimiter)
    <3>1. Len(Delimiter) > 0 /\ Delimiter[1] \in {"SP", "CR"}
      BY DelimiterText
    <3> QED  BY <3>1 DEF Apart
  <2> QED  BY <1>2, <2>1, NoPlaceholders, DelimiterText, FixedSettled
<1>4. ASSUME NEW w \in Symbols PROVE Ready((p \o v) \o Divider(w))
  <2> DEFINE d == Divider(w)
             q == p \o v
  <2>1. d \in Text /\ Len(d) = 3 /\ d[1] = "SP" /\ d[3] = "SP" /\ Settled(d)
    BY DividerText, FixedSettled
  <2> HIDE DEF d, q
  <2>2. q \in Text /\ Settled(q)
    BY <1>2 DEF q
  <2>3. Apart(q, d)
    BY <2>1 DEF Apart
  <2>4. Settled(q \o d)
    BY <2>1, <2>2, <2>3, NoPlaceholders
  <2>5. /\ q \o d \in Text /\ Len(q \o d) = Len(q) + Len(d)
        /\ \A i \in 1 .. Len(d) : (q \o d)[Len(q) + i] = d[i]
    BY <2>1, <2>2, Concat
  <2>6. Len(q) \in Nat
    BY <2>2, TextType
  <2>7. Len(q \o d) > 0 /\ (q \o d)[Len(q \o d)] = "SP"
    BY <2>1, <2>5, <2>6
  <2> QED  BY <2>4, <2>5, <2>7 DEF Ready, d, q
<1> QED  BY <1>2, <1>3, <1>4

\* The texts of the formats with three, four and two places.
Two(h, w, x, y, z) == (((h \o x) \o Divider(w)) \o y) \o z
Three(h, v, w, x, y, u, z) == (((((h \o x) \o Divider(v)) \o y) \o Divider(w)) \o u) \o z
One(h, x, z) == (h \o x) \o z

\* The last round of every encode.
LEMMA DelimiterRound ==
    ASSUME NEW of \in Typed, NEW text \in Text, Settled(text)
    PROVE  Rounds(text \o Key("dl"), of, text \o Delimiter)
<1>1. "dl" \in Names
  BY FixedSymbols DEF Names, NotWords
<1>2. Value("dl", of) = Delimiter
  BY DEF Value, values
<1> QED  BY <1>1, <1>2, FirstRound

\* The rounds of a BYE.
LEMMA OneRounds ==
    ASSUME NEW of \in Typed, NEW h, Ready(h), NEW k \in Names, Settled(Value(k, of))
    PROVE  /\ Rounds(One(h, Key(k), Key("dl")), of, One(h, Value(k, of), Key("dl")))
           /\ Rounds(One(h, Value(k, of), Key("dl")), of, One(h, Value(k, of), Delimiter))
           /\ Settled(One(h, Value(k, of), Delimiter))
<1> DEFINE v == Value(k, of)
<1>1. h \in Text /\ Settled(h) /\ v \in Text
  BY ValueText DEF Ready
<1>2. h \o v \in Text /\ Settled(h \o v) /\ Settled((h \o v) \o Delimiter)
  BY <1>1, ReadyStep
<1>3. Key("dl") \in Text
  BY FixedSymbols, KeyText
<1>4. Rounds((h \o Key(k)) \o Key("dl"), of, (h \o v) \o Key("dl"))
  BY <1>1, <1>3, FirstRound, RoundBefore
<1>5. Rounds((h \o v) \o Key("dl"), of, (h \o v) \o Delimiter)
  BY <1>2, DelimiterRound
<1> QED  BY <1>2, <1>4, <1>5 DEF One

\* The rounds of an ERR, a MSG or a JOIN.
LEMMA TwoRounds ==
    ASSUME NEW of \in Typed, NEW h, Ready(h), NEW w \in Symbols,
           NEW k \in Names, Settled(Value(k, of)), NEW l \in Names, Settled(Value(l, of))
    PROVE  LET x == Value(k, of)
               y == Value(l, of)
           IN  /\ Rounds(Two(h, w, Key(k), Key(l), Key("dl")), of,
                         Two(h, w, x, Key(l), Key("dl")))
               /\ Rounds(Two(h, w, x, Key(l), Key("dl")), of, Two(h, w, x, y, Key("dl")))
               /\ Rounds(Two(h, w, x, y, Key("dl")), of, Two(h, w, x, y, Delimiter))
               /\ Settled(Two(h, w, x, y, Delimiter))
<1> DEFINE x == Value(k, of)
           p == (h \o x) \o Divider(w)
<1>1. h \in Text /\ Settled(h) /\ x \in Text
  BY ValueText DEF Ready
<1>2. /\ Key("dl") \in Text /\ Key(l) \in Text /\ Divider(w) \in Text
  <2>1. "dl" \in Symbols /\ l \in Symbols
    BY FixedSymbols DEF Names
  <2> QED  BY <2>1, KeyText, DividerText
<1>3. Ready(p)
  BY <1>1, ReadyStep
<1>4. Rounds(h \o Key(k), of, h \o x)
  BY <1>1, FirstRound
<1>5. Rounds((h \o Key(k)) \o Divider(w), of, (h \o x) \o Divider(w))
  BY <1>2, <1>4, RoundBefore
<1>6. Rounds(((h \o Key(k)) \o Divider(w)) \o Key(l), of, ((h \o x) \o Divider(w)) \o Key(l))
  BY <1>2, <1>5, RoundBefore
<1>7. Rounds(Two(h, w, Key(k), Key(l), Key("dl")), of, Two(h, w, x, Key(l), Key("dl")))
  BY <1>2, <1>6, RoundBefore DEF Two
<1> HIDE DEF p
<1>8. \A z : One(p, z, Key("dl")) = Two(h, w, x, z, Key("dl"))
  BY DEF One, Two, p
<1>9. \A z : One(p, z, Delimiter) = Two(h, w, x, z, Delimiter)
  BY DEF One, Two, p
<1>10. /\ Rounds(One(p, Key(l), Key("dl")), of, One(p, Value(l, of), Key("dl")))
       /\ Rounds(One(p, Value(l, of), Key("dl")), of, One(p, Value(l, of), Delimiter))
       /\ Settled(One(p, Value(l, of), Delimiter))
  BY <1>3, OneRounds
<1> QED  BY <1>7, <1>8, <1>9, <1>10

\* The rounds of an AUTH.
LEMMA ThreeRounds ==
    ASSUME NEW of \in Typed, NEW h, Ready(h), NEW v \in Symbols, NEW w \in Symbols,
           NEW k \in Names, Settled(Value(k, of)), NEW l \in Names, Settled(Value(l, of)),
           NEW m \in Names, Settled(Value(m, of))
    PROVE  LET x == Value(k, of)
               y == Value(l, of)
               u == Value(m, of)
               T(a, b, c, z) == Three(h, v, w, a, b, c, z)
           IN  /\ Rounds(T(Key(k), Key(l), Key(m), Key("dl")), of,
                         T(x, Key(l), Key(m), Key("dl")))
               /\ Rounds(T(x, Key(l), Key(m), Key("dl")), of, T(x, y, Key(m), Key("dl")))
               /\ Rounds(T(x, y, Key(m), Key("dl")), of, T(x, y, u, Key("dl")))
               /\ Rounds(T(x, y, u, Key("dl")), of, T(x, y, u, Delimiter))
               /\ Settled(T(x, y, u, Delimiter))
<1> DEFINE x == Value(k, of)
           p == (h \o x) \o Divider(v)
<1>1. h \in Text /\ Settled(h) /\ x \in Text
  BY ValueText DEF Ready
<1>2. /\ Key("dl") \in Text /\ Key(l) \in Text /\ Key(m) \in Text
      /\ Divider(v) \in Text /\ Divider(w) \in Text
  <2>1. "dl" \in Symbols /\ l \in Symbols /\ m \in Symbols
    BY FixedSymbols DEF Names
  <2> QED  BY <2>1, KeyText, DividerText
<1>3. Ready(p)
  BY <1>1, ReadyStep
<1>4. Rounds(h \o Key(k), of, h \o x)
  BY <1>1, FirstRound
<1>5. Rounds((h \o Key(k)) \o Divider(v), of, (h \o x) \o Divider(v))
  BY <1>2, <1>4, RoundBefore
<1>6. Rounds(((h \o Key(k)) \o Divider(v)) \o Key(l), of, ((h \o x) \o Divider(v)) \o Key(l))
  BY <1>2, <1>5, RoundBefore
<1>7. Rounds((((h \o Key(k)) \o Divider(v)) \o Key(l)) \o Divider(w), of,
             (((h \o x) \o Divider(v)) \o Key(l)) \o Divider(w))
  BY <1>2, <1>6, RoundBefore
<1>8. Rounds(((((h \o Key(k)) \o Divider(v)) \o Key(l)) \o Divider(w)) \o Key(m), of,
             ((((h \o x) \o Divider(v)) \o Key(l)) \o Divider(w)) \o Key(m))
  BY <1>2, <1>7, RoundBefore
<1>9. Rounds(Three(h, v, w, Key(k), Key(l), Key(m), Key("dl")), of,
             Three(h, v, w, x, Key(l), Key(m), Key("dl")))
  BY <1>2, <1>8, RoundBefore DEF Three
<1> HIDE DEF p
<1>10. \A a, b, z : Two(p, w, a, b, z) = Three(h, v, w, x, a, b, z)
  BY DEF Two, Three, p
<1>11. /\ Rounds(Two(p, w, Key(l), Key(m), Key("dl")), of,
                 Two(p, w, Value(l, of), Key(m), Key("dl")))
       /\ Rounds(Two(p, w, Value(l, of), Key(m), Key("dl")), of,
                 Two(p, w, Value(l, of), Value(m, of), Key("dl")))
       /\ Rounds(Two(p, w, Value(l, of), Value(m, of), Key("dl")), of,
                 Two(p, w, Value(l, of), Value(m, of), Delimiter))
       /\ Settled(Two(p, w, Value(l, of), Value(m, of), Delimiter))
  BY <1>3, TwoRounds
<1> QED  BY <1>9, <1>10, <1>11

\* The texts of an encode whose values have no placeholders, in their order.
Stages(of) ==
    LET m == of.message
        c == of.config
        H == Header[m.type]
        K(k) == Key(k)
        dl == Key("dl")
    IN  CASE m.type \in {"ERR", "MSG"} ->
                {Two(H, "IS", K("DisplayName"), K("MessageContent"), dl),
                 Two(H, "IS", m.author, K("MessageContent"), dl),
                 Two(H, "IS", m.author, m.text, dl),
                 Two(H, "IS", m.author, m.text, Delimiter)}
          [] m.type = "JOIN" ->
                {Two(H, "AS", K("ChannelID"), K("DisplayName"), dl),
                 Two(H, "AS", c.channel, K("DisplayName"), dl),
                 Two(H, "AS", c.channel, m.author, dl),
                 Two(H, "AS", c.channel, m.author, Delimiter)}
          [] m.type = "AUTH" ->
                {Three(H, "AS", "USING", K("Username"), K("DisplayName"), K("Secret"), dl),
                 Three(H, "AS", "USING", c.username, K("DisplayName"), K("Secret"), dl),
                 Three(H, "AS", "USING", c.username, m.author, K("Secret"), dl),
                 Three(H, "AS", "USING", c.username, m.author, c.secret, dl),
                 Three(H, "AS", "USING", c.username, m.author, c.secret, Delimiter)}
          [] m.type = "BYE" ->
                {One(H, K("DisplayName"), dl), One(H, m.author, dl), One(H, m.author, Delimiter)}

Used(type) == CASE type \in {"ERR", "MSG"} -> {"DisplayName", "MessageContent"}
                [] type = "JOIN" -> {"ChannelID", "DisplayName"}
                [] type = "AUTH" -> {"Username", "DisplayName", "Secret"}
                [] type = "BYE" -> {"DisplayName"}

\* No value of the format has a placeholder of its own.
UsesPlain(of) == \A k \in Used(of.message.type) : Settled(Value(k, of))

\* A type uses some of the values.
LEMMA PlainUses ==
    ASSUME NEW of \in Typed, Plain(of)
    PROVE  UsesPlain(of)
<1>1. of.message.type \in {"ERR", "AUTH", "JOIN", "MSG", "BYE"}
  BY TypedAssumption DEF MessagesOf
<1>2. Used(of.message.type) \subseteq DOMAIN values(of)
  BY <1>1 DEF Used, values
<1> QED  BY <1>2 DEF UsesPlain, Plain, Settled, Value

\* Every round leads to the next of these texts, and the last one, the only one
\* without a placeholder, is the line that the format describes.
LEMMA StagesFollow ==
    ASSUME NEW of \in Typed, UsesPlain(of)
    PROVE  /\ tcpMessageFormats[of.message.type] \in Stages(of)
           /\ \A text \in Stages(of) :
                \/ Settled(text) /\ text = Layout(of.message, of.config)
                \/ \E next \in Stages(of) : Rounds(text, of, next)
<1> DEFINE m == of.message
           c == of.config
           H == Header[m.type]
<1>1. m.type \in {"ERR", "AUTH", "JOIN", "MSG", "BYE"}
  BY TypedAssumption DEF MessagesOf
<1>2. /\ Value("DisplayName", of) = m.author /\ Value("MessageContent", of) = m.text
      /\ Value("Username", of) = c.username /\ Value("Secret", of) = c.secret
      /\ Value("ChannelID", of) = c.channel
  BY DEF Value, values
<1>3. \A k \in Used(m.type) : Settled(Value(k, of))
  BY DEF UsesPlain
<1>4. /\ "DisplayName" \in Names /\ "MessageContent" \in Names /\ "Username" \in Names
      /\ "Secret" \in Names /\ "ChannelID" \in Names
  BY FixedSymbols DEF Names, NotWords
<1>5. "IS" \in Symbols /\ "AS" \in Symbols /\ "USING" \in Symbols
  BY FixedSymbols
<1>6. Ready(H)
  <2>1. m.type \in Headers
    BY <1>1 DEF Headers
  <2> QED  BY <2>1, FixedSettled
<1>7. CASE m.type \in {"ERR", "MSG"}
  <2> DEFINE t0 == Two(H, "IS", Key("DisplayName"), Key("MessageContent"), Key("dl"))
             t1 == Two(H, "IS", m.author, Key("MessageContent"), Key("dl"))
             t2 == Two(H, "IS", m.author, m.text, Key("dl"))
             t3 == Two(H, "IS", m.author, m.text, Delimiter)
  <2>0. Settled(Value("DisplayName", of)) /\ Settled(Value("MessageContent", of))
    BY <1>3, <1>7 DEF Used
  <2>1. Rounds(t0, of, t1) /\ Rounds(t1, of, t2) /\ Rounds(t2, of, t3) /\ Settled(t3)
    BY <1>2, <2>0, <1>4, <1>5, <1>6, TwoRounds
  <2>2. Stages(of) = {t0, t1, t2, t3}
    BY <1>7 DEF Stages
  <2>3. tcpMessageFormats[m.type] = t0
    <3>1. m.type = "ERR" => tcpMessageFormats[m.type] = t0
      BY DEF tcpMessageFormats, Two
    <3>2. m.type = "MSG" => tcpMessageFormats[m.type] = t0
      BY DEF tcpMessageFormats, Two
    <3> QED  BY <1>7, <3>1, <3>2
  <2>4. Layout(m, c) = t3
    BY <1>7 DEF Layout, Two
  <2> HIDE DEF t0, t1, t2, t3
  <2> QED  BY <2>1, <2>2, <2>3, <2>4
<1>8. CASE m.type = "JOIN"
  <2> DEFINE t0 == Two(H, "AS", Key("ChannelID"), Key("DisplayName"), Key("dl"))
             t1 == Two(H, "AS", c.channel, Key("DisplayName"), Key("dl"))
             t2 == Two(H, "AS", c.channel, m.author, Key("dl"))
             t3 == Two(H, "AS", c.channel, m.author, Delimiter)
  <2>0. Settled(Value("ChannelID", of)) /\ Settled(Value("DisplayName", of))
    BY <1>3, <1>8 DEF Used
  <2>1. Rounds(t0, of, t1) /\ Rounds(t1, of, t2) /\ Rounds(t2, of, t3) /\ Settled(t3)
    BY <1>2, <2>0, <1>4, <1>5, <1>6, TwoRounds
  <2>2. Stages(of) = {t0, t1, t2, t3}
    BY <1>8 DEF Stages
  <2>3. tcpMessageFormats[m.type] = t0
    BY <1>8 DEF tcpMessageFormats, Two
  <2>4. Layout(m, c) = t3
    BY <1>8 DEF Layout, Two
  <2> HIDE DEF t0, t1, t2, t3
  <2> QED  BY <2>1, <2>2, <2>3, <2>4
<1>9. CASE m.type = "AUTH"
  <2> DEFINE T(x, y, u, z) == Three(H, "AS", "USING", x, y, u, z)
             t0 == T(Key("Username"), Key("DisplayName"), Key("Secret"), Key("dl"))
             t1 == T(c.username, Key("DisplayName"), Key("Secret"), Key("dl"))
             t2 == T(c.username, m.author, Key("Secret"), Key("dl"))
             t3 == T(c.username, m.author, c.secret, Key("dl"))
             t4 == T(c.username, m.author, c.secret, Delimiter)
  <2>0. /\ Settled(Value("Username", of)) /\ Settled(Value("DisplayName", of))
        /\ Settled(Value("Secret", of))
    BY <1>3, <1>9 DEF Used
  <2>1. /\ Rounds(t0, of, t1) /\ Rounds(t1, of, t2) /\ Rounds(t2, of, t3)
        /\ Rounds(t3, of, t4) /\ Settled(t4)
    BY <1>2, <2>0, <1>4, <1>5, <1>6, ThreeRounds
  <2>2. Stages(of) = {t0, t1, t2, t3, t4}
    BY <1>9 DEF Stages
  <2>3. tcpMessageFormats[m.type] = t0
    BY <1>9 DEF tcpMessageFormats, Three
  <2>4. Layout(m, c) = t4
    BY <1>9 DEF Layout, Three
  <2> HIDE DEF t0, t1, t2, t3, t4
  <2> QED  BY <2>1, <2>2, <2>3, <2>4
<1>10. CASE m.type = "BYE"
  <2> DEFINE t0 == One(H, Key("DisplayName"), Key("dl"))
             t1 == One(H, m.author, Key("dl"))
             t2 == One(H, m.author, Delimiter)
  <2>0. Settled(Value("DisplayName", of))
    BY <1>3, <1>10 DEF Used
  <2>1. Rounds(t0, of, t1) /\ Rounds(t1, of, t2) /\ Settled(t2)
    BY <1>2, <2>0, <1>4, <1>6, OneRounds
  <2>2. Stages(of) = {t0, t1, t2}
    BY <1>10 DEF Stages
  <2>3. tcpMessageFormats[m.type] = t0
    BY <1>10 DEF tcpMessageFormats, One
  <2>4. Layout(m, c) = t2
    BY <1>10 DEF Layout, One
  <2> HIDE DEF t0, t1, t2
  <2> QED  BY <2>1, <2>2, <2>3, <2>4
<1> QED  BY <1>1, <1>7, <1>8, <1>9, <1>10

-----------------------------------------------------------------------------
(* The types *)

\* Both groups of a match are texts.
LEMMA SplitTexts ==
    ASSUME NEW text \in Text, NEW w, NEW s \in Splits(text, w)
    PROVE  \E a \in Text, b \in Text : s = <<a, b>>
<1>1. PICK i \in 2 .. Len(text) - 3 :
        s = <<SubSeq(text, 1, i - 1), SubSeq(text, i + 3, Len(text))>>
  BY DEF Splits
<1>2. Len(text) \in Nat
  BY TextType
<1>3. /\ i - 1 \in Nat /\ i - 1 <= Len(text)
      /\ i + 2 \in Nat /\ i + 2 <= Len(text) /\ i + 2 + 1 = i + 3
  BY <1>2
<1>4. SubSeq(text, 1, i - 1) \in Text
  BY <1>3, Beginning
<1>5. SubSeq(text, i + 3, Len(text)) \in Text
  <2>1. SubSeq(text, i + 2 + 1, Len(text)) \in Text
    BY <1>3, Ending
  <2> QED  BY <1>3, <2>1
<1> QED  BY <1>1, <1>4, <1>5

\* What decode makes of any piece are texts of the piece.
LEMMA DecodedType ==
    ASSUME NEW piece \in Text, NEW m \in Decoded(piece)
    PROVE  m \in MessagesOf(Headers)
<1>1. PICK line \in LineOf(piece) :
        \E t \in {u \in DOMAIN Header : IsPrefix(Header[u], line)} :
          \E g \in Groups(t, SubSeq(line, Len(Header[t]) + 1, Len(line))) :
            m = Extracted(t, g)
  BY DecodedFrom
<1>2. line \in Text
  <2>1. PICK i \in 1 .. Len(piece) - 1 : line = SubSeq(piece, 1, i - 1)
    BY DEF LineOf
  <2>2. Len(piece) \in Nat
    BY TextType
  <2>3. i - 1 \in Nat /\ i - 1 <= Len(piece)
    BY <2>2
  <2> QED  BY <2>1, <2>3, Beginning
<1>3. PICK t \in {u \in DOMAIN Header : IsPrefix(Header[u], line)} :
        \E g \in Groups(t, SubSeq(line, Len(Header[t]) + 1, Len(line))) : m = Extracted(t, g)
  BY <1>1
<1> DEFINE body == SubSeq(line, Len(Header[t]) + 1, Len(line))
<1>4. PICK g \in Groups(t, body) : m = Extracted(t, g)
  BY <1>3
<1>5. t \in Headers /\ Len(Header[t]) \in Nat /\ Len(Header[t]) <= Len(line)
  <2>1. t \in Headers /\ IsPrefix(Header[t], line)
    BY HeaderDomain
  <2> QED  BY <2>1, HeaderText DEF IsPrefix
<1>6. body \in Text
  BY <1>2, <1>5, Ending
<1> HIDE DEF body
<1>7. ASSUME NEW s, NEW w, s \in Splits(body, w) PROVE s[1] \in Text /\ s[2] \in Text
  <2>1. PICK a \in Text, b \in Text : s = <<a, b>>
    BY <1>6, <1>7, SplitTexts
  <2> QED  BY <2>1
<1>8. /\ <<>> \in Text
      /\ \A S : Greedy(S) \subseteq S
  BY DEF Greedy, Text
<1>9. CASE t \in {"ERR", "MSG"}
  <2>1. g \in Splits(body, "IS")
    BY <1>4, <1>8, <1>9 DEF Groups
  <2>2. m = [type |-> t, author |-> g[1], text |-> g[2], ok |-> FALSE]
    BY <1>4, <1>9 DEF Extracted
  <2> QED  BY <1>5, <1>7, <2>1, <2>2 DEF MessagesOf
<1>10. CASE t = "REPLY"
  <2>1. g \in {s \in Splits(body, "IS") : s[1] \in {<<"OK">>, <<"NOK">>}}
    BY <1>4, <1>8, <1>10 DEF Groups
  <2>2. m = [type |-> t, author |-> <<>>, text |-> g[2], ok |-> g[1] = <<"OK">>]
    BY <1>4, <1>10 DEF Extracted
  <2>3. (g[1] = <<"OK">>) \in BOOLEAN
    OBVIOUS
  <2>4. g[2] \in Text
    BY <1>7, <2>1
  <2> QED  BY <1>5, <1>8, <2>2, <2>3, <2>4 DEF MessagesOf
<1>11. CASE t = "AUTH"
  <2>1. g \in {s \in Splits(body, "AS") : Splits(s[2], "USING") # {}}
    BY <1>4, <1>8, <1>11 DEF Groups
  <2>2. m = [type |-> t, author |-> g[1], text |-> <<>>, ok |-> FALSE]
    BY <1>4, <1>11 DEF Extracted
  <2>3. g[1] \in Text
    BY <1>7, <2>1
  <2> QED  BY <1>5, <1>8, <2>2, <2>3 DEF MessagesOf
<1>12. CASE t = "JOIN"
  <2>1. g \in Splits(body, "AS")
    BY <1>4, <1>8, <1>12 DEF Groups
  <2>2. m = [type |-> t, author |-> g[2], text |-> <<>>, ok |-> FALSE]
    BY <1>4, <1>12 DEF Extracted
  <2> QED  BY <1>5, <1>7, <1>8, <2>1, <2>2 DEF MessagesOf
<1>13. CASE t = "BYE"
  <2>1. g \in IF body = <<>> THEN {} ELSE {<<body>>}
    BY <1>4, <1>13 DEF Groups
  <2>2. g = <<body>>
    BY <2>1
  <2>3. m = [type |-> t, author |-> g[1], text |-> <<>>, ok |-> FALSE]
    BY <1>4, <1>13 DEF Extracted
  <2> QED  BY <1>5, <1>6, <1>8, <2>2, <2>3 DEF MessagesOf
<1> QED  BY <1>5, <1>9, <1>10, <1>11, <1>12, <1>13 DEF Headers

ShortMessages == {m \in MessagesOf(Headers) : Short(m)}

\* What decode returns is delivered if setAuthor and setText took it.
LEMMA TakenOrThrown ==
    ASSUME NEW m \in MessagesOf(Headers)
    PROVE  TooLong(m) <=> ~Short(m)
<1>1. Len(m.author) \in Nat /\ Len(m.text) \in Nat
  <2>1. m.author \in Text /\ m.text \in Text
    BY DEF MessagesOf
  <2> QED  BY <2>1, TextType
<1>2. NameLimit \in Nat /\ TextLimit \in Nat
  BY WireAssumption
<1> QED  BY <1>1, <1>2 DEF TooLong, Short

Jobs == [phase : {"encoding", "done"}, of : Typed, text : Text]

\* The inductive type invariant.
WireType ==
    /\ job = Idle \/ job \in Jobs
    /\ stream \in Text
    /\ sent \in Seq(ServerMessages) /\ Len(sent) <= MaxMessages
    /\ delivered \in Seq(ShortMessages)
    /\ crashed \in BOOLEAN

\* The formats are texts.
LEMMA FormatText ==
    ASSUME NEW of \in Typed
    PROVE  tcpMessageFormats[of.message.type] \in Text
<1> DEFINE m == of.message
           H == Header[m.type]
<1>1. m.type \in {"ERR", "AUTH", "JOIN", "MSG", "BYE"}
  BY TypedAssumption DEF MessagesOf
<1>2. /\ Key("DisplayName") \in Text /\ Key("MessageContent") \in Text /\ Key("Username") \in Text
      /\ Key("Secret") \in Text /\ Key("ChannelID") \in Text /\ Key("dl") \in Text
  BY FixedSymbols, KeyText
<1>3. Divider("IS") \in Text /\ Divider("AS") \in Text /\ Divider("USING") \in Text
  BY FixedSymbols, DividerText
<1>4. H \in Text
  BY <1>1, HeaderText DEF Headers
<1>5. ASSUME NEW x \in Text, NEW d \in Text, NEW y \in Text, NEW z \in Text
      PROVE  ((x \o d) \o y) \o z \in Text
  BY Concat
<1>6. CASE m.type \in {"ERR", "MSG"}
  <2>1. tcpMessageFormats[m.type] =
          Two(H, "IS", Key("DisplayName"), Key("MessageContent"), Key("dl"))
    <3>1. m.type = "ERR" => tcpMessageFormats[m.type] =
                Two(H, "IS", Key("DisplayName"), Key("MessageContent"), Key("dl"))
      BY DEF tcpMessageFormats, Two
    <3>2. m.type = "MSG" => tcpMessageFormats[m.type] =
                Two(H, "IS", Key("DisplayName"), Key("MessageContent"), Key("dl"))
      BY DEF tcpMessageFormats, Two
    <3> QED  BY <1>6, <3>1, <3>2
  <2>2. H \o Key("DisplayName") \in Text
    BY <1>2, <1>4, Concat
  <2> QED  BY <1>2, <1>3, <1>5, <2>1, <2>2 DEF Two
<1>7. CASE m.type = "JOIN"
  <2>1. tcpMessageFormats[m.type] = Two(H, "AS", Key("ChannelID"), Key("DisplayName"), Key("dl"))
    BY <1>7 DEF tcpMessageFormats, Two
  <2>2. H \o Key("ChannelID") \in Text
    BY <1>2, <1>4, Concat
  <2> QED  BY <1>2, <1>3, <1>5, <2>1, <2>2 DEF Two
<1>8. CASE m.type = "AUTH"
  <2>1. tcpMessageFormats[m.type] =
          Three(H, "AS", "USING", Key("Username"), Key("DisplayName"), Key("Secret"), Key("dl"))
    BY <1>8 DEF tcpMessageFormats, Three
  <2>2. ((H \o Key("Username")) \o Divider("AS")) \o Key("DisplayName") \in Text
    BY <1>2, <1>3, <1>4, Concat
  <2> QED  BY <1>2, <1>3, <1>5, <2>1, <2>2 DEF Three
<1>9. CASE m.type = "BYE"
  <2>1. tcpMessageFormats[m.type] = One(H, Key("DisplayName"), Key("dl"))
    BY <1>9 DEF tcpMessageFormats, One
  <2> QED  BY <1>2, <1>4, <2>1, Concat DEF One
<1> QED  BY <1>1, <1>6, <1>7, <1>8, <1>9

\* So is every line of the server.
LEMMA SentLine ==
    ASSUME NEW m \in ServerMessages, NEW config
    PROVE  Layout(m, config) \in Text
<1>1. Layout(m, config) = Line(m) \o Delimiter /\ Line(m) \in Text
  BY LayoutLine, ServerMessage
<1> QED  BY <1>1, Concat, DelimiterText

\* A MSG that a client encodes is one that the server may pass on.
LEMMA RelayedMessage ==
    ASSUME NEW of \in Typed, of.message.type = "MSG"
    PROVE  of.message \in ServerMessages
<1>1. of.message \in MessagesOf({"ERR", "AUTH", "JOIN", "MSG", "BYE"}) /\ ~of.message.ok
  BY TypedAssumption
<1>2. of.message \in MessagesOf({"ERR", "REPLY", "MSG", "BYE"})
  BY <1>1 DEF MessagesOf
<1> QED  BY <1>1, <1>2 DEF ServerMessages

\* The server's own messages are such messages.
LEMMA AnnouncedMessage ==
    ASSUME NEW m \in Announced
    PROVE  m \in ServerMessages
BY AnnouncedAssumption DEF ServerMessages

\* The types hold in every state.
LEMMA WireTypeHolds == Spec => []WireType
<1>1. Init => WireType
  <2> SUFFICES ASSUME Init PROVE WireType
    OBVIOUS
  <2>1. <<>> \in Text /\ <<>> \in Seq(ServerMessages) /\ <<>> \in Seq(ShortMessages)
    BY DEF Text
  <2>2. Len(sent) <= MaxMessages
    BY WireAssumption DEF Init
  <2> QED  BY <2>1, <2>2 DEF Init, WireType
<1>2. WireType /\ [Next]_vars => WireType'
  <2> SUFFICES ASSUME WireType, [Next]_vars PROVE WireType'
    OBVIOUS
  <2>1. ASSUME NEW of \in Typed, Encode(of) PROVE WireType'
    <3>1. job' \in Jobs
      <4>1. job' = [phase |-> "encoding", of |-> of, text |-> tcpMessageFormats[of.message.type]]
        BY <2>1 DEF Encode
      <4>2. tcpMessageFormats[of.message.type] \in Text
        BY FormatText
      <4> HIDE DEF tcpMessageFormats
      <4> QED  BY <4>1, <4>2 DEF Jobs
    <3>2. UNCHANGED <<stream, sent, delivered, crashed>>
      BY <2>1 DEF Encode
    <3> QED  BY <3>1, <3>2 DEF WireType
  <2>2. ASSUME Substitute PROVE WireType'
    <3>1. /\ job.phase = "encoding" /\ ~Settled(job.text)
          /\ job' = [job EXCEPT !.text = Replaced(job.text, job.of)]
          /\ UNCHANGED <<stream, sent, delivered, crashed>>
      BY <2>2 DEF Substitute, Settled
    <3>2. job \in Jobs
      BY <3>1 DEF WireType, Idle
    <3>3. Replaced(job.text, job.of) \in Text
      <4>1. job.of \in Typed /\ job.text \in Text
        BY <3>2 DEF Jobs
      <4> QED  BY <3>1, <4>1, ReplacedText
    <3>4. job' \in Jobs
      BY <3>1, <3>2, <3>3 DEF Jobs
    <3> QED  BY <3>1, <3>4 DEF WireType
  <2>3. ASSUME SendOff PROVE WireType'
    <3>1. /\ job.phase = "encoding"
          /\ job' = [job EXCEPT !.phase = "done"]
          /\ UNCHANGED <<delivered, crashed>>
      BY <2>3 DEF SendOff
    <3>2. job \in Jobs
      BY <3>1 DEF WireType, Idle
    <3>3. job' \in Jobs
      BY <3>1, <3>2 DEF Jobs
    <3>4. CASE job.of.message.type = "MSG" /\ Len(sent) < MaxMessages
      <4>1. stream' = stream \o job.text /\ sent' = Append(sent, job.of.message)
        BY <2>3, <3>4 DEF SendOff
      <4>2. job.of \in Typed /\ job.text \in Text
        BY <3>2 DEF Jobs
      <4>3. job.of.message \in ServerMessages
        BY <3>4, <4>2, RelayedMessage
      <4>4. stream' \in Text
        BY <4>1, <4>2, Concat DEF WireType
      <4>5. sent' \in Seq(ServerMessages) /\ Len(sent') <= MaxMessages
        <5>1. sent \in Seq(ServerMessages) /\ Len(sent) \in Nat
          BY LenProperties DEF WireType
        <5>2. Append(sent, job.of.message) \in Seq(ServerMessages)
                /\ Len(Append(sent, job.of.message)) = Len(sent) + 1
          BY <4>3, <5>1, AppendProperties
        <5>3. MaxMessages \in Nat
          BY WireAssumption
        <5> QED  BY <3>4, <4>1, <5>1, <5>2, <5>3
      <4> QED  BY <3>1, <3>3, <4>4, <4>5 DEF WireType
    <3>5. CASE ~(job.of.message.type = "MSG" /\ Len(sent) < MaxMessages)
      <4>1. UNCHANGED <<stream, sent>>
        BY <2>3, <3>5 DEF SendOff
      <4> QED  BY <3>1, <3>3, <4>1 DEF WireType
    <3> QED  BY <3>4, <3>5
  <2>4. ASSUME NEW m \in Announced, Announce(m) PROVE WireType'
    <3>1. /\ Len(sent) < MaxMessages
          /\ stream' = stream \o Layout(m, NoConfig)
          /\ sent' = Append(sent, m)
          /\ UNCHANGED <<job, delivered, crashed>>
      BY <2>4 DEF Announce
    <3>2. m \in ServerMessages
      BY AnnouncedMessage
    <3>3. stream' \in Text
      BY <3>1, <3>2, SentLine, Concat DEF WireType
    <3>4. sent' \in Seq(ServerMessages) /\ Len(sent') <= MaxMessages
      <4>1. sent \in Seq(ServerMessages) /\ Len(sent) \in Nat
        BY LenProperties DEF WireType
      <4>2. Append(sent, m) \in Seq(ServerMessages) /\ Len(Append(sent, m)) = Len(sent) + 1
        BY <3>2, <4>1, AppendProperties
      <4>3. MaxMessages \in Nat
        BY WireAssumption
      <4> QED  BY <3>1, <4>1, <4>2, <4>3
    <3> QED  BY <3>1, <3>3, <3>4 DEF WireType
  <2>5. ASSUME NEW n \in 1 .. Len(stream), Receive(n) PROVE WireType'
    <3> DEFINE found == Decoded(SubSeq(stream, 1, n))
    <3>1. /\ stream' = SubSeq(stream, n + 1, Len(stream))
          /\ UNCHANGED <<job, sent>>
          /\ \/ UNCHANGED <<delivered, crashed>>
             \/ \E m \in found :
                  IF TooLong(m) THEN crashed' = TRUE /\ UNCHANGED delivered
                  ELSE delivered' = Append(delivered, m) /\ UNCHANGED crashed
      BY <2>5 DEF Receive
    <3>2. stream \in Text /\ Len(stream) \in Nat /\ n \in Nat /\ n <= Len(stream)
      <4>1. stream \in Text
        BY DEF WireType
      <4>2. Len(stream) \in Nat
        BY <4>1, TextType
      <4> QED  BY <4>1, <4>2
    <3>3. SubSeq(stream, 1, n) \in Text /\ stream' \in Text
      BY <3>1, <3>2, Beginning, Ending
    <3>4. \A m \in found : m \in MessagesOf(Headers)
      BY <3>3, DecodedType
    <3> HIDE DEF found
    <3>5. CASE UNCHANGED <<delivered, crashed>>
      BY <3>1, <3>3, <3>5 DEF WireType
    <3>6. ASSUME NEW m \in found,
                 IF TooLong(m) THEN crashed' = TRUE /\ UNCHANGED delivered
                 ELSE delivered' = Append(delivered, m) /\ UNCHANGED crashed
          PROVE  WireType'
      <4>1. CASE TooLong(m)
        BY <3>1, <3>3, <3>6, <4>1 DEF WireType
      <4>2. CASE ~TooLong(m)
        <5>1. m \in ShortMessages
          BY <3>4, <4>2, TakenOrThrown DEF ShortMessages
        <5>2. delivered' \in Seq(ShortMessages)
          BY <3>6, <4>2, <5>1, AppendProperties DEF WireType
        <5> QED  BY <3>1, <3>3, <3>6, <4>2, <5>2 DEF WireType
      <4> QED  BY <4>1, <4>2
    <3> QED  BY <3>1, <3>5, <3>6
  <2>6. CASE UNCHANGED vars
    BY <2>6 DEF vars, WireType
  <2> QED  BY <2>1, <2>2, <2>3, <2>4, <2>5, <2>6 DEF Next
<1> QED  BY <1>1, <1>2, PTL DEF Spec

\* Types and limits, whatever is encoded and however the stream is cut.
THEOREM TypeOKHolds == Spec => []TypeOK
<1>1. WireType => TypeOK
  <2> SUFFICES ASSUME WireType PROVE TypeOK
    OBVIOUS
  <2>1. job.phase \in {"idle", "encoding", "done"}
    BY DEF WireType, Jobs, Idle
  <2>2. ASSUME NEW i \in DOMAIN delivered
        PROVE  /\ delivered[i].type \in Headers
               /\ Len(delivered[i].author) <= NameLimit /\ Len(delivered[i].text) <= TextLimit
    <3>1. delivered[i] \in ShortMessages
      BY DEF WireType
    <3> QED  BY <3>1 DEF ShortMessages, Short, MessagesOf
  <2> QED  BY <2>1, <2>2 DEF TypeOK, WireType
<1> QED  BY <1>1, WireTypeHolds, PTL

\* The loop of an encode goes through the stages of its message.
Encoded ==
    job.phase # "idle" /\ UsesPlain(job.of)
    => /\ job.text \in Stages(job.of)
       /\ job.phase = "done" => Settled(job.text)

\* And so does that.
LEMMA EncodedHolds == Spec => []Encoded
<1>1. Init => Encoded
  BY DEF Init, Idle, Encoded
<1>2. WireType /\ Encoded /\ [Next]_vars => Encoded'
  <2> SUFFICES ASSUME WireType, Encoded, [Next]_vars PROVE Encoded'
    OBVIOUS
  <2>1. ASSUME NEW of \in Typed, Encode(of) PROVE Encoded'
    <3>1. job' = [phase |-> "encoding", of |-> of, text |-> tcpMessageFormats[of.message.type]]
      BY <2>1 DEF Encode
    <3>2. UsesPlain(of) => tcpMessageFormats[of.message.type] \in Stages(of)
      BY StagesFollow
    <3>3. job'.phase = "encoding" /\ job'.of = of /\ job'.text = tcpMessageFormats[of.message.type]
      BY <3>1
    <3>4. UsesPlain(job'.of) => job'.text \in Stages(job'.of)
      BY <3>2, <3>3
    <3>5. job'.phase # "done"
      BY <3>3
    <3> QED  BY <3>4, <3>5 DEF Encoded
  <2>2. ASSUME Substitute PROVE Encoded'
    <3>1. /\ job.phase = "encoding" /\ ~Settled(job.text)
          /\ job' = [job EXCEPT !.text = Replaced(job.text, job.of)]
      BY <2>2 DEF Substitute, Settled
    <3>2. job \in Jobs
      BY <3>1 DEF WireType, Idle
    <3>3. /\ job'.phase = "encoding" /\ job'.of = job.of
          /\ job'.text = Replaced(job.text, job.of)
      BY <3>1, <3>2 DEF Jobs
    <3>4. ASSUME UsesPlain(job.of) PROVE Replaced(job.text, job.of) \in Stages(job.of)
      <4>1. job.of \in Typed /\ job.text \in Stages(job.of)
        BY <3>1, <3>2, <3>4 DEF Jobs, Encoded
      <4>2. \E next \in Stages(job.of) : Rounds(job.text, job.of, next)
        BY <3>1, <3>4, <4>1, StagesFollow
      <4> QED  BY <4>2 DEF Rounds
    <3>5. UsesPlain(job'.of) => job'.text \in Stages(job'.of)
      BY <3>3, <3>4
    <3>6. job'.phase # "done"
      BY <3>3
    <3> QED  BY <3>5, <3>6 DEF Encoded
  <2>3. ASSUME SendOff PROVE Encoded'
    <3>1. /\ job.phase = "encoding" /\ Settled(job.text)
          /\ job' = [job EXCEPT !.phase = "done"]
      BY <2>3 DEF SendOff, Settled
    <3>2. job \in Jobs
      BY <3>1 DEF WireType, Idle
    <3>3. job'.of = job.of /\ job'.text = job.text
      BY <3>1, <3>2 DEF Jobs
    <3>4. UsesPlain(job'.of) => job'.text \in Stages(job'.of)
      BY <3>1, <3>3 DEF Encoded
    <3>5. Settled(job'.text)
      BY <3>1, <3>3
    <3> QED  BY <3>4, <3>5 DEF Encoded
  <2>4. CASE UNCHANGED job
    BY <2>4 DEF Encoded
  <2>5. ASSUME NEW m \in Announced, Announce(m) PROVE UNCHANGED job
    BY <2>5 DEF Announce
  <2>6. ASSUME NEW n \in 1 .. Len(stream), Receive(n) PROVE UNCHANGED job
    BY <2>6 DEF Receive
  <2>7. UNCHANGED vars => UNCHANGED job
    BY DEF vars
  <2> QED  BY <2>1, <2>2, <2>3, <2>4, <2>5, <2>6, <2>7 DEF Next
<1> QED  BY <1>1, <1>2, WireTypeHolds, PTL DEF Spec

\* The line of an encode is settled only when every place has its value.
LEMMA EncodedLine ==
    ASSUME NEW of \in Typed, UsesPlain(of), NEW text \in Stages(of), Settled(text)
    PROVE  text = Layout(of.message, of.config)
<1>1. \A next : ~Rounds(text, of, next)
  BY DEF Rounds
<1> QED  BY <1>1, StagesFollow

\* encode returns the line that the format describes, for all values of a message
\* and of the configuration that have no placeholder of their own.
THEOREM EncodesLineHolds == Spec => []EncodesLine
<1>1. WireType /\ Encoded => EncodesLine
  <2> SUFFICES ASSUME WireType, Encoded, job.phase = "done", Plain(job.of)
               PROVE  job.text = Layout(job.of.message, job.of.config)
    BY DEF EncodesLine
  <2>1. job.of \in Typed
    BY DEF WireType, Jobs, Idle
  <2>3. UsesPlain(job.of)
    BY <2>1, PlainUses
  <2>2. job.text \in Stages(job.of) /\ Settled(job.text)
    BY <2>3 DEF Encoded
  <2> QED  BY <2>1, <2>2, <2>3, EncodedLine
<1> QED  BY <1>1, WireTypeHolds, EncodedHolds, PTL

-----------------------------------------------------------------------------
(* Whole lines *)

\* A message with one reading can be read: no part is empty, none is too long.
LEMMA ReadOnce ==
    ASSUME NEW m \in ServerMessages, OneReading(m)
    PROVE  Clear(m) /\ Full(m) /\ Short(m) /\ ~TooLong(m)
<1>1. m.author \in Text /\ m.text \in Text /\ m \in MessagesOf(Headers)
  <2>1. m.author \in Text /\ m.text \in Text
    BY ServerMessage
  <2>2. m \in MessagesOf(Headers)
    BY DEF ServerMessages, MessagesOf, Headers
  <2> QED  BY <2>1, <2>2
<1>2. m.author \o m.text \in Text
  BY <1>1, Concat
<1>3. Short(m) /\ Full(m)
  BY DEF OneReading, Full
<1>4. Without(m.author, {"CR", "LF", "LB"}) /\ Without(m.text, {"CR", "LF", "LB"})
  <2>1. ~HasWord(m.author \o m.text, {"CR", "LF", "LB"})
    BY DEF OneReading
  <2> QED  BY <1>1, <1>2, <2>1, WithoutWord, ConcatWithout
<1>5. Without(m.author, Ends) /\ Without(m.text, Ends)
  BY <1>4 DEF Without, Ends
<1>6. m.type # "REPLY" => Without(m.author, {"IS"}) /\ Without(m.text, {"IS"})
  <2>1. m.type # "REPLY" => ~HasWord(m.author \o m.text, {"IS"})
    BY DEF OneReading
  <2> QED  BY <1>1, <1>2, <2>1, WithoutWord, ConcatWithout
<1>7. ~TooLong(m)
  BY <1>1, <1>3, TakenOrThrown
<1> QED  BY <1>3, <1>5, <1>6, <1>7 DEF Clear

\* A text is a prefix of it and the rest.
LEMMA PrefixAndRest ==
    ASSUME NEW a \in Text, NEW p \in Text, IsPrefix(a, p)
    PROVE  /\ Len(a) <= Len(p) /\ SubSeq(p, Len(a) + 1, Len(p)) \in Text
           /\ p = a \o SubSeq(p, Len(a) + 1, Len(p))
<1>1. Len(a) <= Len(p) /\ SubSeq(a, 1, Len(a)) = SubSeq(p, 1, Len(a))
  BY DEF IsPrefix
<1>2. SubSeq(a, 1, Len(a)) = a
  BY SubSeqFull DEF Text
<1>3. Len(a) \in Nat
  BY TextType
<1>4. p = SubSeq(p, 1, Len(a)) \o SubSeq(p, Len(a) + 1, Len(p))
  BY <1>1, <1>3, HeadTail
<1>5. SubSeq(p, Len(a) + 1, Len(p)) \in Text
  BY <1>1, <1>3, Ending
<1> QED  BY <1>1, <1>2, <1>4, <1>5

\* decode of a piece that is such a line and the beginning of another.
LEMMA OneDecoded ==
    ASSUME NEW m \in ServerMessages, OneReading(m), NEW piece \in Text,
           IsPrefix(Layout(m, NoConfig), piece),
           ~HasWord(SubSeq(piece, Len(Layout(m, NoConfig)) + 1, Len(piece)), {"CR", "LF"})
    PROVE  Decoded(piece) = {m} /\ Len(piece) > 0
<1> DEFINE line == Layout(m, NoConfig)
           rest == SubSeq(piece, Len(line) + 1, Len(piece))
<1>1. line = Line(m) \o Delimiter /\ Line(m) \in Text /\ line \in Text
  BY LayoutLine, ServerMessage, SentLine
<1>2. Len(line) <= Len(piece) /\ rest \in Text /\ piece = line \o rest
  BY <1>1, PrefixAndRest
<1>3. Without(rest, Ends)
  <2>1. ~HasWord(rest, Ends)
    BY DEF Ends
  <2> HIDE DEF rest
  <2> QED  BY <1>2, <2>1, WithoutWord
<1>4. Clear(m) /\ Full(m)
  BY ReadOnce
<1> HIDE DEF line, rest
<1>5. Decoded((Line(m) \o Delimiter) \o rest) = {m}
  BY <1>2, <1>3, <1>4, LineDecoded
<1>6. Len(line) = Len(Line(m)) + 2 /\ Len(Line(m)) \in Nat /\ Len(piece) \in Nat
  <2>1. Len(Line(m) \o Delimiter) = Len(Line(m)) + Len(Delimiter)
    BY <1>1, Concat, DelimiterText
  <2>2. Len(Line(m)) \in Nat /\ Len(piece) \in Nat
    BY <1>1, TextType
  <2> QED  BY <1>1, <2>1, <2>2, DelimiterText
<1>7. Len(piece) > 0
  BY <1>2, <1>6
<1> QED  BY <1>1, <1>2, <1>5, <1>7

\* A recv that returns nothing.
LEMMA EmptyPiece ==
    ASSUME NEW text \in Text, NEW n \in Int, n <= 0
    PROVE  SubSeq(text, 1, n) \in Text /\ Len(SubSeq(text, 1, n)) = 0
<1>1. Len(text) \in Nat
  BY TextType
<1>2. 1 \in Int /\ 1 <= 1 /\ n <= Len(text) /\ ~(1 <= n)
  BY <1>1
<1> QED  BY <1>2, Piece

\* Whatever was read before, and whatever has arrived of the next line, a whole
\* line of the server is delivered as the message it was made from.
THEOREM WholeLineDeliveredHolds == Spec => WholeLineDelivered
<1> DEFINE Hit(m) == LET line == Layout(m, NoConfig)
                         piece == SubSeq(stream, 1, Len(stream) - Len(stream'))
                     IN  /\ IsPrefix(line, piece) /\ OneReading(m)
                         /\ ~HasWord(SubSeq(piece, Len(line) + 1, Len(piece)), {"CR", "LF"})
<1>1. WireType /\ [Next]_vars =>
        [\A m \in Range(sent) :
           LET line == Layout(m, NoConfig)
               piece == SubSeq(stream, 1, Len(stream) - Len(stream'))
           IN  (/\ IsPrefix(line, piece) /\ OneReading(m)
                /\ ~HasWord(SubSeq(piece, Len(line) + 1, Len(piece)), {"CR", "LF"}))
               => delivered' = Append(delivered, m)]_vars
  <2> SUFFICES ASSUME WireType, Next, NEW m \in Range(sent), Hit(m)
               PROVE  delivered' = Append(delivered, m)
    OBVIOUS
  <2> DEFINE n == Len(stream) - Len(stream')
             piece == SubSeq(stream, 1, n)
  <2>1. m \in ServerMessages
    <3>1. sent \in Seq(ServerMessages)
      BY DEF WireType
    <3>2. PICK i \in DOMAIN sent : m = sent[i]
      BY DEF Range
    <3> QED  BY <3>1, <3>2
  <2>2. stream \in Text /\ Len(stream) \in Nat
    BY TextType DEF WireType
  <2>3. /\ IsPrefix(Layout(m, NoConfig), piece) /\ OneReading(m)
        /\ ~HasWord(SubSeq(piece, Len(Layout(m, NoConfig)) + 1, Len(piece)), {"CR", "LF"})
    OBVIOUS
  <2> HIDE DEF n, Hit
  <2>4. piece \in Text => Decoded(piece) = {m} /\ Len(piece) > 0
    BY <2>1, <2>3, OneDecoded
  <2>5. ~(n \in Int /\ n <= 0)
    BY <2>2, <2>4, EmptyPiece
  <2>6. ASSUME NEW text \in Text, stream' = stream \o text PROVE FALSE
    <3>1. Len(stream') = Len(stream) + Len(text) /\ Len(text) \in Nat
      BY <2>2, <2>6, Concat, TextType
    <3> QED  BY <2>2, <2>5, <3>1 DEF n
  <2>7. stream' # stream
    BY <2>2, <2>5 DEF n
  <2>8. ASSUME SendOff PROVE FALSE
    <3>1. job \in Jobs
      BY <2>8 DEF SendOff, WireType, Idle
    <3>2. stream' = stream \o job.text \/ stream' = stream
      BY <2>8 DEF SendOff
    <3>3. job.text \in Text
      BY <3>1 DEF Jobs
    <3> QED  BY <2>6, <2>7, <3>2, <3>3
  <2>9. ASSUME NEW a \in Announced, Announce(a) PROVE FALSE
    <3>1. stream' = stream \o Layout(a, NoConfig)
      BY <2>9 DEF Announce
    <3>2. Layout(a, NoConfig) \in Text
      BY AnnouncedMessage, SentLine
    <3> QED  BY <2>6, <3>1, <3>2
  <2>10. ASSUME NEW k \in 1 .. Len(stream), Receive(k)
         PROVE  delivered' = Append(delivered, m)
    <3>1. k \in Nat /\ k <= Len(stream)
      BY <2>2
    <3>2. stream' = SubSeq(stream, k + 1, Len(stream))
      BY <2>10 DEF Receive
    <3>3. Len(stream') = Len(stream) - k
      BY <2>2, <3>1, <3>2, Ending
    <3>4. n = k
      BY <2>2, <3>1, <3>3 DEF n
    <3>5. piece \in Text
      BY <2>2, <3>1, <3>4, Beginning
    <3>6. Decoded(SubSeq(stream, 1, k)) = {m}
      BY <2>4, <3>4, <3>5
    <3>7. ~TooLong(m)
      BY <2>1, <2>3, ReadOnce
    <3> HIDE DEF piece
    <3> QED  BY <2>10, <3>6, <3>7 DEF Receive
  <2> QED
    <3>1. \/ \E of \in Typed : Encode(of)
          \/ Substitute \/ SendOff
          \/ \E a \in Announced : Announce(a)
          \/ \E k \in 1 .. Len(stream) : Receive(k)
      BY DEF Next
    <3>2. (\E of \in Typed : Encode(of)) \/ Substitute => stream' = stream
      BY DEF Encode, Substitute
    <3> QED  BY <2>7, <2>8, <2>9, <2>10, <3>1, <3>2
<1> QED  BY <1>1, WireTypeHolds, PTL DEF Spec, WholeLineDelivered

=============================================================================
