------------------------- MODULE CommandLineProofs -------------------------
(***************************************************************************)
(* The option parser accepts exactly the command lines of the grammar, and *)
(* gives main what they say.  The lemmas are about the grammar, read an    *)
(* argument at a time; about the parts of the parser; and, for every       *)
(* action, that the parser still follows the command line, or has an error *)
(* where nothing can make it well formed any more.                         *)
(***************************************************************************)
EXTENDS CommandLine, SequenceLemmas

-----------------------------------------------------------------------------
(* The expanded command line *)

Elements == Arguments \cup {Gone, Deep}
Contents == [FileNames -> Seq(Elements)]

LEMMA ElementShapes ==
    ASSUME NEW a \in Elements
    PROVE  /\ a.shape \in {"at", "ddash", "long", "dash", "plain", "gone", "deep"}
           /\ a.shape \notin {"gone", "deep"} => a \in Arguments
           /\ a.shape = "at" => a.file \in FileNames
           /\ a.shape = "gone" => a = Gone
<1>1. CASE a \in Arguments
  BY <1>1, ArgumentsAssumption DEF FileNames
<1>2. CASE a \in {Gone, Deep}
  BY <1>2 DEF Gone, Deep
<1> QED  BY <1>1, <1>2 DEF Elements

LEMMA ArgumentSeqs ==
    /\ \A s \in Argvs : s \in Seq(Elements)
    /\ \A f \in DOMAIN Files : Files[f] \in Seq(Elements)
<1>1. \A s \in Seq(Arguments) : s \in Seq(Elements)
  <2> SUFFICES ASSUME NEW s \in Seq(Arguments) PROVE s \in Seq(Elements)
    OBVIOUS
  <2>1. Len(s) \in Nat /\ s \in [1 .. Len(s) -> Elements]
    BY LenProperties DEF Elements
  <2> QED  BY <2>1, IsSeq
<1>2. \A f \in DOMAIN Files : Files[f] \in Range(Files)
  BY DEF Range
<1> QED  BY <1>1, <1>2, ArgumentsAssumption

Substitution(content) == [a \in Elements |-> Replaced(a, content)]

LEMMA SpreadIsMapped ==
    ASSUME NEW content \in Contents
    PROVE  /\ Maps(Substitution(content), Elements, Elements)
           /\ \A s \in Seq(Elements) : Spread(s, content) = Mapped(Substitution(content), s)
           /\ \A a \in Elements : Substitution(content)[a] = Replaced(a, content)
<1>1. Gone \in Elements
  BY DEF Elements
<1>2. ASSUME NEW a \in Elements PROVE Replaced(a, content) \in Seq(Elements)
  <2>1. CASE a.shape = "at"
    <3>1. content[a.file] \in Seq(Elements)
      BY <2>1, ElementShapes DEF Contents
    <3>2. <<Gone>> \in Seq(Elements)
      BY <1>1
    <3>3. <<Gone>> \o content[a.file] \in Seq(Elements)
      BY <3>1, <3>2, Concat
    <3> QED  BY <2>1, <3>3 DEF Replaced
  <2>2. CASE a.shape # "at"
    <3>1. <<a>> \in Seq(Elements)
      OBVIOUS
    <3> QED  BY <2>2, <3>1 DEF Replaced
  <2> QED  BY <2>1, <2>2
<1>3. Maps(Substitution(content), Elements, Elements)
  BY <1>2 DEF Maps, Substitution
<1>4. ASSUME NEW a \in Elements PROVE Substitution(content)[a] = Replaced(a, content)
  BY DEF Substitution
<1>5. ASSUME NEW s \in Seq(Elements)
      PROVE  Spread(s, content) = Mapped(Substitution(content), s)
  <2>1. \A i \in DOMAIN s : s[i] \in Elements
    BY SeqType
  <2>2. [i \in DOMAIN s |-> Replaced(s[i], content)] = Images(Substitution(content), s)
    BY <1>4, <2>1 DEF Images
  <2> QED  BY <2>2 DEF Spread, Mapped
<1> QED  BY <1>3, <1>4, <1>5

LEMMA SpreadSeq ==
    ASSUME NEW content \in Contents, NEW s \in Seq(Elements)
    PROVE  Spread(s, content) \in Seq(Elements)
<1>1. Maps(Substitution(content), Elements, Elements)
         /\ Spread(s, content) = Mapped(Substitution(content), s)
  BY SpreadIsMapped
<1> QED  BY <1>1, MappedSeq

\* The innermost stream, an argument at a time.
LEMMA SpreadHead ==
    ASSUME NEW content \in Contents, NEW s \in Seq(Elements)
    PROVE  /\ s = <<>> => Spread(s, content) = <<>>
           /\ s # <<>> => Spread(s, content) =
                            Replaced(Head(s), content) \o Spread(Tail(s), content)
<1> DEFINE F == Substitution(content)
<1>1. /\ Maps(F, Elements, Elements)
      /\ \A t \in Seq(Elements) : Spread(t, content) = Mapped(F, t)
      /\ \A a \in Elements : F[a] = Replaced(a, content)
  BY SpreadIsMapped
<1> HIDE DEF F
<1>2. CASE s = <<>>
  <2>1. Gone \in Elements
    BY DEF Elements
  <2>2. Mapped(F, <<>>) = <<>>
    BY <1>1, <2>1, MappedSmall
  <2> QED  BY <1>1, <1>2, <2>2
<1>3. CASE s # <<>>
  <2> DEFINE a == Head(s)
             t == Tail(s)
  <2>1. a \in Elements /\ t \in Seq(Elements) /\ s = <<a>> \o t
    BY <1>3, HeadTail
  <2> HIDE DEF a, t
  <2>2. <<a>> \in Seq(Elements)
    BY <2>1
  <2>3. Mapped(F, <<a>> \o t) = Mapped(F, <<a>>) \o Mapped(F, t)
    <3>1. ASSUME NEW p \in Seq(Elements)
          PROVE  Mapped(F, p \o t) = Mapped(F, p) \o Mapped(F, t)
      BY <1>1, <2>1, MappedConcat
    <3> QED  BY <2>2, <3>1
  <2>4. Mapped(F, <<a>>) = Replaced(a, content)
    BY <1>1, <2>1, MappedSmall
  <2>5. Spread(s, content) = Replaced(a, content) \o Spread(t, content)
    BY <1>1, <2>1, <2>3, <2>4
  <2> QED  BY <1>3, <2>5 DEF a, t
<1> QED  BY <1>2, <1>3

LEMMA IncludedFacts ==
    /\ \A d \in 0 .. MaxIncludeDepth + 1 : Included[d] \in Contents
    /\ \A f \in FileNames : Included[0][f] = <<Deep>>
    /\ \A d \in 1 .. MaxIncludeDepth + 1 : \A f \in FileNames :
         Included[d][f] = IF f \notin DOMAIN Files THEN <<>>
                          ELSE Spread(Files[f], Included[d - 1])
<1> DEFINE n == MaxIncludeDepth + 1
           start == [f \in FileNames |-> <<Deep>>]
           Next1(c) == [f \in FileNames |-> IF f \notin DOMAIN Files THEN <<>>
                                            ELSE Spread(Files[f], c)]
           step == [x \in Contents \X (0 + 1 .. n) |-> Next1(x[1])]
           D(h) == h = [d \in 0 .. n |->
                          [f \in FileNames |-> IF d = 0 THEN <<Deep>>
                                               ELSE IF f \notin DOMAIN Files THEN <<>>
                                               ELSE Spread(Files[f], h[d - 1])]]
<1>1. n \in Nat /\ n \in Int /\ 0 \in Int /\ 0 <= n
  BY DepthAssumption
<1>2. start \in Contents
  <2>1. <<Deep>> \in Seq(Elements)
    BY DEF Elements
  <2> QED  BY <2>1 DEF Contents
<1>3. ASSUME NEW c \in Contents PROVE Next1(c) \in Contents
  <2>1. <<>> \in Seq(Elements)
    OBVIOUS
  <2>2. \A f \in DOMAIN Files : Spread(Files[f], c) \in Seq(Elements)
    BY ArgumentSeqs, SpreadSeq
  <2> QED  BY <2>1, <2>2 DEF Contents
<1>4. step \in [Contents \X (0 + 1 .. n) -> Contents]
  <2> HIDE DEF Next1
  <2> QED  BY <1>3
<1> HIDE DEF n, start, step, D, Next1
<1>5. PICK g : Recursive(g, 0, n, Contents, start, step)
  BY <1>1, <1>2, <1>4, Recursion
<1>6. /\ g \in [0 .. n -> Contents] /\ g[0] = start
      /\ \A d \in 0 + 1 .. n : g[d] = step[<<g[d - 1], d>>]
  BY <1>5 DEF Recursive
<1>7. ASSUME NEW d \in 1 .. n PROVE g[d] = Next1(g[d - 1])
  <2>1. d - 1 \in 0 .. n /\ d \in 0 + 1 .. n
    BY <1>1
  <2>2. <<g[d - 1], d>> \in Contents \X (0 + 1 .. n)
    BY <1>6, <2>1
  <2>3. step[<<g[d - 1], d>>] = Next1(g[d - 1])
    BY <2>2 DEF step
  <2> QED  BY <1>6, <2>1, <2>3
<1>8. D(g)
  <2> DEFINE e(d) == [f \in FileNames |-> IF d = 0 THEN <<Deep>>
                                          ELSE IF f \notin DOMAIN Files THEN <<>>
                                          ELSE Spread(Files[f], g[d - 1])]
  <2>1. ASSUME NEW d \in 0 .. n PROVE g[d] = e(d)
    <3>1. CASE d = 0
      BY <1>6, <3>1 DEF start
    <3>2. CASE d # 0
      <4>1. d \in 1 .. n
        BY <1>1, <3>2
      <4>2. e(d) = Next1(g[d - 1])
        BY <3>2 DEF Next1
      <4> QED  BY <1>7, <4>1, <4>2
    <3> QED  BY <3>1, <3>2
  <2>2. g = [d \in 0 .. n |-> g[d]]
    BY <1>6
  <2>3. g = [d \in 0 .. n |-> e(d)]
    <3> HIDE DEF e
    <3> QED  BY <2>1, <2>2
  <2> QED  BY <2>3 DEF D
<1>9. Included = CHOOSE h : D(h)
  BY DEF Included, D, n
<1>10. D(Included)
  BY <1>8, <1>9
<1>11. \A d \in 0 .. n : Included[d] =
           [f \in FileNames |-> IF d = 0 THEN <<Deep>>
                                ELSE IF f \notin DOMAIN Files THEN <<>>
                                ELSE Spread(Files[f], Included[d - 1])]
  <2> HIDE DEF Included
  <2> QED  BY <1>10 DEF D
<1>12. Included[0] = start
  BY <1>1, <1>11 DEF start
<1>13. ASSUME NEW d \in 1 .. n PROVE Included[d] = Next1(Included[d - 1])
  <2>1. d \in 0 .. n /\ d # 0
    BY <1>1
  <2> QED  BY <1>11, <2>1 DEF Next1
<1> DEFINE T == {d \in 0 .. n : Included[d] \in Contents}
<1>14. 0 \in T
  BY <1>1, <1>2, <1>12
<1>15. ASSUME NEW d \in 0 + 1 .. n, d - 1 \in T PROVE d \in T
  <2>1. d \in 1 .. n /\ d \in 0 .. n
    BY <1>1
  <2>2. Included[d - 1] \in Contents
    BY <1>15
  <2> QED  BY <1>3, <1>13, <2>1, <2>2
<1> HIDE DEF T
<1>16. \A d \in 0 .. n : d \in T
  BY <1>1, <1>14, <1>15, Induction
<1>17. \A d \in 0 .. n : Included[d] \in Contents
  BY <1>16 DEF T
<1>18. \A f \in FileNames : Included[0][f] = <<Deep>>
  BY <1>12 DEF start
<1>19. \A d \in 1 .. n : \A f \in FileNames :
         Included[d][f] = IF f \notin DOMAIN Files THEN <<>>
                          ELSE Spread(Files[f], Included[d - 1])
  BY <1>13 DEF Next1
<1> QED  BY <1>17, <1>18, <1>19 DEF n

-----------------------------------------------------------------------------
(* The body of the command line *)

Marks == [a \in Elements |-> IF a.shape = "gone" THEN <<>> ELSE <<a>>]

LEMMA StripIsMapped ==
    /\ Maps(Marks, Elements, Elements)
    /\ \A s \in Seq(Elements) : Strip(s) = Mapped(Marks, s)
<1>1. Maps(Marks, Elements, Elements)
  BY DEF Maps, Marks
<1>2. ASSUME NEW s \in Seq(Elements) PROVE Strip(s) = Mapped(Marks, s)
  <2>1. \A i \in DOMAIN s : s[i] \in Elements
    BY SeqType
  <2>2. [i \in DOMAIN s |-> IF s[i].shape = "gone" THEN <<>> ELSE <<s[i]>>]
           = Images(Marks, s)
    BY <2>1 DEF Images, Marks
  <2> QED  BY <2>2 DEF Strip, Mapped
<1> QED  BY <1>1, <1>2

LEMMA StripSeq ==
    ASSUME NEW s \in Seq(Elements) PROVE Strip(s) \in Seq(Elements)
BY StripIsMapped, MappedSeq

LEMMA StripConcat ==
    ASSUME NEW s \in Seq(Elements), NEW t \in Seq(Elements)
    PROVE  Strip(s \o t) = Strip(s) \o Strip(t)
<1>1. Strip(s \o t) = Mapped(Marks, s \o t)
  BY Concat, StripIsMapped
<1>2. Mapped(Marks, s \o t) = Mapped(Marks, s) \o Mapped(Marks, t)
  BY StripIsMapped, MappedConcat
<1> QED  BY <1>1, <1>2, StripIsMapped

LEMMA StripSmall ==
    ASSUME NEW a \in Elements
    PROVE  /\ Strip(<<>>) = <<>>
           /\ Strip(<<a>>) = IF a.shape = "gone" THEN <<>> ELSE <<a>>
<1>1. Mapped(Marks, <<>>) = <<>> /\ Mapped(Marks, <<a>>) = Marks[a]
  BY StripIsMapped, MappedSmall
<1>2. <<>> \in Seq(Elements) /\ <<a>> \in Seq(Elements)
  OBVIOUS
<1> QED  BY <1>1, <1>2, StripIsMapped DEF Marks

\* An element more.
LEMMA StripAppend ==
    ASSUME NEW s \in Seq(Elements), NEW a \in Elements
    PROVE  Strip(s \o <<a>>) = IF a.shape = "gone" THEN Strip(s) ELSE Strip(s) \o <<a>>
<1>1. <<a>> \in Seq(Elements)
  OBVIOUS
<1>2. Strip(s \o <<a>>) = Strip(s) \o Strip(<<a>>)
  BY <1>1, StripConcat
<1>3. Strip(s) \in Seq(Elements)
  BY StripSeq
<1>4. Strip(s) \o <<>> = Strip(s)
  BY <1>3
<1> QED  BY <1>2, <1>4, StripSmall

-----------------------------------------------------------------------------
(* The grammar, an argument at a time *)

LEMMA Kinds ==
    ASSUME NEW a \in Elements
    PROVE  /\ ~(IsStart(a) /\ IsWhole(a))
           /\ IsText(a) => ~IsStart(a) /\ ~IsWhole(a)
           /\ a.shape \in {"at", "ddash", "gone", "deep"} =>
                ~IsStart(a) /\ ~IsWhole(a) /\ ~IsText(a)
           /\ a.shape = "plain" => IsText(a)
           /\ IsWhole(a) => a.shape = "long"
           /\ a.shape = "long" => ~IsText(a)
           /\ IsStart(a) \/ IsWhole(a) => OptionOf(a) \in Options
<1>1. FindOption("") = {}
  <2>1. /\ Options = {"protocol", "hostname", "port", "retransmissions", "timeout"}
        /\ Names.protocol = {"--protocol", "-t"} /\ Names.hostname = {"--hostname", "-s"}
        /\ Names.port = {"--port", "-p"} /\ Names.timeout = {"--timeout", "-d"}
        /\ Names.retransmissions = {"--retransmissions", "-r"}
    BY DEF Options, Names
  <2>2. ASSUME NEW o \in Options PROVE "" \notin Names[o]
    <3>1. CASE o = "protocol"
      BY <2>1, <3>1
    <3>2. CASE o = "hostname"
      BY <2>1, <3>2
    <3>3. CASE o = "port"
      BY <2>1, <3>3
    <3>4. CASE o = "retransmissions"
      BY <2>1, <3>4
    <3>5. CASE o = "timeout"
      BY <2>1, <3>5
    <3> QED  BY <2>1, <3>1, <3>2, <3>3, <3>4, <3>5
  <2> QED  BY <2>2 DEF FindOption
<1>2. ASSUME a.shape \in {"at", "ddash", "gone", "deep", "plain"}
      PROVE  ~IsStart(a) /\ ~IsWhole(a)
  BY <1>1, <1>2 DEF IsStart, IsWhole, NameOf
<1>3. ASSUME a.shape = "dash", a.numeric PROVE ~IsStart(a) /\ ~IsWhole(a)
  <2>1. a \in Arguments
    BY <1>3, ElementShapes
  <2>2. FindOption(a.names[1]) = {}
    BY <1>3, <2>1, ArgumentsAssumption
  <2> QED  BY <1>1, <1>3, <2>2 DEF IsStart, IsWhole, NameOf
<1>4. IsStart(a) \/ IsWhole(a) => OptionOf(a) \in Options
  <2>1. FindOption(NameOf(a)) \subseteq Options
    BY DEF FindOption
  <2>2. FindOption(NameOf(a)) # {} => OptionOf(a) \in FindOption(NameOf(a))
    BY DEF OptionOf
  <2> QED  BY <2>1, <2>2 DEF IsStart, IsWhole
<1>5. ~(IsStart(a) /\ IsWhole(a)) /\ (IsWhole(a) => a.shape = "long")
  BY DEF IsStart, IsWhole
<1>6. /\ IsText(a) <=> a.shape = "plain" \/ (a.shape = "dash" /\ a.numeric)
      /\ a.shape \in {"at", "ddash", "gone", "deep"} => ~IsText(a)
  BY DEF IsText
<1> QED  BY <1>2, <1>3, <1>4, <1>5, <1>6

\* An option that waits for its value, at the end of what is read.
Pending(b) == b # <<>> /\ IsStart(b[Len(b)])

\* The place of an argument, when its value may still follow; the assignments
\* that are complete; and what may become a command line that is well formed.
Fits(b, i) ==
    \/ IsWhole(b[i])
    \/ IsStart(b[i]) /\ (i < Len(b) => IsText(b[i + 1]))
    \/ IsText(b[i]) /\ i > 1 /\ IsStart(b[i - 1])
Made(b) == {i \in DOMAIN b : IsWhole(b[i]) \/ (IsStart(b[i]) /\ i < Len(b))}
Sound(b) ==
    /\ \A i \in DOMAIN b : Fits(b, i)
    /\ \A i \in Made(b) : Valid(OptionOf(b[i]), TextAt(b, i))

LEMMA WellFormedIsSound ==
    ASSUME NEW b \in Seq(Elements)
    PROVE  /\ ~Pending(b) => Made(b) = Assignments(b)
           /\ WellFormed(b) <=> /\ Sound(b) /\ ~Pending(b)
                                /\ Required \subseteq {OptionOf(b[i]) : i \in Made(b)}
<1>1. /\ Len(b) \in Nat /\ DOMAIN b = 1 .. Len(b) /\ (b = <<>> <=> Len(b) = 0)
      /\ \A i \in DOMAIN b : b[i] \in Elements
  BY SeqType
<1>2. ASSUME ~Pending(b) PROVE Made(b) = Assignments(b)
  <2>1. \A i \in DOMAIN b : IsStart(b[i]) => i < Len(b)
    BY <1>1, <1>2 DEF Pending
  <2> QED  BY <2>1 DEF Made, Assignments
<1>3. ASSUME NEW i \in DOMAIN b, ~Pending(b)
      PROVE  Fits(b, i) <=> \/ IsWhole(b[i])
                            \/ IsStart(b[i]) /\ i < Len(b) /\ IsText(b[i + 1])
                            \/ IsText(b[i]) /\ i > 1 /\ IsStart(b[i - 1])
  <2>1. IsStart(b[i]) => i < Len(b)
    BY <1>1, <1>3 DEF Pending
  <2> QED  BY <2>1 DEF Fits
<1>4. ASSUME Pending(b) PROVE ~WellFormed(b)
  <2> DEFINE n == Len(b)
  <2>1. n \in DOMAIN b /\ IsStart(b[n]) /\ ~(n < Len(b)) /\ b[n] \in Elements
    BY <1>1, <1>4 DEF Pending
  <2>2. ~IsWhole(b[n]) /\ ~IsText(b[n])
    BY <2>1, Kinds
  <2> HIDE DEF n
  <2> QED  BY <2>1, <2>2 DEF WellFormed
<1>5. ASSUME ~Pending(b)
      PROVE  WellFormed(b) <=> /\ Sound(b) /\ ~Pending(b)
                               /\ Required \subseteq {OptionOf(b[i]) : i \in Made(b)}
  <2>1. Made(b) = Assignments(b)
    BY <1>2, <1>5
  <2>2. (\A i \in DOMAIN b : Fits(b, i)) <=>
           \A i \in DOMAIN b : \/ IsWhole(b[i])
                               \/ IsStart(b[i]) /\ i < Len(b) /\ IsText(b[i + 1])
                               \/ IsText(b[i]) /\ i > 1 /\ IsStart(b[i - 1])
    BY <1>3, <1>5
  <2> QED  BY <1>5, <2>1, <2>2 DEF WellFormed, Sound
<1> QED  BY <1>2, <1>4, <1>5

\* Nothing that follows mends what does not fit, or a value that is not valid.
LEMMA SoundPrefix ==
    ASSUME NEW b \in Seq(Elements), NEW t \in Seq(Elements), Sound(b \o t)
    PROVE  Sound(b)
<1> DEFINE c == b \o t
<1>1. /\ c \in Seq(Elements) /\ Len(c) = Len(b) + Len(t)
      /\ \A i \in 1 .. Len(b) : c[i] = b[i]
  BY Concat
<1>2. /\ Len(b) \in Nat /\ DOMAIN b = 1 .. Len(b) /\ Len(t) \in Nat
      /\ DOMAIN c = 1 .. Len(c)
  BY <1>1, SeqType
<1>3. Sound(c)
  OBVIOUS
<1> HIDE DEF c
<1>4. ASSUME NEW i \in DOMAIN b PROVE Fits(b, i)
  <2>1. Fits(c, i) /\ c[i] = b[i]
    BY <1>1, <1>2, <1>3 DEF Sound
  <2>2. i < Len(b) => i < Len(c) /\ c[i + 1] = b[i + 1]
    BY <1>1, <1>2
  <2>3. i > 1 => c[i - 1] = b[i - 1]
    BY <1>1, <1>2
  <2> QED  BY <2>1, <2>2, <2>3 DEF Fits
<1>5. ASSUME NEW i \in Made(b) PROVE Valid(OptionOf(b[i]), TextAt(b, i))
  <2>1. i \in DOMAIN b /\ (IsWhole(b[i]) \/ (IsStart(b[i]) /\ i < Len(b)))
    BY DEF Made
  <2>2. c[i] = b[i] /\ i \in DOMAIN c /\ (i < Len(b) => i < Len(c) /\ c[i + 1] = b[i + 1])
    BY <1>1, <1>2, <2>1
  <2>3. i \in Made(c)
    BY <2>1, <2>2 DEF Made
  <2>4. TextAt(c, i) = TextAt(b, i)
    BY <2>1, <2>2 DEF TextAt
  <2> QED  BY <1>3, <2>2, <2>3, <2>4 DEF Sound
<1> QED  BY <1>4, <1>5 DEF Sound

\* "--" counts only in front of something.
LEMMA BodyAppend ==
    ASSUME NEW s \in Seq(Elements), NEW z \in Elements
    PROVE  Body(s \o <<z>>) = IF z.shape = "ddash" THEN Strip(s) ELSE Strip(s \o <<z>>)
<1> DEFINE u == s \o <<z>>
<1>1. <<z>> \in Seq(Elements) /\ Len(<<z>>) = 1
  OBVIOUS
<1>2. u \in Seq(Elements) /\ Len(u) = Len(s) + 1 /\ u[Len(s) + 1] = z
         /\ \A i \in 1 .. Len(s) : u[i] = s[i]
  BY <1>1
<1>3. Len(s) \in Nat
  BY SeqType
<1> HIDE DEF u
<1>4. u # <<>> /\ Last(u) = z
  BY <1>2, <1>3 DEF Last
<1>5. Front(u) = s
  <2>1. Front(u) = SubSeq(u, 1, Len(s))
    BY <1>2, <1>3 DEF Front
  <2> DEFINE f == SubSeq(u, 1, Len(s))
  <2>2. 1 \in Int /\ Len(s) \in Int /\ 1 <= 1 /\ Len(s) <= Len(u)
    BY <1>2, <1>3
  <2>3. /\ f \in Seq(Elements) /\ Len(f) = (IF 1 <= Len(s) THEN Len(s) - 1 + 1 ELSE 0)
        /\ \A i \in 1 .. Len(s) - 1 + 1 : f[i] = u[1 + i - 1]
    BY <1>2, <2>2, Piece
  <2> HIDE DEF f
  <2>4. Len(f) = Len(s)
    BY <1>3, <2>3
  <2>5. \A i \in 1 .. Len(f) : f[i] = s[i]
    BY <1>2, <1>3, <2>3, <2>4
  <2>6. f = s
    BY <2>3, <2>4, <2>5, Equal
  <2> QED  BY <2>1, <2>6 DEF f
<1> QED  BY <1>4, <1>5 DEF Body, u

\* What has become hopeless stays so, whatever follows.
LEMMA Hopeless ==
    ASSUME NEW s \in Seq(Elements), NEW a \in Elements, NEW t \in Seq(Elements),
           ~Sound(Strip(s \o <<a>>)), a.shape # "ddash" \/ t # <<>>
    PROVE  ~WellFormed(Body((s \o <<a>>) \o t))
<1> DEFINE c == s \o <<a>>
<1>1. <<a>> \in Seq(Elements)
  OBVIOUS
<1>2. c \in Seq(Elements)
  BY <1>1, Concat
<1>3. ~Sound(Strip(c)) /\ Strip(c) \in Seq(Elements)
  BY <1>2, StripSeq
<1>4. ASSUME NEW u \in Seq(Elements) PROVE ~WellFormed(Strip(c \o u))
  <2>1. Strip(c \o u) = Strip(c) \o Strip(u) /\ Strip(u) \in Seq(Elements)
    BY <1>2, StripConcat, StripSeq
  <2>2. ~Sound(Strip(c) \o Strip(u))
    BY <1>3, <2>1, SoundPrefix
  <2>3. Strip(c) \o Strip(u) \in Seq(Elements)
    BY <1>3, <2>1, Concat
  <2> QED  BY <2>1, <2>2, <2>3, WellFormedIsSound
<1>5. CASE t = <<>>
  <2>1. a.shape # "ddash"
    BY <1>5
  <2>2. Body(c) = Strip(c)
    BY <2>1, BodyAppend
  <2>3. c \o t = c
    BY <1>2, <1>5
  <2>4. ~WellFormed(Strip(c))
    BY <1>3, WellFormedIsSound
  <2> QED  BY <2>2, <2>3, <2>4
<1>6. CASE t # <<>>
  <2>1. PICK f \in Seq(Elements), z \in Elements : t = f \o <<z>>
    BY <1>6, FrontLast
  <2>2. <<z>> \in Seq(Elements)
    OBVIOUS
  <2> HIDE DEF c
  <2>3. c \o t = (c \o f) \o <<z>>
    <3>1. ASSUME NEW y \in Seq(Elements) PROVE (c \o f) \o y = c \o (f \o y)
      BY <1>2, Assoc
    <3> QED  BY <2>1, <2>2, <3>1
  <2>4. c \o f \in Seq(Elements)
    BY <1>2, Concat
  <2>5. Body(c \o t) = Strip(c \o f) \/ Body(c \o t) = Strip(c \o t)
    BY <2>3, <2>4, BodyAppend
  <2> QED  BY <1>4, <2>5 DEF c
<1> QED  BY <1>5, <1>6

\* The elements and the places of a sequence that is one longer.
LEMMA OneMore ==
    ASSUME NEW b \in Seq(Elements), NEW a \in Elements
    PROVE  /\ b \o <<a>> \in Seq(Elements) /\ Len(b \o <<a>>) = Len(b) + 1
           /\ Len(b) \in Nat /\ DOMAIN b = 1 .. Len(b) /\ (b = <<>> <=> Len(b) = 0)
           /\ DOMAIN (b \o <<a>>) = 1 .. Len(b) + 1
           /\ \A i \in 1 .. Len(b) : (b \o <<a>>)[i] = b[i] /\ b[i] \in Elements
           /\ (b \o <<a>>)[Len(b) + 1] = a
<1>1. <<a>> \in Seq(Elements) /\ Len(<<a>>) = 1 /\ <<a>>[1] = a
  OBVIOUS
<1>2. /\ b \o <<a>> \in Seq(Elements) /\ Len(b \o <<a>>) = Len(b) + 1
      /\ \A i \in 1 .. Len(b) : (b \o <<a>>)[i] = b[i]
      /\ (b \o <<a>>)[Len(b) + 1] = a
  BY <1>1
<1>3. /\ Len(b) \in Nat /\ DOMAIN b = 1 .. Len(b) /\ (b = <<>> <=> Len(b) = 0)
      /\ \A i \in 1 .. Len(b) : b[i] \in Elements
  BY SeqType
<1>4. DOMAIN (b \o <<a>>) = 1 .. Len(b) + 1
  <2> DEFINE c == b \o <<a>>
  <2>1. c \in Seq(Elements) /\ Len(c) = Len(b) + 1
    BY <1>2
  <2> HIDE DEF c
  <2>2. DOMAIN c = 1 .. Len(b) + 1
    BY <2>1, SeqType
  <2> QED  BY <2>2 DEF c
<1> QED  BY <1>2, <1>3, <1>4

\* What an argument adds: to the assignments, and to what waits for a value.
Adds(b, a, c) ==
    /\ c \in Seq(Elements) /\ Len(c) = Len(b) + 1 /\ c[Len(c)] = a
    /\ \A i \in Made(b) : /\ i \in Made(c) /\ c[i] = b[i] /\ i < Len(c)
                          /\ TextAt(c, i) = TextAt(b, i)
                          /\ (Pending(b) => i < Len(b))
    /\ Pending(c) <=> IsStart(a)
    /\ ~Pending(b) => Made(c) = Made(b) \cup (IF IsWhole(a) THEN {Len(c)} ELSE {})
    /\ Pending(b) => Made(c) = Made(b) \cup {Len(b)}
                                  \cup (IF IsWhole(a) THEN {Len(c)} ELSE {})
    /\ IsWhole(a) => TextAt(c, Len(c)) = a.arg
    /\ Pending(b) => TextAt(c, Len(b)) = a.text /\ c[Len(b)] = b[Len(b)]

LEMMA Appended ==
    ASSUME NEW b \in Seq(Elements), Sound(b), NEW a \in Elements
    PROVE  Adds(b, a, b \o <<a>>)
<1> DEFINE c == b \o <<a>>
<1> USE DEF Pending
<1> DEFINE n == Len(b)
<1>1. /\ c \in Seq(Elements) /\ Len(c) = n + 1
      /\ n \in Nat /\ DOMAIN b = 1 .. n /\ (b = <<>> <=> n = 0)
      /\ DOMAIN c = 1 .. n + 1
      /\ \A i \in 1 .. n : c[i] = b[i] /\ b[i] \in Elements
      /\ c[n + 1] = a
  BY OneMore
<1>2. c # <<>>
  BY <1>1, SeqType
<1> HIDE DEF n, c
<1>3. Pending(c) <=> IsStart(a)
  BY <1>1, <1>2
<1>4. Pending(b) => n \in 1 .. n /\ IsStart(b[n]) /\ ~IsWhole(b[n])
  BY <1>1, Kinds DEF n
<1>5. ASSUME NEW i \in Made(b)
      PROVE  /\ i \in Made(c) /\ c[i] = b[i] /\ i < Len(c)
             /\ TextAt(c, i) = TextAt(b, i) /\ (Pending(b) => i < Len(b))
  <2>1. i \in 1 .. n /\ (IsWhole(b[i]) \/ (IsStart(b[i]) /\ i < n))
    BY <1>1 DEF Made, n
  <2>2. c[i] = b[i] /\ i \in DOMAIN c /\ i < Len(c) /\ (i < n => c[i + 1] = b[i + 1])
    BY <1>1, <2>1
  <2>3. i \in Made(c)
    BY <2>1, <2>2 DEF Made
  <2>4. TextAt(c, i) = TextAt(b, i)
    BY <2>1, <2>2 DEF TextAt
  <2>5. Pending(b) => i < n
    BY <1>1, <1>4, <2>1
  <2> QED  BY <2>2, <2>3, <2>4, <2>5 DEF n
<1>6. Made(c) = Made(b) \cup (IF Pending(b) THEN {n} ELSE {})
                        \cup (IF IsWhole(a) THEN {n + 1} ELSE {})
  <2>1. ASSUME NEW i \in 1 .. n + 1
        PROVE  i \in Made(c) <=> \/ i \in Made(b)
                                 \/ Pending(b) /\ i = n
                                 \/ IsWhole(a) /\ i = n + 1
    <3>1. CASE i = n + 1
      <4>1. i \notin Made(b) /\ i # n /\ ~(i < Len(c)) /\ i \in DOMAIN c /\ c[i] = a
        BY <1>1, <3>1 DEF Made
      <4> QED  BY <3>1, <4>1 DEF Made
    <3>2. CASE i # n + 1
      <4>1. i \in 1 .. n /\ i \in DOMAIN b /\ i \in DOMAIN c /\ i < Len(c) /\ c[i] = b[i]
        BY <1>1, <3>2
      <4>2. i < n \/ i = n
        BY <1>1, <4>1
      <4>3. i \in Made(c) <=> IsWhole(b[i]) \/ IsStart(b[i])
        BY <4>1 DEF Made
      <4>4. i \in Made(b) <=> IsWhole(b[i]) \/ (IsStart(b[i]) /\ i < n)
        BY <4>1 DEF Made, n
      <4>5. i = n => (Pending(b) <=> IsStart(b[i])) /\ ~(i < n)
        BY <1>1, <4>1 DEF n
      <4> QED  BY <3>2, <4>2, <4>3, <4>4, <4>5
    <3> QED  BY <3>1, <3>2
  <2>2. Made(c) \subseteq 1 .. n + 1 /\ Made(b) \subseteq 1 .. n + 1
    BY <1>1 DEF Made
  <2>3. (Pending(b) => n \in 1 .. n + 1) /\ n + 1 \in 1 .. n + 1
    BY <1>1, <1>4
  <2> HIDE DEF Pending
  <2> QED  BY <2>1, <2>2, <2>3
<1>7. IsWhole(a) => TextAt(c, Len(c)) = a.arg
  BY <1>1 DEF TextAt
<1>8. Pending(b) => TextAt(c, n) = a.text /\ c[n] = b[n]
  BY <1>1, <1>4 DEF TextAt
<1> HIDE DEF Pending
<1>9. Adds(b, a, c)
  BY <1>1, <1>3, <1>5, <1>6, <1>7, <1>8 DEF n, Adds
<1> QED  BY <1>9 DEF c

LEMMA AppendedSound ==
    ASSUME NEW b \in Seq(Elements), Sound(b), NEW a \in Elements
    PROVE  /\ Sound(b \o <<a>>) =>
                \/ Pending(b) /\ IsText(a) /\ Valid(OptionOf(b[Len(b)]), a.text)
                \/ ~Pending(b) /\ IsStart(a)
                \/ ~Pending(b) /\ IsWhole(a) /\ Valid(OptionOf(a), a.arg)
           /\ \/ Pending(b) /\ IsText(a) /\ Valid(OptionOf(b[Len(b)]), a.text)
              \/ ~Pending(b) /\ IsStart(a)
              \/ ~Pending(b) /\ IsWhole(a) /\ Valid(OptionOf(a), a.arg)
              => Sound(b \o <<a>>)
<1> DEFINE n == Len(b)
           c == b \o <<a>>
<1>1. /\ c \in Seq(Elements) /\ Len(c) = n + 1
      /\ n \in Nat /\ DOMAIN b = 1 .. n /\ (b = <<>> <=> n = 0)
      /\ DOMAIN c = 1 .. n + 1
      /\ \A i \in 1 .. n : c[i] = b[i] /\ b[i] \in Elements
      /\ c[n + 1] = a
  BY OneMore
<1>2. /\ \A i \in Made(b) : i \in Made(c) /\ c[i] = b[i] /\ TextAt(c, i) = TextAt(b, i)
      /\ ~Pending(b) => Made(c) = Made(b) \cup (IF IsWhole(a) THEN {Len(c)} ELSE {})
      /\ Pending(b) => Made(c) = Made(b) \cup {Len(b)}
                                    \cup (IF IsWhole(a) THEN {Len(c)} ELSE {})
      /\ IsWhole(a) => TextAt(c, Len(c)) = a.arg
      /\ Pending(b) => TextAt(c, Len(b)) = a.text /\ c[Len(b)] = b[Len(b)]
  <2>1. Adds(b, a, b \o <<a>>)
    BY Appended
  <2> HIDE DEF c
  <2>2. Adds(b, a, c)
    BY <2>1 DEF c
  <2> QED  BY <2>2 DEF Adds
<1>3. Pending(b) <=> n \in 1 .. n /\ IsStart(b[n])
  BY <1>1 DEF Pending
<1> HIDE DEF c, n
<1>4. Fits(c, n + 1) <=> IsWhole(a) \/ IsStart(a) \/ (IsText(a) /\ Pending(b))
  <2>1. n + 1 > 1 /\ IsStart(c[n]) /\ n \in 1 .. n <=> Pending(b)
    BY <1>1, <1>3
  <2>2. n + 1 > 1 <=> n \in 1 .. n
    BY <1>1
  <2>3. (n + 1) - 1 = n /\ ~(n + 1 < n + 1)
    BY <1>1
  <2>4. Fits(c, n + 1) <=> IsWhole(a) \/ IsStart(a)
                             \/ (IsText(a) /\ n + 1 > 1 /\ IsStart(c[n]))
    BY <1>1, <2>3 DEF Fits
  <2> QED  BY <2>1, <2>2, <2>4
<1>5. ASSUME NEW i \in 1 .. n PROVE Fits(c, i) <=> (Pending(b) /\ i = n => IsText(a))
  <2>1. Fits(b, i) /\ c[i] = b[i] /\ b[i] \in Elements /\ i < Len(c)
    BY <1>1 DEF Sound
  <2>2. i > 1 => c[i - 1] = b[i - 1]
    BY <1>1
  <2>3. CASE i < n
    <3>1. c[i + 1] = b[i + 1] /\ i < n /\ i # n
      BY <1>1, <2>3
    <3>2. i < Len(b)
      BY <3>1 DEF n
    <3> QED  BY <2>1, <2>2, <3>1, <3>2 DEF Fits
  <2>4. CASE i = n
    <3>1. c[i + 1] = a /\ ~(i < Len(b)) /\ (Pending(b) <=> IsStart(b[i]))
      BY <1>1, <1>3, <2>4 DEF n
    <3>2. IsStart(b[i]) => ~IsWhole(b[i]) /\ ~IsText(b[i])
      BY <2>1, Kinds
    <3> QED  BY <2>1, <2>2, <2>4, <3>1, <3>2 DEF Fits
  <2>5. i < n \/ i = n
    BY <1>1
  <2> QED  BY <2>3, <2>4, <2>5
<1>6. (\A i \in DOMAIN c : Fits(c, i)) <=>
         \/ Pending(b) /\ IsText(a)
         \/ ~Pending(b) /\ (IsStart(a) \/ IsWhole(a))
  <2>1. IsText(a) => ~IsStart(a) /\ ~IsWhole(a)
    BY Kinds
  <2>2. DOMAIN c = 1 .. n \cup {n + 1}
    BY <1>1
  <2>3. (\A i \in 1 .. n : Fits(c, i)) <=> (Pending(b) => IsText(a))
    BY <1>3, <1>5
  <2> QED  BY <1>4, <2>1, <2>2, <2>3
<1>7. \A i \in Made(b) : Valid(OptionOf(c[i]), TextAt(c, i))
  BY <1>2 DEF Sound
<1>8. c[Len(c)] = a
  BY <1>1
<1>9. CASE Pending(b) /\ IsText(a)
  <2>1. ~IsWhole(a)
    BY <1>9, Kinds
  <2>2. Made(c) = Made(b) \cup {Len(b)}
    BY <1>2, <1>9, <2>1
  <2>3. Sound(c) <=> Valid(OptionOf(b[Len(b)]), a.text)
    BY <1>2, <1>6, <1>7, <1>9, <2>2 DEF Sound
  <2> QED  BY <1>9, <2>3 DEF c
<1>10. CASE ~Pending(b) /\ IsWhole(a)
  <2>1. Made(c) = Made(b) \cup {Len(c)} /\ ~IsStart(a)
    BY <1>2, <1>10, Kinds
  <2>2. Sound(c) <=> Valid(OptionOf(a), a.arg)
    BY <1>2, <1>6, <1>7, <1>8, <1>10, <2>1 DEF Sound
  <2> QED  BY <1>10, <2>1, <2>2 DEF c
<1>11. CASE ~Pending(b) /\ IsStart(a)
  <2>1. ~IsWhole(a)
    BY <1>11, Kinds
  <2>2. Made(c) = Made(b)
    BY <1>2, <1>11, <2>1
  <2>3. Sound(c)
    BY <1>6, <1>7, <1>11, <2>2 DEF Sound
  <2> QED  BY <1>11, <2>3 DEF c
<1>12. CASE ~(Pending(b) /\ IsText(a)) /\ ~(~Pending(b) /\ (IsStart(a) \/ IsWhole(a)))
  <2>1. ~Sound(c)
    BY <1>6, <1>12 DEF Sound
  <2> QED  BY <1>12, <2>1 DEF c
<1> QED  BY <1>9, <1>10, <1>11, <1>12

\* What the parser knows of the assignments so far: the options, and of each of
\* them the value that was given last.
Latest(b, i, o) ==
    i \in Made(b) /\ OptionOf(b[i]) = o /\ \A j \in Made(b) : OptionOf(b[j]) = o => j <= i
Known(b, assigned, targets) ==
    /\ assigned = {OptionOf(b[i]) : i \in Made(b)}
    /\ \A o \in assigned : \E i \in Made(b) :
         Latest(b, i, o) /\ targets[o] = Value(o, TextAt(b, i))

LEMMA KnownStart ==
    ASSUME NEW b \in Seq(Elements), Sound(b), NEW a \in Elements, ~Pending(b), IsStart(a),
           NEW assigned, NEW targets, Known(b, assigned, targets)
    PROVE  Known(b \o <<a>>, assigned, targets)
<1> DEFINE c == b \o <<a>>
<1>1. Adds(b, a, c)
  BY Appended
<1> HIDE DEF c
<1>2. ~IsWhole(a)
  BY Kinds
<1>3. Made(c) = Made(b)
  BY <1>1, <1>2 DEF Adds
<1>4. \A i \in Made(b) : c[i] = b[i] /\ TextAt(c, i) = TextAt(b, i)
  BY <1>1 DEF Adds
<1>5. \A i, o : Latest(b, i, o) => Latest(c, i, o)
  BY <1>3, <1>4 DEF Latest
<1>6. {OptionOf(c[i]) : i \in Made(c)} = {OptionOf(b[i]) : i \in Made(b)}
  BY <1>3, <1>4
<1>7. Known(c, assigned, targets)
  BY <1>3, <1>4, <1>5, <1>6 DEF Known
<1> QED  BY <1>7 DEF c

\* The argument that completes an assignment to an option.
Completes(b, a, o, text) ==
    \/ Pending(b) /\ IsText(a) /\ o = OptionOf(b[Len(b)]) /\ text = a.text
    \/ ~Pending(b) /\ IsWhole(a) /\ o = OptionOf(a) /\ text = a.arg

LEMMA KnownValue ==
    ASSUME NEW b \in Seq(Elements), Sound(b), NEW a \in Elements, NEW o, NEW text,
           Completes(b, a, o, text),
           NEW assigned, NEW targets, NEW set, Known(b, assigned, targets),
           set[o] = Value(o, text), \A x \in assigned : x # o => set[x] = targets[x]
    PROVE  Known(b \o <<a>>, assigned \cup {o}, set)
<1> DEFINE c == b \o <<a>>
           all == assigned \cup {o}
<1>1. Adds(b, a, c)
  BY Appended
<1> HIDE DEF c
<1>2. \E k : /\ Made(c) = Made(b) \cup {k} /\ OptionOf(c[k]) = o /\ TextAt(c, k) = text
             /\ k \in Int /\ \A i \in Made(b) : i \in Int /\ i < k
  <2>0. Len(b) \in Nat /\ Made(b) \subseteq 1 .. Len(b)
    BY SeqType DEF Made
  <2>1. CASE Pending(b) /\ IsText(a)
    <3>1. ~IsWhole(a)
      BY <2>1, Kinds
    <3>2. o = OptionOf(b[Len(b)]) /\ text = a.text
      BY <2>1 DEF Completes
    <3>3. /\ Made(c) = Made(b) \cup {Len(b)} /\ c[Len(b)] = b[Len(b)]
          /\ TextAt(c, Len(b)) = a.text /\ \A i \in Made(b) : i < Len(b)
      BY <1>1, <2>1, <3>1 DEF Adds
    <3> QED  BY <2>0, <3>2, <3>3
  <2>2. CASE ~Pending(b) /\ IsWhole(a)
    <3>2. o = OptionOf(a) /\ text = a.arg
      BY <2>2 DEF Completes
    <3>3. /\ Made(c) = Made(b) \cup {Len(c)} /\ c[Len(c)] = a /\ Len(c) = Len(b) + 1
          /\ TextAt(c, Len(c)) = a.arg
      BY <1>1, <2>2 DEF Adds
    <3>4. Len(c) \in Int /\ \A i \in Made(b) : i \in Int /\ i < Len(c)
      BY <2>0, <3>3
    <3> QED  BY <3>2, <3>3, <3>4
  <2> QED  BY <2>1, <2>2 DEF Completes
<1>3. PICK k : /\ Made(c) = Made(b) \cup {k} /\ OptionOf(c[k]) = o /\ TextAt(c, k) = text
               /\ k \in Int /\ \A i \in Made(b) : i \in Int /\ i < k
  BY <1>2
<1>4. \A i \in Made(b) : c[i] = b[i] /\ TextAt(c, i) = TextAt(b, i)
  BY <1>1 DEF Adds
<1>5. all = {OptionOf(c[i]) : i \in Made(c)}
  <2>1. assigned = {OptionOf(b[i]) : i \in Made(b)}
    BY DEF Known
  <2> QED  BY <1>3, <1>4, <2>1
<1>6. ASSUME NEW x \in all
      PROVE  \E i \in Made(c) : Latest(c, i, x) /\ set[x] = Value(x, TextAt(c, i))
  <2>1. CASE x = o
    <3>1. Latest(c, k, x)
      <4>1. \A j \in Made(c) : j <= k
        BY <1>3
      <4> QED  BY <1>3, <2>1, <4>1 DEF Latest
    <3> QED  BY <1>3, <2>1, <3>1
  <2>2. CASE x # o
    <3>1. PICK i \in Made(b) : Latest(b, i, x) /\ targets[x] = Value(x, TextAt(b, i))
      BY <2>2 DEF Known
    <3>2. Latest(c, i, x)
      BY <1>3, <1>4, <2>2, <3>1 DEF Latest
    <3>3. set[x] = targets[x]
      BY <2>2
    <3> QED  BY <1>3, <1>4, <3>1, <3>2, <3>3
  <2> QED  BY <2>1, <2>2
<1>7. Known(c, all, set)
  <2> HIDE DEF all
  <2> QED  BY <1>5, <1>6 DEF Known
<1> QED  BY <1>7 DEF c

\* At the end, that is what was given.
LEMMA KnownIsGiven ==
    ASSUME NEW b \in Seq(Elements), ~Pending(b),
           NEW assigned, NEW targets, Known(b, assigned, targets), NEW o
    PROVE  Given(b, o) = IF o \in assigned THEN targets[o] ELSE Absent[o]
<1> DEFINE at == {i \in Assignments(b) : OptionOf(b[i]) = o}
<1>1. Made(b) = Assignments(b)
  BY WellFormedIsSound
<1>2. at = {i \in Made(b) : OptionOf(b[i]) = o}
  BY <1>1
<1>3. o \in assigned <=> at # {}
  BY <1>2 DEF Known
<1>4. Given(b, o) = IF at = {} THEN Absent[o] ELSE Value(o, TextAt(b, Max(at)))
  BY DEF Given
<1> HIDE DEF at
<1>5. ASSUME o \in assigned PROVE targets[o] = Value(o, TextAt(b, Max(at)))
  <2>1. PICK i \in Made(b) : Latest(b, i, o) /\ targets[o] = Value(o, TextAt(b, i))
    BY <1>5 DEF Known
  <2>2. i \in at /\ \A j \in at : j <= i
    BY <1>2, <2>1 DEF Latest
  <2>3. at \subseteq Int
    <3>1. Len(b) \in Nat /\ Made(b) \subseteq 1 .. Len(b)
      BY SeqType DEF Made
    <3> QED  BY <1>2, <3>1
  <2>4. Max(at) = CHOOSE x \in at : \A y \in at : x >= y
    BY DEF Max
  <2>5. Max(at) \in at /\ \A y \in at : Max(at) >= y
    <3>1. i \in at /\ \A y \in at : i >= y
      BY <2>2, <2>3
    <3> QED  BY <2>4, <3>1
  <2>6. Max(at) = i
    <3> DEFINE m == Max(at)
    <3>1. m \in at /\ m >= i
      BY <2>2, <2>5
    <3> HIDE DEF m
    <3>2. m <= i /\ m \in Int /\ i \in Int
      BY <2>2, <2>3, <3>1
    <3>3. m = i
      BY <3>1, <3>2
    <3> QED  BY <3>3 DEF m
  <2> QED  BY <2>1, <2>6
<1> QED  BY <1>3, <1>4, <1>5

-----------------------------------------------------------------------------
(* What the frames still stand for *)

\* How deep files may still be nested in a frame.
Level(k) == MaxIncludeDepth + 2 - k

Rests(rest, frames) ==
    /\ rest \in [0 .. Len(frames) -> Seq(Elements)] /\ rest[0] = <<>>
    /\ \A k \in 1 .. Len(frames) :
         rest[k] = Spread(frames[k], Included[Level(k)]) \o rest[k - 1]

\* The innermost stream comes first, and the command line last.
Remains(frames, remaining) ==
    /\ frames \in Seq(Seq(Arguments))
    /\ \E rest : Rests(rest, frames) /\ remaining = rest[Len(frames)]

LEMMA ArgumentsAreElements ==
    ASSUME NEW s \in Seq(Arguments) PROVE s \in Seq(Elements)
<1>1. Len(s) \in Nat /\ s \in [1 .. Len(s) -> Elements]
  BY LenProperties DEF Elements
<1> QED  BY <1>1, IsSeq

LEMMA LevelRange ==
    ASSUME NEW k \in 1 .. MaxIncludeDepth + 2
    PROVE  /\ Level(k) \in 0 .. MaxIncludeDepth + 1 /\ Included[Level(k)] \in Contents
           /\ k <= MaxIncludeDepth + 1 =>
                Level(k) \in 1 .. MaxIncludeDepth + 1 /\ Level(k + 1) = Level(k) - 1
<1>1. Level(k) \in 0 .. MaxIncludeDepth + 1
  BY DepthAssumption DEF Level
<1>2. k <= MaxIncludeDepth + 1 =>
        Level(k) \in 1 .. MaxIncludeDepth + 1 /\ Level(k + 1) = Level(k) - 1
  BY DepthAssumption DEF Level
<1> QED  BY <1>1, <1>2, IncludedFacts

LEMMA RemainsNone ==
    /\ Remains(<<>>, <<>>)
    /\ \A remaining : Remains(<<>>, remaining) => remaining = <<>>
<1> DEFINE none == <<>>
<1>1. Len(none) = 0 /\ none \in Seq(Seq(Arguments)) /\ none \in Seq(Elements)
  OBVIOUS
<1> HIDE DEF none
<1>2. Rests([k \in 0 .. 0 |-> none], none)
  <2> DEFINE rest == [k \in 0 .. 0 |-> none]
  <2>1. rest \in [0 .. Len(none) -> Seq(Elements)] /\ rest[0] = none
    BY <1>1
  <2>2. \A k \in 1 .. Len(none) : FALSE
    BY <1>1
  <2> HIDE DEF rest
  <2>3. Rests(rest, none)
    BY <2>1, <2>2 DEF Rests, none
  <2> QED  BY <2>3 DEF rest
<1>3. [k \in 0 .. 0 |-> none][Len(none)] = none
  BY <1>1
<1>4. Remains(none, none)
  BY <1>1, <1>2, <1>3 DEF Remains
<1>5. \A remaining : Remains(none, remaining) => remaining = none
  BY <1>1 DEF Remains, Rests, none
<1> QED  BY <1>4, <1>5 DEF none

LEMMA RemainsSeq ==
    ASSUME NEW frames, NEW remaining, Remains(frames, remaining)
    PROVE  remaining \in Seq(Elements) /\ Len(frames) \in Nat
<1>1. frames \in Seq(Seq(Arguments))
  BY DEF Remains
<1>2. Len(frames) \in Nat
  BY <1>1
<1>3. Len(frames) \in 0 .. Len(frames)
  BY <1>2
<1> QED  BY <1>2, <1>3 DEF Remains, Rests

LEMMA RemainsPush ==
    ASSUME NEW frames, NEW remaining, Remains(frames, remaining), NEW s \in Seq(Arguments)
    PROVE  Remains(Append(frames, s),
                   Spread(s, Included[Level(Len(frames) + 1)]) \o remaining)
             \/ Len(frames) + 1 > MaxIncludeDepth + 2
<1> DEFINE n == Len(frames)
           new == Append(frames, s)
           front == Spread(s, Included[Level(n + 1)])
<1>1. frames \in Seq(Seq(Arguments)) /\ n \in Nat
  BY RemainsSeq DEF Remains
<1>2. /\ new \in Seq(Seq(Arguments)) /\ Len(new) = n + 1 /\ new[n + 1] = s
      /\ \A k \in 1 .. n : new[k] = frames[k]
  BY <1>1
<1>3. PICK rest : Rests(rest, frames) /\ remaining = rest[n]
  BY DEF Remains
<1>4. /\ rest \in [0 .. n -> Seq(Elements)] /\ rest[0] = <<>>
      /\ \A k \in 1 .. n : rest[k] = Spread(frames[k], Included[Level(k)]) \o rest[k - 1]
  BY <1>3 DEF Rests
<1> HIDE DEF new, n
<1> DEFINE longer == [k \in 0 .. n + 1 |-> IF k = n + 1 THEN front \o remaining
                                           ELSE rest[k]]
<1>5. CASE n + 1 <= MaxIncludeDepth + 2
  <2>1. n + 1 \in 1 .. MaxIncludeDepth + 2
    BY <1>1, <1>5, DepthAssumption
  <2>2. front \in Seq(Elements)
    <3>1. Included[Level(n + 1)] \in Contents
      BY <2>1, LevelRange
    <3> QED  BY <3>1, ArgumentsAreElements, SpreadSeq
  <2>3. remaining \in Seq(Elements)
    BY RemainsSeq
  <2>4. front \o remaining \in Seq(Elements)
    BY <2>2, <2>3, Concat
  <2> HIDE DEF front
  <2>5. longer \in [0 .. n + 1 -> Seq(Elements)]
    BY <1>1, <1>4, <2>4
  <2>6. /\ longer[0] = <<>> /\ longer[n + 1] = front \o remaining
        /\ \A k \in 0 .. n : longer[k] = rest[k]
    BY <1>1, <1>4
  <2> HIDE DEF longer
  <2>7. ASSUME NEW k \in 1 .. n + 1
        PROVE  longer[k] = Spread(new[k], Included[Level(k)]) \o longer[k - 1]
    <3>1. CASE k = n + 1
      <4>1. longer[k - 1] = remaining
        <5>1. k - 1 = n /\ n \in 0 .. n
          BY <1>1, <3>1
        <5> QED  BY <1>3, <2>6, <5>1 DEF n
      <4> QED  BY <1>2, <2>6, <3>1, <4>1 DEF front
    <3>2. CASE k # n + 1
      <4>1. k \in 1 .. n /\ k \in 0 .. n /\ k - 1 \in 0 .. n
        BY <1>1, <3>2
      <4> QED  BY <1>2, <1>4, <2>6, <4>1
    <3> QED  BY <3>1, <3>2
  <2>8. Rests(longer, new)
    BY <1>2, <2>5, <2>6, <2>7 DEF Rests
  <2>9. Remains(new, front \o remaining)
    BY <1>2, <2>6, <2>8 DEF Remains
  <2> QED  BY <2>9 DEF front, new, n
<1>6. CASE ~(n + 1 <= MaxIncludeDepth + 2)
  BY <1>1, <1>6, DepthAssumption DEF n
<1> QED  BY <1>5, <1>6

LEMMA RemainsPop ==
    ASSUME NEW frames, NEW remaining, Remains(frames, remaining), frames # <<>>,
           Len(frames) <= MaxIncludeDepth + 2
    PROVE  /\ frames \in Seq(Seq(Arguments)) /\ Last(frames) \in Seq(Arguments)
           /\ Len(frames) \in 1 .. MaxIncludeDepth + 2
           /\ Front(frames) \in Seq(Seq(Arguments)) /\ Len(Front(frames)) = Len(frames) - 1
           /\ \E outer : /\ Remains(Front(frames), outer)
                         /\ remaining = Spread(Last(frames), Included[Level(Len(frames))])
                                          \o outer
<1> DEFINE n == Len(frames)
           f == Front(frames)
<1>1. frames \in Seq(Seq(Arguments)) /\ n \in Nat
  BY RemainsSeq DEF Remains
<1>2. n # 0
  BY <1>1, SeqType
<1>3. /\ f \in Seq(Seq(Arguments)) /\ Len(f) = n - 1
      /\ \A k \in 1 .. n - 1 : f[k] = frames[k]
      /\ Last(frames) = frames[n] /\ Last(frames) \in Seq(Arguments)
  <2> DEFINE X == Seq(Arguments)
  <2>1. frames \in Seq(X)
    BY <1>1
  <2> HIDE DEF X
  <2>2. /\ f \in Seq(X) /\ Len(f) = n - 1
        /\ \A k \in 1 .. n - 1 : f[k] = frames[k]
        /\ Last(frames) = frames[n] /\ Last(frames) \in X
    BY <2>1, FrontAndLast
  <2> QED  BY <2>2 DEF X
<1>4. PICK rest : Rests(rest, frames) /\ remaining = rest[n]
  BY DEF Remains
<1>5. /\ rest \in [0 .. n -> Seq(Elements)] /\ rest[0] = <<>>
      /\ \A k \in 1 .. n : rest[k] = Spread(frames[k], Included[Level(k)]) \o rest[k - 1]
  BY <1>4 DEF Rests
<1> DEFINE shorter == [k \in 0 .. n - 1 |-> rest[k]]
<1> HIDE DEF n, f
<1>6. shorter \in [0 .. n - 1 -> Seq(Elements)] /\ shorter[0] = <<>>
         /\ \A k \in 0 .. n - 1 : shorter[k] = rest[k]
  BY <1>1, <1>2, <1>5
<1> HIDE DEF shorter
<1>7. ASSUME NEW k \in 1 .. n - 1
      PROVE  shorter[k] = Spread(f[k], Included[Level(k)]) \o shorter[k - 1]
  <2>1. k \in 1 .. n /\ k \in 0 .. n - 1 /\ k - 1 \in 0 .. n - 1
    BY <1>1
  <2> QED  BY <1>3, <1>5, <1>6, <2>1
<1>8. Rests(shorter, f)
  BY <1>3, <1>6, <1>7 DEF Rests
<1>9. Remains(f, shorter[n - 1])
  BY <1>3, <1>8 DEF Remains
<1>10. remaining = Spread(Last(frames), Included[Level(n)]) \o shorter[n - 1]
  <2>1. n \in 1 .. n /\ n - 1 \in 0 .. n - 1
    BY <1>1, <1>2
  <2> QED  BY <1>3, <1>4, <1>5, <1>6, <2>1
<1>11. n \in 1 .. MaxIncludeDepth + 2
  BY <1>1, <1>2, DepthAssumption DEF n
<1> QED  BY <1>1, <1>3, <1>9, <1>10, <1>11 DEF n, f

\* The head of the innermost stream is consumed.
Advanced(frames) == [frames EXCEPT ![Len(frames)] = Tail(@)]

LEMMA RemainsConsume ==
    ASSUME NEW frames, NEW remaining, Remains(frames, remaining), frames # <<>>,
           Len(frames) <= MaxIncludeDepth + 2, Last(frames) # <<>>,
           NEW new, new = Advanced(frames)
    PROVE  /\ Head(Last(frames)) \in Arguments /\ new # <<>> /\ Len(new) = Len(frames)
           /\ \E after : /\ Remains(new, after)
                         /\ remaining = Replaced(Head(Last(frames)),
                                                 Included[Level(Len(frames))]) \o after
<1> DEFINE n == Len(frames)
           f == Front(frames)
           s == Last(frames)
           a == Head(s)
           t == Tail(s)
           content == Included[Level(n)]
<1>1. /\ frames \in Seq(Seq(Arguments)) /\ s \in Seq(Arguments)
      /\ n \in 1 .. MaxIncludeDepth + 2
      /\ f \in Seq(Seq(Arguments)) /\ Len(f) = n - 1
  BY RemainsPop
<1>2. PICK outer : Remains(f, outer) /\ remaining = Spread(s, content) \o outer
  BY RemainsPop
<1>3. s # <<>>
  OBVIOUS
<1>4. \A k \in 1 .. n - 1 : f[k] = frames[k]
  <2> DEFINE X == Seq(Arguments)
  <2>1. frames \in Seq(X)
    BY <1>1
  <2> HIDE DEF X
  <2> QED  BY <2>1, FrontAndLast
<1>5. s = frames[n]
  BY DEF Last
<1> HIDE DEF n, f, s
<1>6. a \in Arguments /\ t \in Seq(Arguments)
  BY <1>1, <1>3, HeadTail
<1>7. content \in Contents
  BY <1>1, LevelRange
<1>8. s \in Seq(Elements) /\ t \in Seq(Elements) /\ a \in Elements
  BY <1>1, <1>6, ArgumentsAreElements DEF Elements
<1>9. Spread(s, content) = Replaced(a, content) \o Spread(t, content)
  BY <1>3, <1>7, <1>8, SpreadHead
<1>10. n \in Nat /\ n # 0 /\ n - 1 \in Nat /\ (n - 1) + 1 = n
  BY <1>1, DepthAssumption
<1> HIDE DEF a, t
<1>11. new = Append(f, t)
  <2> DEFINE g == Append(f, t)
  <2>1. /\ g \in Seq(Seq(Arguments)) /\ Len(g) = n /\ g[n] = t
        /\ \A k \in 1 .. n - 1 : g[k] = f[k]
    BY <1>1, <1>6, <1>10
  <2> HIDE DEF g
  <2>2. new = [frames EXCEPT ![n] = t]
    BY <1>5 DEF n, t, Advanced
  <2>3. DOMAIN frames = 1 .. n /\ Len(frames) = n
    BY <1>1 DEF n
  <2>4. DOMAIN new = 1 .. n /\ DOMAIN g = 1 .. n
    BY <2>1, <2>2, <2>3
  <2>5. ASSUME NEW k \in 1 .. n PROVE new[k] = g[k]
    <3>1. CASE k = n
      BY <2>1, <2>2, <2>3, <3>1
    <3>2. CASE k # n
      <4>1. k \in 1 .. n - 1
        BY <1>10, <3>2
      <4> QED  BY <1>4, <2>1, <2>2, <2>3, <3>2, <4>1
    <3> QED  BY <3>1, <3>2
  <2>6. new = [k \in 1 .. n |-> new[k]] /\ g = [k \in 1 .. n |-> g[k]]
    <3>1. new = [k \in DOMAIN new |-> new[k]]
      BY <2>2
    <3>2. g = [k \in DOMAIN g |-> g[k]]
      <4>1. g \in [1 .. Len(g) -> Seq(Arguments)]
        BY <2>1, LenProperties
      <4> QED  BY <4>1
    <3> QED  BY <2>4, <3>1, <3>2
  <2>7. new = g
    BY <2>5, <2>6
  <2> QED  BY <2>7 DEF g
<1>12. Len(new) = n /\ new # <<>>
  <2>1. new \in Seq(Seq(Arguments)) /\ Len(new) = n
    <3>1. Append(f, t) \in Seq(Seq(Arguments)) /\ Len(Append(f, t)) = n
      BY <1>1, <1>6, <1>10
    <3> QED  BY <1>11, <3>1
  <2> QED  BY <1>10, <2>1
<1> DEFINE after == Spread(t, content) \o outer
<1>13. Remains(new, after)
  <2>1. \/ Remains(Append(f, t), Spread(t, Included[Level(Len(f) + 1)]) \o outer)
        \/ Len(f) + 1 > MaxIncludeDepth + 2
    BY <1>2, <1>6, RemainsPush
  <2>2. Len(f) + 1 = n /\ ~(n > MaxIncludeDepth + 2)
    BY <1>1, <1>10, DepthAssumption
  <2> QED  BY <1>11, <2>1, <2>2
<1>14. remaining = Replaced(a, content) \o after
  <2>1. outer \in Seq(Elements)
    BY <1>2, RemainsSeq
  <2>2. Spread(t, content) \in Seq(Elements)
    BY <1>7, <1>8, SpreadSeq
  <2>3. Replaced(a, content) \in Seq(Elements)
    BY <1>7, <1>8, SpreadIsMapped DEF Maps
  <2>4. ASSUME NEW x \in Seq(Elements), NEW y \in Seq(Elements), NEW z \in Seq(Elements)
        PROVE  (x \o y) \o z = x \o (y \o z)
    BY Assoc
  <2>5. (Replaced(a, content) \o Spread(t, content)) \o outer =
          Replaced(a, content) \o (Spread(t, content) \o outer)
    BY <2>1, <2>2, <2>3, <2>4
  <2> QED  BY <1>2, <1>9, <2>5
<1> HIDE DEF after, content
<1>15. \E x : Remains(new, x) /\ remaining = Replaced(a, content) \o x
  BY <1>13, <1>14
<1> QED  BY <1>6, <1>12, <1>15 DEF n, s, a, content

-----------------------------------------------------------------------------
(* The parts of the parser *)

Fields == {"done", "frames", "ignoring", "group", "active", "current", "assigned",
           "targets", "errors", "ignored", "exit"}

\* What every part of the parser keeps: the frames are a sequence, whatever is
\* in them, the active option is one of main's, and so are the targets, each of
\* them in the range of its variable.
ParserType(p) ==
    /\ DOMAIN p = Fields
    /\ p.frames \in Seq(Range(p.frames))
    /\ p.active \in Options \cup {"none"}
    /\ p.current \in [Options -> Nat]
    /\ DOMAIN p.targets = Options
    /\ \A o \in DOMAIN Largest : p.targets[o] \in 0 .. Largest[o]

LEMMA OptionNames ==
    /\ Options = {"protocol", "hostname", "port", "retransmissions", "timeout"}
    /\ DOMAIN Largest = {"port", "retransmissions", "timeout"}
    /\ DOMAIN Absent = {"port", "retransmissions", "timeout"}
BY DEF Options, Names, Largest, Absent

\* The parser will not accept any more.
Bad(p) == p.errors # {} \/ p.ignored \/ p.exit

\* The fields that belong to the loop, and those that belong to the options.
SameLoop(p, q) ==
    /\ q.frames = p.frames /\ q.group = p.group /\ q.ignoring = p.ignoring
    /\ q.done = p.done /\ q.ignored = p.ignored
SameOptions(p, q) ==
    /\ q.active = p.active /\ q.current = p.current /\ q.assigned = p.assigned
    /\ q.targets = p.targets
    /\ q.errors = p.errors /\ q.ignored = p.ignored /\ q.exit = p.exit

LEMMA AddErrorKeeps ==
    ASSUME NEW p, ParserType(p), NEW code
    PROVE  /\ ParserType(AddError(p, code)) /\ SameLoop(p, AddError(p, code))
           /\ AddError(p, code).errors # {} /\ AddError(p, code).exit = p.exit
BY DEF ParserType, AddError, Fields, SameLoop

LEMMA RequestExitKeeps ==
    ASSUME NEW p, ParserType(p)
    PROVE  /\ ParserType(RequestExit(p)) /\ SameLoop(p, RequestExit(p))
           /\ RequestExit(p).exit
<1> DEFINE q == AddError(p, "EXIT_REQUESTED")
<1>1. ParserType(q) /\ SameLoop(p, q)
  BY AddErrorKeeps
<1>2. RequestExit(p) = [q EXCEPT !.exit = TRUE]
  BY DEF RequestExit
<1> HIDE DEF q
<1> QED  BY <1>1, <1>2 DEF ParserType, Fields, SameLoop

LEMMA CloseOptionKeeps ==
    ASSUME NEW p, ParserType(p)
    PROVE  /\ ParserType(CloseOption(p)) /\ SameLoop(p, CloseOption(p))
           /\ NeedsMoreArguments(p) => CloseOption(p).errors # {}
           /\ ~NeedsMoreArguments(p) => CloseOption(p) = [p EXCEPT !.active = "none"]
           /\ Bad(p) => Bad(CloseOption(p))
<1> DEFINE q == IF NeedsMoreArguments(p) THEN AddError(p, "MISSING_ARGUMENT") ELSE p
<1>1. /\ ParserType(q) /\ SameLoop(p, q) /\ q.exit = p.exit
      /\ NeedsMoreArguments(p) => q.errors # {}
      /\ ~NeedsMoreArguments(p) => q = p
  BY AddErrorKeeps DEF SameLoop
<1>2. CloseOption(p) = [q EXCEPT !.active = "none"]
  BY DEF CloseOption
<1> HIDE DEF q
<1>3. /\ ParserType(CloseOption(p)) /\ SameLoop(p, CloseOption(p))
      /\ CloseOption(p).errors = q.errors /\ CloseOption(p).exit = p.exit
      /\ CloseOption(p).ignored = p.ignored
  BY <1>1, <1>2 DEF ParserType, Fields, SameLoop
<1>4. Bad(p) => Bad(CloseOption(p))
  BY <1>1, <1>3 DEF Bad
<1> QED  BY <1>1, <1>2, <1>3, <1>4

LEMMA ValidIsConverted ==
    ASSUME NEW o \in Options, NEW text
    PROVE  /\ Valid(o, text) <=> Chosen(o, text) /\ Converted(o, text) # {}
           /\ Converted(o, text) # {} =>
                /\ (CHOOSE v \in Converted(o, text) : TRUE) = Value(o, text)
                /\ o \in DOMAIN Largest => Value(o, text) \in 0 .. Largest[o]
<1>1. CASE o \in DOMAIN Largest
  <2>1. Largest[o] \in Nat /\ o # "protocol"
    BY <1>1, OptionNames DEF Largest
  <2>2. Converted(o, text) = ParseInt(text, Largest[o]) /\ Value(o, text) = Literals[text]
    BY <1>1 DEF Converted, Value
  <2>3. CASE text \in DOMAIN Literals /\ Literals[text] <= Largest[o]
    <3>1. Literals[text] \in 0 .. Largest[o]
      BY <2>1, <2>3, LiteralsAssumption
    <3>2. Converted(o, text) = {Literals[text]}
      BY <2>2, <2>3 DEF ParseInt
    <3> QED  BY <1>1, <2>1, <2>2, <2>3, <3>1, <3>2 DEF Valid, Chosen
  <2>4. CASE ~(text \in DOMAIN Literals /\ Literals[text] <= Largest[o])
    <3>1. Converted(o, text) = {}
      BY <2>2, <2>4 DEF ParseInt
    <3>2. ~Valid(o, text)
      <4> SUFFICES ASSUME text \in DOMAIN Literals, Literals[text] \in 0 .. Largest[o]
                   PROVE  FALSE
        BY <1>1 DEF Valid
      <4> QED  BY <2>1, <2>4
    <3> QED  BY <3>1, <3>2
  <2> QED  BY <2>3, <2>4
<1>2. CASE o \notin DOMAIN Largest
  <2>1. Converted(o, text) = {text} /\ Value(o, text) = text
    BY <1>2 DEF Converted, Value
  <2>2. Valid(o, text) <=> Chosen(o, text)
    BY <1>2 DEF Valid, Chosen
  <2> QED  BY <1>2, <2>1, <2>2
<1> QED  BY <1>1, <1>2

\* A value that is valid becomes the value of the option, and any other an error.
Assigned(p, q, o, text) ==
    /\ q.current = [p.current EXCEPT ![o] = @ + 1] /\ q.assigned = p.assigned \cup {o}
    /\ q.targets = [p.targets EXCEPT ![o] = Value(o, text)]
    /\ q.errors = p.errors

LEMMA SetValueKeeps ==
    ASSUME NEW p, ParserType(p), NEW o \in Options, NEW text
    PROVE  /\ ParserType(SetValue(p, o, text)) /\ SameLoop(p, SetValue(p, o, text))
           /\ SetValue(p, o, text).active = p.active
           /\ SetValue(p, o, text).exit = p.exit
           /\ Valid(o, text) => Assigned(p, SetValue(p, o, text), o, text)
           /\ ~Valid(o, text) => SetValue(p, o, text).errors # {}
           /\ Bad(p) => Bad(SetValue(p, o, text))
<1> DEFINE counted == Counted(p, o, text)
           value == CHOOSE v \in Converted(o, text) : TRUE
           set == [counted EXCEPT !.targets[o] = value]
           q == SetValue(p, o, text)
<1>0. /\ Valid(o, text) <=> Chosen(o, text) /\ Converted(o, text) # {}
      /\ Converted(o, text) # {} =>
           /\ value = Value(o, text)
           /\ o \in DOMAIN Largest => Value(o, text) \in 0 .. Largest[o]
  BY ValidIsConverted
<1>1. /\ ParserType(counted) /\ counted.targets = p.targets /\ SameLoop(p, counted)
      /\ counted.active = p.active /\ counted.exit = p.exit /\ counted.errors = p.errors
      /\ counted.current = [p.current EXCEPT ![o] = @ + 1]
      /\ Chosen(o, text) => counted.assigned = p.assigned \cup {o}
  <2>1. [p.current EXCEPT ![o] = @ + 1] \in [Options -> Nat]
    BY DEF ParserType
  <2> QED  BY <2>1 DEF ParserType, Counted, Fields, SameLoop
<1>2. q = IF ~Chosen(o, text) THEN AddError(counted, "INVALID_CHOICE")
          ELSE IF Converted(o, text) = {} THEN AddError(counted, "CONVERSION_ERROR")
          ELSE set
  BY DEF SetValue
<1> HIDE DEF q, value
<1>3. CASE Valid(o, text)
  <2>1. q = set
    BY <1>0, <1>2, <1>3
  <2> HIDE DEF counted
  <2>2. /\ set.targets = [counted.targets EXCEPT ![o] = value] /\ DOMAIN set = Fields
        /\ SameLoop(counted, set) /\ set.active = counted.active
        /\ set.exit = counted.exit /\ set.errors = counted.errors
        /\ set.current = counted.current /\ set.assigned = counted.assigned
    BY <1>1 DEF ParserType, Fields, SameLoop
  <2> HIDE DEF set
  <2>3. ParserType(q)
    BY <1>0, <1>1, <1>3, <2>1, <2>2 DEF ParserType, SameLoop
  <2>4. Assigned(p, q, o, text)
    BY <1>0, <1>1, <1>3, <2>1, <2>2 DEF Assigned
  <2>5. SameLoop(p, q) /\ q.active = p.active /\ q.exit = p.exit /\ q.errors = p.errors
    BY <1>1, <2>1, <2>2 DEF SameLoop
  <2>6. Bad(p) => Bad(q)
    BY <2>5 DEF Bad, SameLoop
  <2> QED  BY <1>3, <2>3, <2>4, <2>5, <2>6 DEF q
<1>4. CASE ~Valid(o, text)
  <2> HIDE DEF counted, set
  <2>1. \E code : q = AddError(counted, code)
    BY <1>0, <1>2, <1>4
  <2>2. PICK code : q = AddError(counted, code)
    BY <2>1
  <2>3. ParserType(q) /\ SameLoop(counted, q) /\ q.errors # {} /\ q.exit = counted.exit
    BY <1>1, <2>2, AddErrorKeeps
  <2>4. q.active = counted.active
    BY <1>1, <2>2 DEF AddError, ParserType, Fields
  <2>5. SameLoop(p, q) /\ q.active = p.active /\ q.exit = p.exit
    BY <1>1, <2>3, <2>4 DEF SameLoop
  <2>6. Bad(q)
    BY <2>3 DEF Bad
  <2> QED  BY <1>4, <2>3, <2>5, <2>6 DEF q
<1> QED  BY <1>3, <1>4

LEMMA HelpIsNoOption ==
    ASSUME NEW name \in HelpNames PROVE FindOption(name) = {}
<1>1. /\ Options = {"protocol", "hostname", "port", "retransmissions", "timeout"}
      /\ Names.protocol = {"--protocol", "-t"} /\ Names.hostname = {"--hostname", "-s"}
      /\ Names.port = {"--port", "-p"} /\ Names.timeout = {"--timeout", "-d"}
      /\ Names.retransmissions = {"--retransmissions", "-r"}
      /\ name \in {"--help", "-h"}
  BY DEF Options, Names, HelpNames
<1>2. ASSUME NEW o \in Options PROVE name \notin Names[o]
  <2>1. CASE o = "protocol"
    BY <1>1, <2>1
  <2>2. CASE o = "hostname"
    BY <1>1, <2>2
  <2>3. CASE o = "port"
    BY <1>1, <2>3
  <2>4. CASE o = "retransmissions"
    BY <1>1, <2>4
  <2>5. CASE o = "timeout"
    BY <1>1, <2>5
  <2> QED  BY <1>1, <2>1, <2>2, <2>3, <2>4, <2>5
<1> QED  BY <1>2 DEF FindOption

\* An option begins, and waits for a value.
Begun(p, q, o) ==
    /\ q.active = o /\ q.current = [p.current EXCEPT ![o] = 0]
    /\ q.assigned = p.assigned /\ q.targets = p.targets
    /\ q.errors = p.errors /\ q.exit = p.exit

LEMMA StartOptionKeeps ==
    ASSUME NEW p, ParserType(p), NEW name, NEW arg
    PROVE  LET q == StartOption(p, name, arg)
               o == CHOOSE o \in FindOption(name) : TRUE
           IN  /\ ParserType(q) /\ SameLoop(p, q)
               /\ FindOption(name) = {} \/ NeedsMoreArguments(p) \/ Bad(p) => Bad(q)
               /\ FindOption(name) # {} /\ arg = "" =>
                    /\ q.active = o /\ o \in Options /\ q.current[o] = 0
                    /\ ~NeedsMoreArguments(p) => Begun(p, q, o)
               /\ FindOption(name) # {} /\ arg # "" /\ ~NeedsMoreArguments(p) =>
                    /\ q.active = o /\ o \in Options
                    /\ ~Valid(o, arg) => Bad(q)
                    /\ Valid(o, arg) => \E s : /\ ParserType(s) /\ Begun(p, s, o)
                                               /\ Assigned(s, q, o, arg)
                                               /\ q.exit = p.exit
<1> DEFINE closed == CloseOption(p)
           found == FindOption(name)
           o == CHOOSE o \in found : TRUE
           started == [closed EXCEPT !.active = o, !.current[o] = 0]
           q == StartOption(p, name, arg)
           need == NeedsMoreArguments(p)
<1>1. /\ ParserType(closed) /\ SameLoop(p, closed)
      /\ need \/ Bad(p) => Bad(closed)
      /\ ~need => closed = [p EXCEPT !.active = "none"]
  BY CloseOptionKeeps DEF Bad
<1>2. CASE name \in HelpNames
  <2>1. q = RequestExit(IF arg = "" THEN closed ELSE AddError(closed, "FLAG_PARAMETER"))
    BY <1>2 DEF StartOption
  <2>0. found = {}
    BY <1>2, HelpIsNoOption
  <2> HIDE DEF closed, q
  <2> DEFINE c == IF arg = "" THEN closed ELSE AddError(closed, "FLAG_PARAMETER")
  <2>2. ParserType(c) /\ SameLoop(p, c)
    <3>1. ParserType(AddError(closed, "FLAG_PARAMETER"))
             /\ SameLoop(closed, AddError(closed, "FLAG_PARAMETER"))
      BY <1>1, AddErrorKeeps
    <3>2. SameLoop(p, AddError(closed, "FLAG_PARAMETER"))
      BY <1>1, <3>1 DEF SameLoop
    <3> QED  BY <1>1, <3>1, <3>2
  <2> HIDE DEF c
  <2>3. ParserType(RequestExit(c)) /\ SameLoop(c, RequestExit(c)) /\ RequestExit(c).exit
    BY <2>2, RequestExitKeeps
  <2>4. q = RequestExit(c)
    BY <2>1 DEF c
  <2>5. ParserType(q) /\ SameLoop(p, q) /\ Bad(q)
    BY <2>2, <2>3, <2>4 DEF SameLoop, Bad
  <2> QED  BY <2>0, <2>5 DEF q
<1>3. CASE name \notin HelpNames /\ found = {}
  <2>1. q = AddError(closed, "UNKNOWN_OPTION")
    BY <1>3 DEF StartOption
  <2> HIDE DEF closed, q
  <2>2. ParserType(q) /\ SameLoop(p, q) /\ Bad(q)
    BY <1>1, <2>1, AddErrorKeeps DEF SameLoop, Bad
  <2> QED  BY <1>3, <2>2 DEF q
<1>4. CASE name \notin HelpNames /\ found # {}
  <2>1. q = IF arg = "" THEN started ELSE SetValue(started, o, arg)
    BY <1>4 DEF StartOption
  <2>2. o \in Options
    BY <1>4 DEF FindOption
  <2> HIDE DEF closed, q, need, found, o
  <2>3. /\ ParserType(started) /\ SameLoop(closed, started)
        /\ started.active = o /\ started.current = [closed.current EXCEPT ![o] = 0]
        /\ started.errors = closed.errors /\ started.exit = closed.exit
        /\ started.assigned = closed.assigned /\ started.targets = closed.targets
    <3>1. [closed.current EXCEPT ![o] = 0] \in [Options -> Nat]
      BY <1>1, <2>2 DEF ParserType
    <3> QED  BY <1>1, <2>2, <3>1 DEF ParserType, Fields, SameLoop
  <2> HIDE DEF started
  <2>4. started.current[o] = 0
    BY <1>1, <2>2, <2>3 DEF ParserType
  <2>5. SameLoop(p, started) /\ (need \/ Bad(p) => Bad(started))
    BY <1>1, <2>3 DEF SameLoop, Bad
  <2>6. ~need => Begun(p, started, o)
    <3> SUFFICES ASSUME ~need PROVE Begun(p, started, o)
      OBVIOUS
    <3>1. closed = [p EXCEPT !.active = "none"]
      BY <1>1
    <3>2. /\ closed.current = p.current /\ closed.errors = p.errors
          /\ closed.exit = p.exit /\ closed.assigned = p.assigned
          /\ closed.targets = p.targets
      BY <3>1 DEF ParserType, Fields
    <3> QED  BY <2>3, <3>2 DEF Begun
  <2>7. CASE arg = ""
    <3>1. q = started
      BY <2>1, <2>7
    <3> QED  BY <1>4, <2>2, <2>3, <2>4, <2>5, <2>6, <2>7, <3>1 DEF q, found, o, need
  <2>8. CASE arg # ""
    <3>1. q = SetValue(started, o, arg)
      BY <2>1, <2>8
    <3>2. /\ ParserType(q) /\ SameLoop(started, q) /\ q.active = started.active
          /\ q.exit = started.exit
          /\ Valid(o, arg) => Assigned(started, q, o, arg)
          /\ ~Valid(o, arg) => q.errors # {}
          /\ Bad(started) => Bad(q)
      BY <2>2, <2>3, <3>1, SetValueKeeps
    <3>3. SameLoop(p, q)
      BY <2>5, <3>2 DEF SameLoop
    <3>4. ~Valid(o, arg) => Bad(q)
      BY <3>2 DEF Bad
    <3>5. ~need => started.exit = p.exit
      BY <2>6 DEF Begun
    <3>6. /\ ParserType(q) /\ SameLoop(p, q)
          /\ need \/ Bad(p) => Bad(q)
          /\ ~need => /\ q.active = o /\ o \in Options
                      /\ ~Valid(o, arg) => Bad(q)
                      /\ Valid(o, arg) => \E s : /\ ParserType(s) /\ Begun(p, s, o)
                                                 /\ Assigned(s, q, o, arg)
                                                 /\ q.exit = p.exit
      BY <2>2, <2>3, <2>5, <2>6, <3>2, <3>3, <3>4, <3>5
    <3> QED  BY <1>4, <2>8, <3>6 DEF q, found, o, need
  <2> QED  BY <2>7, <2>8
<1> QED  BY <1>2, <1>3, <1>4

LEMMA DefaultedKeeps ==
    ASSUME NEW p, ParserType(p)
    PROVE  /\ ParserType(Defaulted(p)) /\ Defaulted(p).done = p.done
           /\ Defaulted(p).frames = p.frames /\ Defaulted(p).group = p.group
           /\ Bad(p) <=> Bad(Defaulted(p))
           /\ Defaulted(p).targets =
                [o \in Options |->
                  IF o \in DOMAIN Absent \ p.assigned THEN Absent[o] ELSE p.targets[o]]
<1> DEFINE t == [o \in Options |->
                   IF o \in DOMAIN Absent \ p.assigned THEN Absent[o] ELSE p.targets[o]]
           d == Defaulted(p)
<1>1. d = [p EXCEPT !.targets = t]
  BY DEF ParserType, Fields, Defaulted
<1>2. DOMAIN t = Options /\ \A o \in DOMAIN Largest : t[o] \in 0 .. Largest[o]
  <2>1. \A o \in DOMAIN Largest : Absent[o] \in 0 .. Largest[o]
    BY OptionNames DEF Absent, Largest
  <2> QED  BY <2>1, OptionNames DEF ParserType
<1> HIDE DEF t, d
<1>3. ParserType(d)
  BY <1>1, <1>2 DEF ParserType, Fields
<1>4. /\ d.done = p.done /\ d.frames = p.frames /\ d.group = p.group /\ d.targets = t
      /\ d.errors = p.errors /\ d.ignored = p.ignored /\ d.exit = p.exit
  BY <1>1 DEF ParserType, Fields
<1>5. Bad(p) <=> Bad(d)
  BY <1>4 DEF Bad
<1> QED  BY <1>3, <1>4, <1>5 DEF t, d

-----------------------------------------------------------------------------
(* What the parser has made of the arguments that it read *)

Tracks(p, b) ==
    /\ b \in Seq(Elements) /\ Sound(b) /\ Known(b, p.assigned, p.targets)
    /\ Pending(b) => p.active = OptionOf(b[Len(b)]) /\ p.current[p.active] = 0
    /\ ~Pending(b) /\ p.active # "none" => p.current[p.active] >= 1

LEMMA PendingNeedsMore ==
    ASSUME NEW p, ParserType(p), NEW b, Tracks(p, b)
    PROVE  /\ WillAcceptArgument(p) <=> Pending(b)
           /\ NeedsMoreArguments(p) <=> Pending(b)
           /\ Pending(b) => p.active \in Options
<1>1. "none" \notin Options
  BY OptionNames
<1>2. Pending(b) => OptionOf(b[Len(b)]) \in Options
  <2> SUFFICES ASSUME Pending(b) PROVE OptionOf(b[Len(b)]) \in Options
    OBVIOUS
  <2>1. b \in Seq(Elements)
    BY DEF Tracks
  <2>2. Len(b) \in Nat /\ Len(b) # 0 /\ \A i \in 1 .. Len(b) : b[i] \in Elements
    BY <2>1, SeqType DEF Pending
  <2>3. b[Len(b)] \in Elements /\ IsStart(b[Len(b)])
    BY <2>2 DEF Pending
  <2> QED  BY <2>3, Kinds
<1>3. p.active \in Options \cup {"none"} /\ \A o \in Options : p.current[o] \in Nat
  BY DEF ParserType
<1>4. CASE Pending(b)
  <2>1. p.active \in Options /\ p.current[p.active] = 0
    BY <1>2, <1>4 DEF Tracks
  <2>2. p.active # "none" /\ p.current[p.active] < 1
    BY <1>1, <2>1
  <2> QED  BY <1>4, <2>1, <2>2 DEF WillAcceptArgument, NeedsMoreArguments
<1>5. CASE ~Pending(b)
  <2>1. p.active # "none" => ~(p.current[p.active] < 1)
    <3> SUFFICES ASSUME p.active # "none" PROVE ~(p.current[p.active] < 1)
      OBVIOUS
    <3>1. p.current[p.active] \in Nat /\ p.current[p.active] >= 1
      BY <1>3, <1>5 DEF Tracks
    <3> QED  BY <3>1
  <2> QED  BY <1>5, <2>1 DEF WillAcceptArgument, NeedsMoreArguments
<1> QED  BY <1>4, <1>5

LEMMA TracksSame ==
    ASSUME NEW p, NEW q, SameOptions(p, q)
    PROVE  /\ \A b : Tracks(p, b) => Tracks(q, b)
           /\ Bad(p) <=> Bad(q)
BY DEF SameOptions, Tracks, Bad

\* The parser follows an argument that fits, and has an error for any other.
Follows(q, c) == IF Sound(c) THEN ~Bad(q) /\ Tracks(q, c) ELSE Bad(q)

LEMMA LongFollows ==
    ASSUME NEW p, ParserType(p), ~Bad(p), NEW b, Tracks(p, b),
           NEW a \in Elements, a.shape = "long"
    PROVE  Follows(StartOption(p, a.name, a.arg), b \o <<a>>)
<1> DEFINE q == StartOption(p, a.name, a.arg)
           o == CHOOSE o \in FindOption(a.name) : TRUE
           c == b \o <<a>>
<1>0. b \in Seq(Elements) /\ Sound(b)
  BY DEF Tracks
<1>1. /\ ParserType(q) /\ SameLoop(p, q)
      /\ FindOption(a.name) = {} \/ NeedsMoreArguments(p) \/ Bad(p) => Bad(q)
      /\ FindOption(a.name) # {} /\ a.arg = "" =>
           /\ q.active = o /\ o \in Options /\ q.current[o] = 0
           /\ ~NeedsMoreArguments(p) => Begun(p, q, o)
      /\ FindOption(a.name) # {} /\ a.arg # "" /\ ~NeedsMoreArguments(p) =>
           /\ q.active = o /\ o \in Options
           /\ ~Valid(o, a.arg) => Bad(q)
           /\ Valid(o, a.arg) => \E s : /\ ParserType(s) /\ Begun(p, s, o)
                                        /\ Assigned(s, q, o, a.arg)
                                        /\ q.exit = p.exit
  BY StartOptionKeeps
<1>2. NeedsMoreArguments(p) <=> Pending(b)
  BY PendingNeedsMore
<1>3. /\ IsStart(a) <=> FindOption(a.name) # {} /\ a.arg = ""
      /\ IsWhole(a) <=> FindOption(a.name) # {} /\ a.arg # ""
      /\ OptionOf(a) = o
  BY DEF IsStart, IsWhole, OptionOf, NameOf
<1>4. ~IsText(a)
  BY Kinds
<1>5. Sound(c) <=> \/ ~Pending(b) /\ IsStart(a)
                   \/ ~Pending(b) /\ IsWhole(a) /\ Valid(OptionOf(a), a.arg)
  BY <1>0, <1>4, AppendedSound
<1>6. Adds(b, a, c)
  BY <1>0, Appended
<1> HIDE DEF q, o, c
<1>7. CASE Pending(b) \/ FindOption(a.name) = {}
  <2>1. ~Sound(c) /\ Bad(q)
    BY <1>1, <1>2, <1>3, <1>5, <1>7
  <2> QED  BY <2>1 DEF Follows, q, c
<1>8. CASE ~Pending(b) /\ FindOption(a.name) # {} /\ a.arg = ""
  <2>1. Begun(p, q, o) /\ o \in Options /\ q.current[o] = 0
    BY <1>1, <1>2, <1>8
  <2>2. Sound(c) /\ Pending(c) /\ c \in Seq(Elements) /\ c[Len(c)] = a
    BY <1>3, <1>5, <1>6, <1>8 DEF Adds
  <2>3. Known(c, p.assigned, p.targets)
    BY <1>0, <1>3, <1>8, KnownStart DEF c, Tracks
  <2>4. Tracks(q, c)
    BY <1>3, <2>1, <2>2, <2>3 DEF Tracks, Begun
  <2>5. ~Bad(q)
    BY <1>1, <2>1 DEF Bad, Begun, SameLoop
  <2> QED  BY <2>2, <2>4, <2>5 DEF Follows, q, c
<1>9. CASE ~Pending(b) /\ FindOption(a.name) # {} /\ a.arg # ""
  <2>1. CASE ~Valid(o, a.arg)
    <3>1. ~Sound(c) /\ Bad(q)
      BY <1>1, <1>2, <1>3, <1>5, <1>9, <2>1
    <3> QED  BY <3>1 DEF Follows, q, c
  <2>2. CASE Valid(o, a.arg)
    <3>1. PICK s : /\ ParserType(s) /\ Begun(p, s, o) /\ Assigned(s, q, o, a.arg)
                   /\ q.exit = p.exit
      BY <1>1, <1>2, <1>9, <2>2
    <3>2. Sound(c) /\ ~Pending(c) /\ c \in Seq(Elements)
      BY <1>3, <1>5, <1>6, <1>9, <2>2 DEF Adds
    <3>3. q.active = o /\ o \in Options
      BY <1>1, <1>2, <1>9
    <3>4. /\ q.assigned = p.assigned \cup {o} /\ q.errors = p.errors
          /\ q.targets = [p.targets EXCEPT ![o] = Value(o, a.arg)]
      BY <3>1 DEF Begun, Assigned
    <3>5. q.current[o] >= 1
      BY <3>1, <3>3 DEF Begun, Assigned, ParserType
    <3>6. Known(c, q.assigned, q.targets)
      <4>1. DOMAIN p.targets = Options
        BY DEF ParserType
      <4>2. /\ q.targets[o] = Value(o, a.arg)
            /\ \A x \in p.assigned : x # o => q.targets[x] = p.targets[x]
        <5>1. q.targets[o] = Value(o, a.arg)
          BY <3>3, <3>4, <4>1
        <5>2. p.assigned \subseteq Options
          <6>1. ASSUME NEW i \in Made(b) PROVE OptionOf(b[i]) \in Options
            <7>1. b[i] \in Elements /\ (IsWhole(b[i]) \/ IsStart(b[i]))
              BY <1>0, SeqType DEF Made
            <7> QED  BY <7>1, Kinds
          <6>2. p.assigned = {OptionOf(b[i]) : i \in Made(b)}
            BY DEF Tracks, Known
          <6> QED  BY <6>1, <6>2
        <5> QED  BY <3>4, <4>1, <5>1, <5>2
      <4>3. Completes(b, a, o, a.arg)
        BY <1>3, <1>9 DEF Completes
      <4>4. Known(b, p.assigned, p.targets)
        BY DEF Tracks
      <4>5. Known(c, p.assigned \cup {o}, q.targets)
        BY <1>0, <4>2, <4>3, <4>4, KnownValue DEF c
      <4> QED  BY <3>4, <4>5
    <3>7. Tracks(q, c)
      BY <3>2, <3>3, <3>5, <3>6 DEF Tracks
    <3>8. ~Bad(q)
      BY <1>1, <3>1, <3>4 DEF Bad, SameLoop
    <3> QED  BY <3>2, <3>7, <3>8 DEF Follows, q, c
  <2> QED  BY <2>1, <2>2
<1> QED  BY <1>7, <1>8, <1>9

LEMMA KnownOptions ==
    ASSUME NEW b \in Seq(Elements), NEW assigned, NEW targets, Known(b, assigned, targets)
    PROVE  assigned \subseteq Options
<1>1. ASSUME NEW i \in Made(b) PROVE OptionOf(b[i]) \in Options
  <2>1. b[i] \in Elements /\ (IsWhole(b[i]) \/ IsStart(b[i]))
    BY SeqType DEF Made
  <2> QED  BY <2>1, Kinds
<1>2. assigned = {OptionOf(b[i]) : i \in Made(b)}
  BY DEF Known
<1> QED  BY <1>1, <1>2

LEMMA ValueFollows ==
    ASSUME NEW p, ParserType(p), ~Bad(p), NEW b, Tracks(p, b), Pending(b),
           NEW a \in Elements, IsText(a), NEW s, s = SetValue(p, p.active, a.text)
    PROVE  Follows(IF WillAcceptArgument(s) THEN s ELSE CloseOption(s), b \o <<a>>)
<1> DEFINE o == p.active
           c == b \o <<a>>
           q == IF WillAcceptArgument(s) THEN s ELSE CloseOption(s)
<1>0. b \in Seq(Elements) /\ Sound(b) /\ o = OptionOf(b[Len(b)]) /\ p.current[o] = 0
  BY DEF Tracks
<1>1. o \in Options
  BY PendingNeedsMore
<1>2. /\ ParserType(s) /\ SameLoop(p, s) /\ s.active = o /\ s.exit = p.exit
      /\ Valid(o, a.text) => Assigned(p, s, o, a.text)
      /\ ~Valid(o, a.text) => s.errors # {}
  BY <1>1, SetValueKeeps
<1>3. Sound(c) <=> Valid(o, a.text)
  <2>1. ~IsStart(a) /\ ~IsWhole(a)
    BY Kinds
  <2> QED  BY <1>0, <2>1, AppendedSound
<1>4. Adds(b, a, c)
  BY <1>0, Appended
<1> HIDE DEF o, c
<1>5. CASE ~Valid(o, a.text)
  <2>1. Bad(s)
    BY <1>2, <1>5 DEF Bad
  <2>2. Bad(q)
    BY <1>2, <2>1, CloseOptionKeeps
  <2> QED  BY <1>3, <1>5, <2>2 DEF Follows, c
<1>6. CASE Valid(o, a.text)
  <2>1. Assigned(p, s, o, a.text)
    BY <1>2, <1>6
  <2>2. s.current[o] = 1
    <3>1. p.current[o] = 0 /\ p.current \in [Options -> Nat]
      BY <1>0 DEF ParserType
    <3> QED  BY <1>1, <2>1, <3>1 DEF Assigned
  <2>3. ~WillAcceptArgument(s) /\ ~NeedsMoreArguments(s)
    BY <1>2, <2>2 DEF WillAcceptArgument, NeedsMoreArguments
  <2>4. q = [s EXCEPT !.active = "none"]
    BY <1>2, <2>3, CloseOptionKeeps
  <2> HIDE DEF q
  <2>5. /\ q.active = "none" /\ q.assigned = s.assigned /\ q.targets = s.targets
        /\ q.errors = s.errors /\ q.ignored = s.ignored /\ q.exit = s.exit
    BY <1>2, <2>4 DEF ParserType, Fields
  <2>6. Known(c, q.assigned, q.targets)
    <3>1. DOMAIN p.targets = Options
      BY DEF ParserType
    <3>2. Known(b, p.assigned, p.targets)
      BY DEF Tracks
    <3>3. p.assigned \subseteq Options
      BY <1>0, <3>2, KnownOptions
    <3>4. /\ q.targets[o] = Value(o, a.text)
          /\ \A x \in p.assigned : x # o => q.targets[x] = p.targets[x]
      BY <1>1, <2>1, <2>5, <3>1, <3>3 DEF Assigned
    <3>5. Completes(b, a, o, a.text)
      BY <1>0 DEF Completes
    <3>6. Known(c, p.assigned \cup {o}, q.targets)
      BY <1>0, <3>2, <3>4, <3>5, KnownValue DEF c
    <3> QED  BY <2>1, <2>5, <3>6 DEF Assigned
  <2>7. Sound(c) /\ c \in Seq(Elements) /\ ~Pending(c)
    BY <1>3, <1>4, <1>6, Kinds DEF Adds
  <2>8. Tracks(q, c)
    BY <2>5, <2>6, <2>7 DEF Tracks
  <2>9. ~Bad(q)
    BY <1>2, <2>1, <2>5 DEF Bad, Assigned, SameLoop
  <2> QED  BY <2>7, <2>8, <2>9 DEF Follows, q, c
<1> QED  BY <1>5, <1>6

LEMMA ShortFollows ==
    ASSUME NEW p, ParserType(p), ~Bad(p), NEW b, Tracks(p, b), ~Pending(b),
           NEW a \in Elements, a.shape = "dash", IsStart(a)
    PROVE  /\ Len(a.names) = 1
           /\ ~Bad(StartOption(p, a.names[1], ""))
           /\ Tracks(StartOption(p, a.names[1], ""), b \o <<a>>)
<1> DEFINE name == a.names[1]
           q == StartOption(p, name, "")
           o == CHOOSE o \in FindOption(name) : TRUE
           c == b \o <<a>>
<1>0. b \in Seq(Elements) /\ Sound(b)
  BY DEF Tracks
<1>1. Len(a.names) = 1 /\ FindOption(name) # {} /\ OptionOf(a) = o
  <2>1. FindOption("") = {}
    <3>1. Gone \in Elements /\ Gone.shape = "gone"
      BY DEF Elements, Gone
    <3>2. ~IsStart(Gone)
      BY <3>1, Kinds
    <3> QED  BY <3>1, <3>2 DEF IsStart, NameOf
  <2> QED  BY <2>1 DEF IsStart, NameOf, OptionOf
<1>2. /\ ParserType(q) /\ SameLoop(p, q)
      /\ FindOption(name) # {} =>
           /\ q.active = o /\ o \in Options /\ q.current[o] = 0
           /\ ~NeedsMoreArguments(p) => Begun(p, q, o)
  BY StartOptionKeeps
<1>3. ~NeedsMoreArguments(p)
  BY PendingNeedsMore
<1>4. Sound(c)
  BY <1>0, AppendedSound
<1>5. Adds(b, a, c)
  BY <1>0, Appended
<1> HIDE DEF q, o, c, name
<1>6. Begun(p, q, o) /\ q.current[o] = 0
  BY <1>1, <1>2, <1>3
<1>7. Pending(c) /\ c \in Seq(Elements) /\ c[Len(c)] = a
  BY <1>5 DEF Adds
<1>8. Known(c, p.assigned, p.targets)
  BY <1>0, KnownStart DEF c, Tracks
<1>9. Tracks(q, c)
  BY <1>1, <1>4, <1>6, <1>7, <1>8 DEF Tracks, Begun
<1>10. ~Bad(q)
  BY <1>2, <1>6 DEF Bad, Begun, SameLoop
<1> QED  BY <1>1, <1>9, <1>10 DEF q, c, name

\* A group of characters that no option with its value can come of.
Fruitless(p) ==
    p.group # <<>> /\ (NeedsMoreArguments(p) \/ Tail(p.group) # <<>>
                         \/ FindOption(Head(p.group)) = {})
Doomed(p) == Bad(p) \/ Fruitless(p)

LEMMA GroupFollows ==
    ASSUME NEW p, ParserType(p), ~Bad(p), NEW b, Tracks(p, b),
           NEW a \in Elements, a.shape = "dash", ~(a.numeric /\ WillAcceptArgument(p)),
           ~(IsStart(a) /\ ~Pending(b)), p.group = a.names
    PROVE  Fruitless(p) /\ ~Sound(b \o <<a>>)
<1>0. b \in Seq(Elements) /\ Sound(b)
  BY DEF Tracks
<1>1. a \in Arguments
  BY ElementShapes
<1>2. a.names \in Seq(Range(a.names)) /\ a.names # <<>> /\ a.numeric \in BOOLEAN
  BY <1>1, ArgumentsAssumption
<1>3. Head(a.names) = a.names[1] /\ (Tail(a.names) = <<>> => Len(a.names) = 1)
  <2> DEFINE g == a.names
             X == Range(g)
             t == Tail(g)
  <2>1. g \in Seq(X) /\ g # <<>>
    BY <1>2
  <2> HIDE DEF g, X
  <2>2. Len(t) = Len(g) - 1 /\ t \in Seq(X) /\ Len(g) \in Nat
    BY <2>1, HeadTail, SeqType
  <2> HIDE DEF t
  <2>3. t = <<>> => Len(t) = 0
    OBVIOUS
  <2>4. t = <<>> => Len(g) = 1
    BY <2>2, <2>3
  <2>5. Head(g) = g[1]
    BY <2>1
  <2> QED  BY <2>4, <2>5 DEF t, g
<1>4. (NeedsMoreArguments(p) <=> Pending(b)) /\ (WillAcceptArgument(p) <=> Pending(b))
  BY PendingNeedsMore
<1>5. ~IsWhole(a)
  BY Kinds
<1>6. IsText(a) <=> a.numeric
  BY DEF IsText
<1>7. ~Sound(b \o <<a>>)
  BY <1>0, <1>4, <1>5, <1>6, AppendedSound
<1>8. CASE Pending(b)
  BY <1>2, <1>4, <1>7, <1>8 DEF Fruitless
<1>9. CASE ~Pending(b)
  <2>1. ~IsStart(a)
    BY <1>9
  <2>2. Len(a.names) = 1 => FindOption(Head(a.names)) = {}
    BY <1>3, <2>1 DEF IsStart, NameOf
  <2>3. Tail(a.names) # <<>> \/ Len(a.names) = 1
    BY <1>3
  <2> QED  BY <1>2, <1>7, <2>2, <2>3 DEF Fruitless
<1> QED  BY <1>8, <1>9

LEMMA FreeFollows ==
    ASSUME NEW p, ParserType(p), NEW b, Tracks(p, b), ~Pending(b),
           NEW a \in Elements, IsText(a)
    PROVE  ~Sound(b \o <<a>>)
<1>1. b \in Seq(Elements) /\ Sound(b)
  BY DEF Tracks
<1>2. ~IsStart(a) /\ ~IsWhole(a)
  BY Kinds
<1> QED  BY <1>1, <1>2, AppendedSound

LEMMA OddFollows ==
    ASSUME NEW b \in Seq(Elements), Sound(b), NEW a \in Elements,
           a.shape \in {"ddash", "deep"}
    PROVE  ~Sound(b \o <<a>>)
<1>1. ~IsStart(a) /\ ~IsWhole(a) /\ ~IsText(a)
  BY Kinds
<1> QED  BY <1>1, AppendedSound

LEMMA FrontKeeps ==
    ASSUME NEW f, f \in Seq(Range(f)), f # <<>>
    PROVE  Front(f) \in Seq(Range(Front(f))) /\ Len(Front(f)) = Len(f) - 1
<1> DEFINE h == Front(f)
<1>1. h \in Seq(Range(f)) /\ Len(h) = Len(f) - 1
  <2> DEFINE n == Len(f) - 1
  <2>1. Len(f) \in Nat /\ Len(f) # 0 /\ DOMAIN f = 1 .. Len(f)
    BY LenProperties
  <2>2. n \in Nat
    BY <2>1
  <2>3. \A i \in 1 .. n : f[i] \in Range(f)
    BY <2>1 DEF Range
  <2>4. h = SubSeq(f, 1, n)
    BY DEF Front
  <2> HIDE DEF n, h
  <2>5. h \in Seq(Range(f)) /\ Len(h) = IF 1 <= n THEN n - 1 + 1 ELSE 0
    BY <2>2, <2>3, <2>4, SubSeqProperties
  <2>6. Len(h) = n
    BY <2>2, <2>5
  <2> QED  BY <2>5, <2>6 DEF n
<1>2. h \in [1 .. Len(h) -> Range(h)]
  BY <1>1, LenProperties DEF Range
<1> HIDE DEF h
<1>3. h \in Seq(Range(h)) /\ Len(h) = Len(f) - 1
  BY <1>1, <1>2, IsSeq
<1> QED  BY <1>3 DEF h

\* The innermost stream loses its head, or is left.
LEMMA StreamKeeps ==
    ASSUME NEW p, ParserType(p), p.frames # <<>>
    PROVE  /\ ParserType(Consumed(p)) /\ ParserType(Returning(p))
           /\ Len(Consumed(p).frames) = Len(p.frames) /\ Consumed(p).frames # <<>>
           /\ Len(Returning(p).frames) <= Len(p.frames)
           /\ SameOptions(p, Consumed(p)) /\ SameOptions(p, Returning(p))
           /\ Consumed(p).group = p.group /\ Returning(p).group = p.group
           /\ Consumed(p).ignoring = p.ignoring /\ Returning(p).ignoring = p.ignoring
           /\ Consumed(p).done = p.done /\ Returning(p).done = p.done
           /\ Consumed(p).frames = [p.frames EXCEPT ![Len(p.frames)] = Tail(@)]
           /\ ~p.exit => Returning(p) = p
<1> DEFINE f == p.frames
           g == [f EXCEPT ![Len(f)] = Tail(@)]
           h == Front(f)
<1>1. f \in Seq(Range(f)) /\ Len(f) \in Nat \ {0} /\ DOMAIN f = 1 .. Len(f)
  BY DEF ParserType
<1>2. g \in Seq(Range(g)) /\ Len(g) = Len(f) /\ g # <<>>
  <2>1. g \in [1 .. Len(f) -> Range(g)]
    BY <1>1 DEF Range
  <2> HIDE DEF f, g
  <2>2. g \in Seq(Range(g)) /\ Len(g) = Len(f)
    BY <1>1, <2>1, IsSeq
  <2> QED  BY <1>1, <2>2
<1>3. h \in Seq(Range(h)) /\ Len(h) = Len(f) - 1
  BY <1>1, FrontKeeps
<1>4. Consumed(p) = [p EXCEPT !.frames = g]
  BY DEF Consumed, ParserType, Fields
<1>5. Returning(p) = IF p.exit THEN [p EXCEPT !.frames = h] ELSE p
  BY DEF Returning, ParserType, Fields
<1> HIDE DEF f, g, h
<1>6. /\ ParserType(Consumed(p)) /\ Consumed(p).frames = g /\ SameOptions(p, Consumed(p))
      /\ Consumed(p).group = p.group /\ Consumed(p).ignoring = p.ignoring
      /\ Consumed(p).done = p.done
  BY <1>2, <1>4 DEF ParserType, Fields, SameOptions
<1>7. CASE p.exit
  <2>1. /\ ParserType(Returning(p)) /\ Returning(p).frames = h
        /\ SameOptions(p, Returning(p)) /\ Returning(p).group = p.group
        /\ Returning(p).ignoring = p.ignoring /\ Returning(p).done = p.done
    BY <1>3, <1>5, <1>7 DEF ParserType, Fields, SameOptions
  <2> QED  BY <1>1, <1>2, <1>3, <1>6, <1>7, <2>1 DEF f, g
<1>8. CASE ~p.exit
  <2>1. Returning(p) = p
    BY <1>5, <1>8
  <2> QED  BY <1>1, <1>2, <1>6, <2>1 DEF f, g, SameOptions
<1> QED  BY <1>7, <1>8

ParserOK ==
    /\ ParserType(parser)
    /\ Len(parser.frames) <= MaxIncludeDepth + 2
    /\ parser.group # <<>> => parser.frames # <<>>

LEMMA ParseKeeps == ASSUME ParserOK, Parse PROVE ParserOK'
<1>0. ParserType(parser) /\ Len(parser.frames) \in Nat /\ MaxIncludeDepth \in Nat
  BY DepthAssumption DEF ParserOK, ParserType
<1>1. CASE Include
  <2> DEFINE file == Head(Stream).file
             p == [parser EXCEPT !.frames = <<>>]
             c == Consumed(parser)
             q == [c EXCEPT !.frames = Append(@, Files[file])]
  <2>1. parser.frames # <<>>
    BY <1>1 DEF Include, Argument, Reading
  <2>2. CASE TooDeep(parser)
    <3>1. ParserType(p) /\ p.frames = <<>> /\ p.group = <<>>
      <4>1. p.frames = <<>> /\ <<>> \in Seq(Range(<<>>)) /\ p.group = <<>>
        BY <1>0, <1>1 DEF ParserType, Fields, Include, Argument, Reading
      <4> QED  BY <1>0, <4>1 DEF ParserType, Fields
    <3>2. parser' = AddError(p, "INCLUDE_TOO_DEEP")
      BY <1>1, <2>2 DEF Include
    <3> HIDE DEF p
    <3>3. ParserType(parser') /\ parser'.frames = <<>> /\ parser'.group = <<>>
      BY <3>1, <3>2, AddErrorKeeps DEF SameLoop
    <3> QED  BY <1>0, <3>3 DEF ParserOK
  <2>3. CASE ~TooDeep(parser) /\ file \in DOMAIN Files
    <3>1. ParserType(c) /\ Len(c.frames) = Len(parser.frames)
      BY <1>0, <2>1, StreamKeeps
    <3>2. parser' = q
      BY <1>1, <2>3 DEF Include
    <3> DEFINE g == Append(c.frames, Files[file])
    <3>3. q.frames = g
      BY <3>1 DEF ParserType, Fields
    <3>4. g \in Seq(Range(g)) /\ Len(g) = Len(c.frames) + 1
      <4> DEFINE All == Range(c.frames) \cup {Files[file]}
      <4>1. c.frames \in Seq(All) /\ Files[file] \in All
        BY <3>1 DEF ParserType
      <4>2. g \in Seq(All) /\ Len(g) = Len(c.frames) + 1
        BY <4>1
      <4>3. g \in [1 .. Len(g) -> Range(g)]
        BY <4>1, <4>2, LenProperties DEF Range
      <4> HIDE DEF g
      <4> QED  BY <4>2, <4>3
    <3>5. Len(parser.frames) - 1 <= MaxIncludeDepth
      BY <1>0, <2>3 DEF TooDeep
    <3> HIDE DEF c, g
    <3>6. ParserType(q) /\ g # <<>>
      <4>1. g # <<>>
        BY <3>4, <3>1 DEF ParserType
      <4>2. q.active = c.active /\ q.targets = c.targets /\ DOMAIN q = Fields
               /\ q.current = c.current
        BY <3>1 DEF ParserType, Fields
      <4> QED  BY <3>1, <3>3, <3>4, <4>1, <4>2 DEF ParserType
    <3> QED  BY <1>0, <3>1, <3>2, <3>3, <3>4, <3>5, <3>6 DEF ParserOK
  <2>4. CASE ~TooDeep(parser) /\ file \notin DOMAIN Files
    <3>1. parser' = c
      BY <1>1, <2>4 DEF Include
    <3> QED  BY <1>0, <2>1, <3>1, StreamKeeps DEF ParserOK
  <2> QED  BY <2>2, <2>3, <2>4
<1>2. CASE EndOfOptions \/ FreeArgument \/ DashOptions
  <2> DEFINE c == Consumed(parser)
  <2>1. parser.frames # <<>>
    BY <1>2 DEF EndOfOptions, FreeArgument, DashOptions, Argument, Reading
  <2>2. ParserType(c) /\ Len(c.frames) = Len(parser.frames) /\ c.frames # <<>>
           /\ c.group = parser.group
    BY <1>0, <2>1, StreamKeeps
  <2>3. \/ parser' = [c EXCEPT !.ignoring = TRUE]
        \/ parser' = [c EXCEPT !.ignored = TRUE]
        \/ parser' = [c EXCEPT !.group = Head(Stream).names]
    BY <1>2 DEF EndOfOptions, FreeArgument, DashOptions
  <2> HIDE DEF c
  <2>4. ParserType(parser') /\ parser'.frames = c.frames
    BY <2>2, <2>3 DEF ParserType, Fields
  <2> QED  BY <2>2, <2>4 DEF ParserOK
<1>3. CASE LongOption
  <2> DEFINE c == Consumed(parser)
             s == StartOption(c, Head(Stream).name, Head(Stream).arg)
  <2>1. parser.frames # <<>> /\ parser.group = <<>> /\ parser' = Returning(s)
    BY <1>3 DEF LongOption, Argument, Reading
  <2>2. ParserType(c) /\ Len(c.frames) = Len(parser.frames) /\ c.frames # <<>>
           /\ c.group = parser.group
    BY <1>0, <2>1, StreamKeeps
  <2>3. ParserType(s) /\ s.frames = c.frames /\ s.group = c.group
    <3>1. ParserType(s) /\ SameLoop(c, s)
      <4> HIDE DEF c
      <4> QED  BY <2>2, StartOptionKeeps
    <3> QED  BY <3>1 DEF SameLoop
  <2> HIDE DEF c, s
  <2>4. ParserType(parser') /\ Len(parser'.frames) <= Len(parser.frames)
           /\ parser'.group = <<>>
    <3>1. ParserType(s) /\ s.frames # <<>>
      BY <2>1, <2>2, <2>3
    <3>2. /\ ParserType(Returning(s)) /\ Len(Returning(s).frames) <= Len(s.frames)
          /\ Returning(s).group = s.group
      BY <3>1, StreamKeeps
    <3> QED  BY <2>1, <2>2, <2>3, <3>2
  <2>5. Len(parser'.frames) \in Nat
    BY <2>4 DEF ParserType
  <2> QED  BY <1>0, <2>4, <2>5 DEF ParserOK
<1>4. CASE DashOption
  <2> DEFINE s == StartOption(parser, Head(parser.group), "")
             p == [s EXCEPT !.group = Tail(@)]
  <2>1. parser' = IF p.group = <<>> THEN Returning(p) ELSE p
    BY <1>4 DEF DashOption
  <2>2. /\ ParserType(s) /\ s.frames = parser.frames /\ s.frames # <<>>
        /\ parser.group # <<>>
    <3>1. ParserType(s) /\ SameLoop(parser, s)
      BY <1>0, StartOptionKeeps
    <3> HIDE DEF s
    <3> QED  BY <1>4, <3>1 DEF DashOption, ParserOK, SameLoop
  <2> HIDE DEF s
  <2>3. ParserType(p) /\ p.frames = parser.frames
    BY <2>2 DEF ParserType, Fields
  <2>4. CASE p.group = <<>>
    <3>1. parser' = Returning(p) /\ parser'.group = <<>>
      BY <2>1, <2>2, <2>3, <2>4, StreamKeeps
    <3> HIDE DEF p
    <3>2. ParserType(parser') /\ Len(parser'.frames) <= Len(parser.frames)
      BY <2>2, <2>3, <3>1, StreamKeeps
    <3>3. Len(parser'.frames) \in Nat
      BY <3>2 DEF ParserType
    <3> QED  BY <1>0, <3>1, <3>2, <3>3 DEF ParserOK
  <2>5. CASE p.group # <<>>
    <3> HIDE DEF p
    <3> QED  BY <1>0, <2>1, <2>2, <2>3, <2>5 DEF ParserOK
  <2> QED  BY <2>4, <2>5
<1>5. CASE OptionValue
  <2> DEFINE c == Consumed(parser)
             s == SetValue(c, parser.active, Head(Stream).text)
             p == IF WillAcceptArgument(s) THEN s ELSE CloseOption(s)
  <2>1. parser.frames # <<>> /\ parser.group = <<>> /\ parser' = Returning(p)
    BY <1>5 DEF OptionValue, Argument, Reading
  <2>2. ParserType(c) /\ Len(c.frames) = Len(parser.frames) /\ c.frames # <<>>
           /\ c.group = parser.group
    BY <1>0, <2>1, StreamKeeps
  <2>3. parser.active \in Options
    BY <1>0, <1>5 DEF OptionValue, Argument, ArgumentType, ParserType, WillAcceptArgument
  <2>4. ParserType(s) /\ s.frames = c.frames /\ s.group = c.group
    BY <2>2, <2>3, SetValueKeeps DEF SameLoop
  <2> HIDE DEF c, s
  <2>5. ParserType(p) /\ p.frames = c.frames /\ p.group = c.group
    BY <2>4, CloseOptionKeeps DEF SameLoop
  <2> HIDE DEF p
  <2>6. ParserType(parser') /\ Len(parser'.frames) <= Len(parser.frames)
           /\ parser'.group = <<>>
    <3>1. ParserType(p) /\ p.frames # <<>>
      BY <2>1, <2>2, <2>5
    <3>2. /\ ParserType(Returning(p)) /\ Len(Returning(p).frames) <= Len(p.frames)
          /\ Returning(p).group = p.group
      BY <3>1, StreamKeeps
    <3> QED  BY <2>1, <2>2, <2>5, <3>2
  <2>7. Len(parser'.frames) \in Nat
    BY <2>6 DEF ParserType
  <2> QED  BY <1>0, <2>6, <2>7 DEF ParserOK
<1>6. CASE EndOfStream
  <2> DEFINE f == Front(parser.frames)
  <2>1. parser.frames # <<>> /\ parser.group = <<>> /\ parser' = [parser EXCEPT !.frames = f]
    BY <1>0, <1>6 DEF EndOfStream, Reading, ParserType, Fields
  <2>2. f \in Seq(Range(f)) /\ Len(f) = Len(parser.frames) - 1
    BY <1>0, <2>1, FrontKeeps DEF ParserType
  <2> HIDE DEF f
  <2>3. ParserType(parser') /\ parser'.frames = f /\ parser'.group = <<>>
    BY <1>0, <2>1, <2>2 DEF ParserType, Fields
  <2> QED  BY <1>0, <2>2, <2>3 DEF ParserOK
<1>7. CASE NoArguments
  <2> DEFINE p == RequestExit(parser)
  <2>1. parser.group = <<>> /\ parser' = [p EXCEPT !.frames = <<>>, !.done = TRUE]
    BY <1>7 DEF NoArguments, Reading
  <2>2. ParserType(p) /\ p.group = parser.group
    BY <1>0, RequestExitKeeps DEF SameLoop
  <2> HIDE DEF p
  <2>3. parser'.frames = <<>> /\ <<>> \in Seq(Range(<<>>)) /\ parser'.group = <<>>
    BY <2>1, <2>2 DEF ParserType, Fields
  <2>4. ParserType(parser')
    BY <2>1, <2>2, <2>3 DEF ParserType, Fields
  <2> QED  BY <1>0, <2>3, <2>4 DEF ParserOK
<1>8. CASE Finish
  <2> DEFINE c == CloseOption(parser)
             p == [c EXCEPT !.done = TRUE]
             d == Defaulted(p)
  <2>1. /\ parser.frames = <<>> /\ parser.group = <<>>
        /\ \/ parser' = p \/ parser' = d \/ parser' = AddError(d, "MISSING_OPTION")
    BY <1>8 DEF Finish
  <2>2. ParserType(c) /\ c.frames = <<>> /\ c.group = <<>>
    BY <1>0, <2>1, CloseOptionKeeps DEF SameLoop
  <2> HIDE DEF c
  <2>3. ParserType(p) /\ p.frames = <<>> /\ p.group = <<>>
    BY <2>2 DEF ParserType, Fields
  <2> HIDE DEF p
  <2>4. ParserType(d) /\ d.frames = <<>> /\ d.group = <<>>
    BY <2>3, DefaultedKeeps
  <2> HIDE DEF d
  <2>5. ParserType(parser') /\ parser'.frames = <<>> /\ parser'.group = <<>>
    BY <2>1, <2>3, <2>4, AddErrorKeeps DEF SameLoop
  <2> QED  BY <1>0, <2>5 DEF ParserOK
<1> QED  BY <1>1, <1>2, <1>3, <1>4, <1>5, <1>6, <1>7, <1>8 DEF Parse

-----------------------------------------------------------------------------
(* The parser and the grammar *)

LEMMA ArgumentTypeIs ==
    ASSUME NEW p, NEW a \in Arguments
    PROVE  /\ ArgumentType(p, a) \in {"at", "ddash", "long"} =>
                ~p.ignoring /\ a.shape = ArgumentType(p, a)
           /\ ArgumentType(p, a) = "value" =>
                ~p.ignoring /\ WillAcceptArgument(p) /\ IsText(a)
           /\ ArgumentType(p, a) = "free" =>
                p.ignoring \/ (~WillAcceptArgument(p) /\ IsText(a))
           /\ ArgumentType(p, a) = "dash" =>
                ~p.ignoring /\ a.shape = "dash" /\ ~(a.numeric /\ WillAcceptArgument(p))
<1> DEFINE t == ArgumentType(p, a)
           dash == CASE a.numeric /\ WillAcceptArgument(p) -> "value"
                     [] a.numeric /\ p.active = "none" -> "free"
                     [] OTHER -> "dash"
<1>0. a.shape \in {"at", "ddash", "long", "dash", "plain"}
  BY ArgumentsAssumption
<1>1. CASE p.ignoring
  <2>1. t = "free"
    BY <1>1, <1>0 DEF ArgumentType
  <2> QED  BY <1>1, <2>1
<1>2. CASE ~p.ignoring /\ a.shape \in {"at", "ddash", "long"}
  <2>1. t = a.shape
    BY <1>2 DEF ArgumentType
  <2> QED  BY <1>2, <2>1
<1>3. CASE ~p.ignoring /\ a.shape = "plain"
  <2>1. t = IF WillAcceptArgument(p) THEN "value" ELSE "free"
    BY <1>3 DEF ArgumentType
  <2> QED  BY <1>3, <2>1 DEF IsText
<1>4. CASE ~p.ignoring /\ a.shape = "dash"
  <2>1. ~(~p.ignoring /\ a.shape \in {"at", "ddash", "long"})
          /\ ~(~p.ignoring /\ a.shape = "plain")
    BY <1>4
  <2>2. t = dash
    BY <1>4, <2>1, Zenon DEF ArgumentType
  <2>3. CASE a.numeric /\ WillAcceptArgument(p)
    <3>1. WillAcceptArgument(p) /\ p.active # "none"
      BY <2>3 DEF WillAcceptArgument
    <3>2. ~(a.numeric /\ p.active = "none")
      BY <3>1
    <3> HIDE DEF t
    <3>3. t = "value"
      BY <2>2, <2>3, <3>2, Zenon
    <3> QED  BY <1>4, <2>3, <3>3 DEF t, IsText
  <2>4. CASE ~(a.numeric /\ WillAcceptArgument(p)) /\ a.numeric /\ p.active = "none"
    <3>1. ~WillAcceptArgument(p)
      BY <2>4 DEF WillAcceptArgument
    <3> HIDE DEF t
    <3>3. t = "free"
      BY <2>2, <2>4, Zenon
    <3> QED  BY <1>4, <2>4, <3>1, <3>3 DEF t, IsText
  <2>5. CASE ~(a.numeric /\ WillAcceptArgument(p)) /\ ~(a.numeric /\ p.active = "none")
    <3> HIDE DEF t
    <3>3. t = "dash"
      BY <2>2, <2>5, Zenon
    <3> QED  BY <1>4, <2>5, <3>3 DEF t
  <2> QED  BY <2>3, <2>4, <2>5
<1> QED  BY <1>0, <1>1, <1>2, <1>3, <1>4

\* What is read, of the expanded command line, and what the parser made of it:
\* behind "--" that is nothing more.
Read(p, D) ==
    \/ ~p.ignoring /\ Tracks(p, Strip(D))
    \/ /\ p.ignoring
       /\ \E C \in Seq(Elements), d \in Elements :
            d.shape = "ddash" /\ D = C \o <<d>> /\ Tracks(p, Strip(C))

\* Between two arguments; and with one short option read, but not yet started.
Between(p, E) ==
    /\ p.group = <<>>
    /\ \E D \in Seq(Elements), R \in Seq(Elements) :
         Remains(p.frames, R) /\ E = D \o R /\ Read(p, D)
Within(p, E) ==
    /\ ~p.ignoring
    /\ \E D \in Seq(Elements), R \in Seq(Elements), a \in Elements :
         /\ Remains(p.frames, R) /\ E = (D \o <<a>>) \o R
         /\ a.shape = "dash" /\ IsStart(a) /\ p.group = a.names
         /\ ~Pending(Strip(D)) /\ Tracks(p, Strip(D))

\* The parser follows a command line that may still be well formed; or it has
\* an error, or will have one, and the command line is not well formed; or it
\* is done, and the command line is what it should be.
Going(p, E) == ~p.done /\ ~Bad(p) /\ (Between(p, E) \/ Within(p, E))
Lost(p, E) == Doomed(p) /\ ~WellFormed(Body(E))
Right(p, E) ==
    /\ p.done /\ ~Bad(p) /\ WellFormed(Body(E))
    /\ \A o \in Options : p.targets[o] = Given(Body(E), o)
Line(p, E) == Going(p, E) \/ Lost(p, E) \/ Right(p, E)

LEMMA ReadSound ==
    ASSUME NEW p, NEW D \in Seq(Elements), Read(p, D)
    PROVE  /\ ~p.ignoring => Sound(Strip(D)) /\ Strip(D) \in Seq(Elements)
           /\ p.ignoring => ~Sound(Strip(D))
<1>1. ~p.ignoring => Sound(Strip(D)) /\ Strip(D) \in Seq(Elements)
  BY DEF Read, Tracks
<1>2. ASSUME p.ignoring PROVE ~Sound(Strip(D))
  <2>1. PICK C \in Seq(Elements), d \in Elements :
               d.shape = "ddash" /\ D = C \o <<d>> /\ Tracks(p, Strip(C))
    BY <1>2 DEF Read
  <2>2. Sound(Strip(C)) /\ Strip(C) \in Seq(Elements)
    BY <2>1 DEF Tracks
  <2>3. Strip(D) = Strip(C) \o <<d>>
    BY <2>1, StripAppend
  <2> QED  BY <2>1, <2>2, <2>3, OddFollows
<1> QED  BY <1>1, <1>2

\* What is read, at the end of the arguments.
LEMMA ReadBody ==
    ASSUME NEW p, NEW D \in Seq(Elements), Read(p, D)
    PROVE  Tracks(p, Body(D))
<1>1. CASE p.ignoring
  <2>1. PICK C \in Seq(Elements), d \in Elements :
               d.shape = "ddash" /\ D = C \o <<d>> /\ Tracks(p, Strip(C))
    BY <1>1 DEF Read
  <2>2. Body(C \o <<d>>) = Strip(C)
    BY <2>1, BodyAppend
  <2> QED  BY <2>1, <2>2
<1>2. CASE ~p.ignoring
  <2>0. Tracks(p, Strip(D)) /\ Sound(Strip(D))
    BY <1>2 DEF Read, Tracks
  <2>1. CASE D = <<>>
    <3>1. Body(D) = Strip(D)
      BY <2>1 DEF Body
    <3> QED  BY <2>0, <3>1
  <2>2. CASE D # <<>>
    <3>1. PICK f \in Seq(Elements), z \in Elements : D = f \o <<z>>
      BY <2>2, FrontLast
    <3>2. z.shape # "ddash"
      <4> SUFFICES ASSUME z.shape = "ddash" PROVE FALSE
        OBVIOUS
      <4>1. Strip(D) = Strip(f) \o <<z>> /\ Strip(f) \in Seq(Elements)
        BY <3>1, StripAppend, StripSeq
      <4>2. <<z>> \in Seq(Elements)
        BY <3>1
      <4>3. Sound(Strip(f))
        <5> DEFINE s == Strip(f)
                   t == <<z>>
        <5>1. s \in Seq(Elements) /\ t \in Seq(Elements) /\ Sound(s \o t)
          BY <2>0, <4>1, <4>2
        <5> HIDE DEF s, t
        <5>2. Sound(s)
          BY <5>1, SoundPrefix
        <5> QED  BY <5>2 DEF s
      <4> QED  BY <2>0, <4>1, <4>3, OddFollows
    <3>3. Body(f \o <<z>>) = Strip(f \o <<z>>)
      BY <3>2, BodyAppend
    <3> QED  BY <2>0, <3>1, <3>3
  <2> QED  BY <2>1, <2>2
<1> QED  BY <1>1, <1>2

\* The next argument of the innermost stream, and what it stands for.
Stands(p, frames, a, E, n) ==
    \E D \in Seq(Elements), R \in Seq(Elements) :
      /\ Remains(frames, R) /\ Read(p, D)
      /\ E = D \o (Replaced(a, Included[Level(n)]) \o R)

LEMMA NextArgument ==
    ASSUME NEW p, ParserType(p), NEW E, Between(p, E), p.frames # <<>>,
           Last(p.frames) # <<>>, Len(p.frames) <= MaxIncludeDepth + 2
    PROVE  /\ Head(Last(p.frames)) \in Arguments
           /\ Len(p.frames) \in 1 .. MaxIncludeDepth + 2
           /\ Stands(p, Consumed(p).frames, Head(Last(p.frames)), E, Len(p.frames))
<1> DEFINE new == Consumed(p).frames
           a == Head(Last(p.frames))
<1>1. new = Advanced(p.frames)
  BY StreamKeeps DEF Advanced
<1>2. PICK D \in Seq(Elements), R \in Seq(Elements) :
             Remains(p.frames, R) /\ E = D \o R /\ Read(p, D)
  BY DEF Between
<1> HIDE DEF new
<1>3. /\ a \in Arguments
      /\ \E after : /\ Remains(new, after)
                    /\ R = Replaced(a, Included[Level(Len(p.frames))]) \o after
  <2> DEFINE f == p.frames
  <2>1. /\ Remains(f, R) /\ f # <<>> /\ Len(f) <= MaxIncludeDepth + 2 /\ Last(f) # <<>>
        /\ new = Advanced(f)
    BY <1>1, <1>2
  <2> HIDE DEF f, a
  <2>2. /\ Head(Last(f)) \in Arguments
        /\ \E after : /\ Remains(new, after)
                      /\ R = Replaced(Head(Last(f)), Included[Level(Len(f))]) \o after
    <3>1. ASSUME NEW x, Remains(x, R), x # <<>>, Len(x) <= MaxIncludeDepth + 2,
                 Last(x) # <<>>
          PROVE  /\ Head(Last(x)) \in Arguments
                 /\ \E after : /\ Remains(Advanced(x), after)
                               /\ R = Replaced(Head(Last(x)), Included[Level(Len(x))]) \o after
      BY <3>1, RemainsConsume
    <3> QED  BY <2>1, <3>1
  <2> QED  BY <2>2 DEF f, a
<1>4. Len(p.frames) \in 1 .. MaxIncludeDepth + 2
  BY <1>2, RemainsPop
<1>5. PICK after : /\ Remains(new, after)
                   /\ R = Replaced(a, Included[Level(Len(p.frames))]) \o after
  BY <1>3
<1>6. after \in Seq(Elements)
  BY <1>5, RemainsSeq
<1> HIDE DEF a
<1>7. Stands(p, new, a, E, Len(p.frames))
  BY <1>2, <1>5, <1>6 DEF Stands
<1> QED  BY <1>3, <1>4, <1>7 DEF new, a

LEMMA ReplacedIs ==
    ASSUME NEW a \in Elements, NEW content \in Contents
    PROVE  /\ Replaced(a, content) \in Seq(Elements) /\ Replaced(a, content) # <<>>
           /\ a.shape # "at" => Replaced(a, content) = <<a>>
           /\ a.shape = "at" => /\ Replaced(a, content) = <<Gone>> \o content[a.file]
                                /\ content[a.file] \in Seq(Elements)
                                /\ a.file \in FileNames
<1>1. CASE a.shape # "at"
  <2>1. Replaced(a, content) = <<a>>
    BY <1>1 DEF Replaced
  <2> QED  BY <1>1, <2>1
<1>2. CASE a.shape = "at"
  <2>1. a.file \in FileNames
    BY <1>2, ElementShapes
  <2>2. content[a.file] \in Seq(Elements)
    BY <2>1 DEF Contents
  <2>3. Replaced(a, content) = <<Gone>> \o content[a.file]
    BY <1>2 DEF Replaced
  <2> DEFINE g == <<Gone>>
             t == content[a.file]
  <2>4. g \in Seq(Elements) /\ Len(g) = 1
    BY DEF Elements
  <2> HIDE DEF g, t
  <2>5. g \o t \in Seq(Elements) /\ Len(g \o t) = Len(g) + Len(t) /\ Len(t) \in Nat
    <3>1. t \in Seq(Elements)
      BY <2>2 DEF t
    <3> QED  BY <2>4, <3>1, Concat, SeqType
  <2>6. g \o t # <<>>
    BY <2>4, <2>5
  <2> QED  BY <1>2, <2>1, <2>2, <2>3, <2>5, <2>6 DEF g, t
<1> QED  BY <1>1, <1>2

\* The next argument follows, or is the end of all hope.
LEMMA ArgumentFollows ==
    ASSUME NEW E, NEW D \in Seq(Elements), NEW R \in Seq(Elements), NEW a \in Elements,
           a.shape \notin {"gone", "ddash"}, E = D \o (<<a>> \o R), NEW q, ~q.ignoring, ~q.done,
           q.group = <<>>, ~Bad(q) => Remains(q.frames, R),
           NEW b, b = Strip(D), Follows(q, b \o <<a>>)
    PROVE  Going(q, E) \/ (Bad(q) /\ ~WellFormed(Body(E)))
<1>1. <<a>> \in Seq(Elements) /\ D \o <<a>> \in Seq(Elements)
  BY Concat
<1>2. E = (D \o <<a>>) \o R
  <2>1. ASSUME NEW x \in Seq(Elements) PROVE D \o (x \o R) = (D \o x) \o R
    BY Assoc
  <2> QED  BY <1>1, <2>1
<1>3. Strip(D \o <<a>>) = b \o <<a>>
  BY StripAppend
<1>4. CASE Sound(b \o <<a>>)
  <2>1. ~Bad(q) /\ Tracks(q, b \o <<a>>)
    BY <1>4 DEF Follows
  <2>2. Read(q, D \o <<a>>)
    BY <1>3, <2>1 DEF Read
  <2>3. Between(q, E)
    BY <1>1, <1>2, <2>1, <2>2 DEF Between
  <2> QED  BY <2>1, <2>3 DEF Going
<1>5. CASE ~Sound(b \o <<a>>)
  <2>1. Bad(q)
    BY <1>5 DEF Follows
  <2>2. ~WellFormed(Body((D \o <<a>>) \o R))
    BY <1>3, <1>5, Hopeless
  <2> QED  BY <1>2, <2>1, <2>2
<1> QED  BY <1>4, <1>5

LEMMA NoHope ==
    ASSUME NEW E, NEW D \in Seq(Elements), NEW R \in Seq(Elements), NEW a \in Elements,
           E = D \o (<<a>> \o R), ~Sound(Strip(D \o <<a>>)), a.shape # "ddash"
    PROVE  ~WellFormed(Body(E))
<1>1. <<a>> \in Seq(Elements)
  OBVIOUS
<1>2. E = (D \o <<a>>) \o R
  <2>1. ASSUME NEW x \in Seq(Elements) PROVE D \o (x \o R) = (D \o x) \o R
    BY Assoc
  <2> QED  BY <1>1, <2>1
<1> QED  BY <1>2, Hopeless

\* What every action on the next argument has in common.
Nexts(p, c, a, E, n) ==
    /\ a \in Arguments /\ a \in Elements
    /\ c = Consumed(p) /\ ParserType(c) /\ ~Bad(c) /\ SameOptions(p, c)
    /\ c.frames # <<>> /\ c.group = <<>> /\ c.ignoring = p.ignoring /\ ~c.done
    /\ n = Len(p.frames) /\ n \in 1 .. MaxIncludeDepth + 2 /\ Len(c.frames) = n
    /\ \E D \in Seq(Elements), R \in Seq(Elements) :
         /\ Remains(c.frames, R) /\ Read(p, D) /\ Read(c, D)
         /\ E = D \o (Replaced(a, Included[Level(n)]) \o R)

LEMMA ReadSame ==
    ASSUME NEW p, NEW q, SameOptions(p, q), q.ignoring = p.ignoring, NEW D, Read(p, D)
    PROVE  Read(q, D)
BY TracksSame DEF Read

LEMMA NextStep ==
    ASSUME ParserOK, NEW E \in Seq(Elements), Going(parser, E), NEW type, Argument(type)
    PROVE  Nexts(parser, Consumed(parser), Head(Stream), E, Len(parser.frames))
<1> DEFINE c == Consumed(parser)
<1>1. /\ ParserType(parser) /\ parser.frames # <<>> /\ Last(parser.frames) # <<>>
      /\ Len(parser.frames) <= MaxIncludeDepth + 2 /\ parser.group = <<>> /\ ~parser.done
  BY DEF ParserOK, Argument, Reading, Stream
<1>2. ~Bad(parser)
  BY DEF Going
<1>3. Between(parser, E)
  <2> SUFFICES ASSUME Within(parser, E) PROVE FALSE
    BY DEF Going
  <2>1. PICK a \in Elements : a.shape = "dash" /\ parser.group = a.names
    BY DEF Within
  <2>2. a \in Arguments
    BY <2>1, ElementShapes
  <2> QED  BY <1>1, <2>1, <2>2, ArgumentsAssumption
<1>4. /\ ParserType(c) /\ Len(c.frames) = Len(parser.frames) /\ c.frames # <<>>
      /\ SameOptions(parser, c) /\ c.group = parser.group
      /\ c.ignoring = parser.ignoring /\ c.done = parser.done
  BY <1>1, StreamKeeps
<1>5. /\ Head(Stream) \in Arguments /\ Len(parser.frames) \in 1 .. MaxIncludeDepth + 2
      /\ \E D \in Seq(Elements), R \in Seq(Elements) :
           /\ Remains(c.frames, R) /\ Read(parser, D)
           /\ E = D \o (Replaced(Head(Stream), Included[Level(Len(parser.frames))]) \o R)
  <2> DEFINE f == parser.frames
             a == Head(Last(f))
  <2>1. /\ a \in Arguments /\ Len(f) \in 1 .. MaxIncludeDepth + 2
        /\ Stands(parser, c.frames, a, E, Len(f))
    BY <1>1, <1>3, NextArgument
  <2> QED  BY <2>1 DEF Stream, Stands
<1>6. ~Bad(c)
  BY <1>2, <1>4, TracksSame
<1> HIDE DEF c
<1>7. \A D : Read(parser, D) => Read(c, D)
  BY <1>4, ReadSame
<1>8. Head(Stream) \in Elements
  BY <1>5 DEF Elements
<1> QED  BY <1>1, <1>4, <1>5, <1>6, <1>7, <1>8 DEF Nexts, c

\* An argument that is not a file stands for itself.
Itself(p, c, a, E, D, R) ==
    Remains(c.frames, R) /\ Read(p, D) /\ Read(c, D) /\ E = D \o (<<a>> \o R)

LEMMA ItselfNext ==
    ASSUME NEW p, NEW c, NEW a, NEW E, NEW n, Nexts(p, c, a, E, n), a.shape # "at"
    PROVE  \E D \in Seq(Elements), R \in Seq(Elements) : Itself(p, c, a, E, D, R)
<1>1. Replaced(a, Included[Level(n)]) = <<a>>
  BY DEF Replaced
<1> QED  BY <1>1 DEF Nexts, Itself

LEMMA EndOfOptionsGoes ==
    ASSUME ParserOK, NEW E \in Seq(Elements), Going(parser, E), EndOfOptions
    PROVE  Going(parser', E)
<1> DEFINE c == Consumed(parser)
           a == Head(Stream)
           n == Len(parser.frames)
           q == parser'
<1>1. Argument("ddash") /\ q = [c EXCEPT !.ignoring = TRUE] /\ ArgumentType(parser, a) = "ddash"
  BY DEF EndOfOptions, Argument
<1>2. Nexts(parser, c, a, E, n)
  BY <1>1, NextStep
<1> HIDE DEF c, a, n, q
<1>3. /\ a \in Elements /\ a \in Arguments /\ ParserType(c) /\ ~Bad(c) /\ c.group = <<>>
      /\ ~c.done /\ c.ignoring = parser.ignoring
  BY <1>2 DEF Nexts
<1>4. ~parser.ignoring /\ a.shape = "ddash"
  BY <1>1, <1>3, ArgumentTypeIs
<1>5. /\ SameOptions(c, q) /\ q.frames = c.frames /\ q.group = <<>> /\ ~q.done /\ q.ignoring
  BY <1>1, <1>3 DEF ParserType, Fields, SameOptions
<1>6. PICK D \in Seq(Elements), R \in Seq(Elements) :
             Remains(c.frames, R) /\ Read(c, D) /\ E = D \o (<<a>> \o R)
  <2>1. \E D \in Seq(Elements), R \in Seq(Elements) : Itself(parser, c, a, E, D, R)
    BY <1>2, <1>4, ItselfNext
  <2> QED  BY <2>1 DEF Itself
<1>7. <<a>> \in Seq(Elements) /\ D \o <<a>> \in Seq(Elements)
  BY <1>3, Concat
<1>8. E = (D \o <<a>>) \o R
  <2>1. ASSUME NEW x \in Seq(Elements) PROVE D \o (x \o R) = (D \o x) \o R
    BY Assoc
  <2> QED  BY <1>6, <1>7, <2>1
<1>9. Tracks(q, Strip(D))
  <2>1. Tracks(c, Strip(D))
    BY <1>3, <1>4, <1>6 DEF Read
  <2> QED  BY <1>5, <2>1, TracksSame
<1>10. Read(q, D \o <<a>>)
  BY <1>3, <1>4, <1>5, <1>9 DEF Read
<1>11. Between(q, E)
  BY <1>5, <1>6, <1>7, <1>8, <1>10 DEF Between
<1>12. ~Bad(q)
  BY <1>3, <1>5, TracksSame
<1> QED  BY <1>5, <1>11, <1>12 DEF Going, q

LEMMA FreeArgumentGoes ==
    ASSUME ParserOK, NEW E \in Seq(Elements), Going(parser, E), FreeArgument
    PROVE  Bad(parser') /\ ~WellFormed(Body(E))
<1> DEFINE c == Consumed(parser)
           a == Head(Stream)
           n == Len(parser.frames)
<1>1. /\ Argument("free") /\ parser' = [c EXCEPT !.ignored = TRUE]
      /\ ArgumentType(parser, a) = "free"
  BY DEF FreeArgument, Argument
<1>2. Nexts(parser, c, a, E, n)
  BY <1>1, NextStep
<1> HIDE DEF c, a, n
<1>3. a \in Elements /\ a \in Arguments /\ ParserType(c) /\ n \in 1 .. MaxIncludeDepth + 2
  BY <1>2 DEF Nexts
<1>4. Bad(parser')
  BY <1>1, <1>3 DEF ParserType, Fields, Bad
<1>5. parser.ignoring \/ (~WillAcceptArgument(parser) /\ IsText(a))
  BY <1>1, <1>3, ArgumentTypeIs
<1>6. CASE parser.ignoring
  <2> DEFINE r == Replaced(a, Included[Level(n)])
  <2>1. PICK D \in Seq(Elements), R \in Seq(Elements) :
               Read(parser, D) /\ E = D \o (r \o R)
    BY <1>2 DEF Nexts
  <2>2. r \in Seq(Elements) /\ r # <<>>
    BY <1>3, LevelRange, ReplacedIs
  <2> HIDE DEF r
  <2>3. r \o R \in Seq(Elements) /\ r \o R # <<>>
    <3>1. /\ r \o R \in Seq(Elements) /\ Len(r \o R) = Len(r) + Len(R)
          /\ Len(r) \in Nat /\ Len(R) \in Nat /\ Len(r) # 0
      BY <2>2, Concat, SeqType
    <3> QED  BY <3>1
  <2>4. PICK C \in Seq(Elements), d \in Elements : D = C \o <<d>>
    BY <1>6, <2>1 DEF Read
  <2>5. ~Sound(Strip(D))
    BY <1>6, <2>1, ReadSound
  <2>6. ASSUME NEW t \in Seq(Elements), t # <<>> PROVE ~WellFormed(Body((C \o <<d>>) \o t))
    BY <2>4, <2>5, <2>6, Hopeless
  <2> QED  BY <1>4, <2>1, <2>3, <2>4, <2>6
<1>7. CASE ~parser.ignoring
  <2>0. ~WillAcceptArgument(parser) /\ IsText(a) /\ a.shape \notin {"at", "gone", "ddash"}
    BY <1>5, <1>7 DEF IsText
  <2>1. PICK D \in Seq(Elements), R \in Seq(Elements) :
               Read(parser, D) /\ E = D \o (<<a>> \o R)
    <3>1. \E D \in Seq(Elements), R \in Seq(Elements) : Itself(parser, c, a, E, D, R)
      BY <1>2, <2>0, ItselfNext
    <3> QED  BY <3>1 DEF Itself
  <2>2. Tracks(parser, Strip(D))
    BY <1>7, <2>1 DEF Read
  <2>3. ~Pending(Strip(D))
    BY <2>0, <2>2, PendingNeedsMore DEF ParserOK
  <2>4. ~Sound(Strip(D) \o <<a>>)
    BY <1>3, <2>0, <2>2, <2>3, FreeFollows DEF ParserOK
  <2>5. ~Sound(Strip(D \o <<a>>))
    BY <1>3, <2>0, <2>4, StripAppend
  <2> QED  BY <1>3, <1>4, <2>0, <2>1, <2>5, NoHope
<1> QED  BY <1>6, <1>7

\* An included file takes the place of the argument that names it.
LEMMA IncludeGoes ==
    ASSUME ParserOK, NEW E \in Seq(Elements), Going(parser, E), Include
    PROVE  Line(parser', E)
<1> DEFINE c == Consumed(parser)
           a == Head(Stream)
           n == Len(parser.frames)
           q == parser'
           s == Included[Level(n)][a.file]
           p == [parser EXCEPT !.frames = <<>>]
           new == Append(c.frames, Files[a.file])
<1>0. ASSUME NEW x \in Seq(Elements), NEW y \in Seq(Elements), NEW z \in Seq(Elements)
      PROVE  (x \o y) \o z = x \o (y \o z)
  BY Assoc
<1>1. /\ Argument("at") /\ ArgumentType(parser, a) = "at"
      /\ TooDeep(parser) <=> n - 1 > MaxIncludeDepth
      /\ TooDeep(parser) => q = AddError(p, "INCLUDE_TOO_DEEP")
      /\ ~TooDeep(parser) /\ a.file \in DOMAIN Files =>
           q = [c EXCEPT !.frames = Append(@, Files[a.file])]
      /\ ~TooDeep(parser) /\ a.file \notin DOMAIN Files => q = c
  BY DEF Include, Argument, TooDeep
<1>2. Nexts(parser, c, a, E, n)
  BY <1>1, NextStep
<1> HIDE DEF c, a, n, q
<1>3. /\ a \in Elements /\ a \in Arguments /\ ParserType(c) /\ ~Bad(c) /\ c.group = <<>>
      /\ ~c.done /\ c.ignoring = parser.ignoring /\ n \in 1 .. MaxIncludeDepth + 2
      /\ Len(c.frames) = n
  BY <1>2 DEF Nexts
<1>4. ~parser.ignoring /\ a.shape = "at"
  BY <1>1, <1>3, ArgumentTypeIs
<1>5. /\ Replaced(a, Included[Level(n)]) = <<Gone>> \o s /\ s \in Seq(Elements)
      /\ a.file \in FileNames
  <2>1. Included[Level(n)] \in Contents
    BY <1>3, LevelRange
  <2> QED  BY <1>3, <1>4, <2>1, ReplacedIs
<1>6. PICK D \in Seq(Elements), R \in Seq(Elements) :
             Remains(c.frames, R) /\ Read(c, D) /\ E = D \o ((<<Gone>> \o s) \o R)
  <2> HIDE DEF s
  <2> QED  BY <1>2, <1>5 DEF Nexts
<1>7. /\ Gone \in Elements /\ Gone.shape = "gone" /\ Deep \in Elements /\ Deep.shape = "deep"
      /\ <<Gone>> \in Seq(Elements) /\ <<Deep>> \in Seq(Elements)
  BY DEF Elements, Gone, Deep
<1> DEFINE B == D \o <<Gone>>
<1>8. B \in Seq(Elements) /\ Strip(B) = Strip(D)
  BY <1>7, Concat, StripAppend
<1>9. E = B \o (s \o R)
  <2> DEFINE g == <<Gone>>
             x == g \o s
  <2>1. g \in Seq(Elements) /\ s \in Seq(Elements) /\ B = D \o g /\ E = D \o (x \o R)
    BY <1>5, <1>6, <1>7
  <2> HIDE DEF g, s, B
  <2>2. x \in Seq(Elements)
    BY <2>1, Concat
  <2> HIDE DEF x
  <2>3. E = (D \o x) \o R
    <3>1. (D \o x) \o R = D \o (x \o R)
      BY <1>0, <2>2
    <3> QED  BY <2>1, <3>1
  <2>4. D \o x = B \o s
    BY <1>0, <2>1 DEF x
  <2>5. (B \o s) \o R = B \o (s \o R)
    BY <1>0, <1>8, <2>1
  <2> QED  BY <2>3, <2>4, <2>5
<1>10. Tracks(c, Strip(B))
  BY <1>3, <1>4, <1>6, <1>8 DEF Read
<1> HIDE DEF B, s, new, p
<1>11. CASE TooDeep(parser)
  <2>1. Bad(q)
    <3>1. ParserType(p)
      <4>1. p.frames = <<>> /\ <<>> \in Seq(Range(<<>>))
        BY DEF p, ParserOK, ParserType, Fields
      <4> QED  BY <4>1 DEF p, ParserOK, ParserType, Fields
    <3> QED  BY <1>1, <1>11, <3>1, AddErrorKeeps DEF Bad
  <2>2. n = MaxIncludeDepth + 2
    BY <1>1, <1>3, <1>11, DepthAssumption
  <2>3. s = <<Deep>>
    <3>1. Level(n) = 0
      BY <2>2, DepthAssumption DEF Level
    <3> QED  BY <1>5, <3>1, IncludedFacts DEF s
  <2>4. ~Sound(Strip(B \o <<Deep>>))
    <3>1. Strip(B \o <<Deep>>) = Strip(B) \o <<Deep>>
      BY <1>7, <1>8, StripAppend
    <3>2. Strip(B) \in Seq(Elements) /\ Sound(Strip(B))
      BY <1>10 DEF Tracks
    <3> QED  BY <1>7, <3>1, <3>2, OddFollows
  <2>5. ~WellFormed(Body(E))
    BY <1>7, <1>8, <1>9, <2>3, <2>4, NoHope
  <2> QED  BY <2>1, <2>5 DEF Line, Lost, Doomed, q
<1>12. CASE ~TooDeep(parser)
  <2>1. /\ Level(n) \in 1 .. MaxIncludeDepth + 1 /\ Level(n + 1) = Level(n) - 1
        /\ n + 1 <= MaxIncludeDepth + 2
    <3>1. n <= MaxIncludeDepth + 1
      BY <1>1, <1>3, <1>12, DepthAssumption
    <3>2. n + 1 <= MaxIncludeDepth + 2
      BY <1>3, <3>1, DepthAssumption
    <3>3. Level(n) \in 1 .. MaxIncludeDepth + 1 /\ Level(n + 1) = Level(n) - 1
      BY <1>3, <3>1, LevelRange
    <3> QED  BY <3>2, <3>3
  <2>2. /\ a.file \notin DOMAIN Files => s = <<>>
        /\ a.file \in DOMAIN Files => s = Spread(Files[a.file], Included[Level(n + 1)])
    BY <1>5, <2>1, IncludedFacts DEF s
  <2>3. CASE a.file \notin DOMAIN Files
    <3>1. s \o R = R /\ q = c
      BY <1>1, <1>12, <2>2, <2>3
    <3>2. Read(c, B)
      BY <1>3, <1>4, <1>10 DEF Read
    <3>3. Between(c, E)
      BY <1>3, <1>6, <1>8, <1>9, <3>1, <3>2 DEF Between
    <3> QED  BY <1>3, <3>1, <3>3 DEF Line, Going, q
  <2>4. CASE a.file \in DOMAIN Files
    <3>1. q = [c EXCEPT !.frames = new]
      <4>1. q = [c EXCEPT !.frames = Append(@, Files[a.file])]
        BY <1>1, <1>12, <2>4
      <4> QED  BY <1>3, <4>1 DEF new, ParserType, Fields
    <3>2. /\ SameOptions(c, q) /\ q.frames = new /\ q.group = <<>> /\ ~q.done
          /\ ~q.ignoring
      BY <1>3, <1>4, <3>1 DEF ParserType, Fields, SameOptions
    <3>3. Remains(new, s \o R)
      <4>1. Files[a.file] \in Seq(Arguments)
        BY <2>4, ArgumentsAssumption DEF Range
      <4> DEFINE f == Files[a.file]
      <4>2. f \in Seq(Arguments) /\ ~(n + 1 > MaxIncludeDepth + 2)
        BY <1>3, <2>1, <4>1, DepthAssumption
      <4> HIDE DEF f
      <4>3. Remains(Append(c.frames, f), Spread(f, Included[Level(n + 1)]) \o R)
        BY <1>3, <1>6, <4>2, RemainsPush
      <4> QED  BY <2>2, <2>4, <4>3 DEF f, new
    <3>4. s \o R \in Seq(Elements)
      BY <1>5, Concat
    <3>5. Tracks(q, Strip(B)) /\ ~Bad(q)
      BY <1>3, <1>10, <3>2, TracksSame
    <3>6. Read(q, B)
      BY <3>2, <3>5 DEF Read
    <3>7. Between(q, E)
      BY <1>8, <1>9, <3>2, <3>3, <3>4, <3>6 DEF Between
    <3> QED  BY <3>2, <3>5, <3>7 DEF Line, Going, q
  <2> QED  BY <2>3, <2>4
<1> QED  BY <1>11, <1>12

\* The end of a loop changes nothing for a parser without an exit.
LEMMA ReturningGoes ==
    ASSUME NEW p, ParserType(p), p.frames # <<>>, p.group = <<>>, NEW E,
           Going(p, E) \/ (Bad(p) /\ ~WellFormed(Body(E)))
    PROVE  Line(Returning(p), E)
<1>1. CASE Going(p, E)
  <2>1. ~p.exit
    BY <1>1 DEF Going, Bad
  <2>2. Returning(p) = p
    BY <2>1, StreamKeeps
  <2> QED  BY <1>1, <2>2 DEF Line
<1>2. CASE Bad(p) /\ ~WellFormed(Body(E))
  <2>1. SameOptions(p, Returning(p))
    BY StreamKeeps
  <2>2. Bad(Returning(p))
    BY <1>2, <2>1, TracksSame
  <2> QED  BY <1>2, <2>2 DEF Line, Lost, Doomed
<1> QED  BY <1>1, <1>2

LEMMA LongOptionGoes ==
    ASSUME ParserOK, NEW E \in Seq(Elements), Going(parser, E), LongOption
    PROVE  Line(parser', E)
<1> DEFINE c == Consumed(parser)
           a == Head(Stream)
           n == Len(parser.frames)
           q == StartOption(c, a.name, a.arg)
<1>1. /\ Argument("long") /\ parser' = Returning(q) /\ ArgumentType(parser, a) = "long"
  BY DEF LongOption, Argument
<1>2. Nexts(parser, c, a, E, n)
  BY <1>1, NextStep
<1> HIDE DEF c, a, n
<1>3. /\ a \in Elements /\ a \in Arguments /\ ParserType(c) /\ ~Bad(c) /\ c.group = <<>>
      /\ ~c.done /\ c.ignoring = parser.ignoring /\ c.frames # <<>>
  BY <1>2 DEF Nexts
<1>4. ~parser.ignoring /\ a.shape = "long"
  BY <1>1, <1>3, ArgumentTypeIs
<1>5. PICK D \in Seq(Elements), R \in Seq(Elements) :
             Remains(c.frames, R) /\ Read(c, D) /\ E = D \o (<<a>> \o R)
  <2>1. \E D \in Seq(Elements), R \in Seq(Elements) : Itself(parser, c, a, E, D, R)
    BY <1>2, <1>4, ItselfNext
  <2> QED  BY <2>1 DEF Itself
<1>6. Tracks(c, Strip(D))
  BY <1>3, <1>4, <1>5 DEF Read
<1>7. ParserType(q) /\ SameLoop(c, q)
  BY <1>3, StartOptionKeeps
<1>8. Follows(q, Strip(D) \o <<a>>)
  BY <1>3, <1>4, <1>6, LongFollows
<1> HIDE DEF q
<1>9. ~q.ignoring /\ ~q.done /\ q.group = <<>> /\ q.frames = c.frames
  BY <1>3, <1>4, <1>7 DEF SameLoop
<1>10. Going(q, E) \/ (Bad(q) /\ ~WellFormed(Body(E)))
  BY <1>3, <1>4, <1>5, <1>8, <1>9, ArgumentFollows
<1> QED  BY <1>1, <1>3, <1>7, <1>9, <1>10, ReturningGoes

LEMMA OptionValueGoes ==
    ASSUME ParserOK, NEW E \in Seq(Elements), Going(parser, E), OptionValue
    PROVE  Line(parser', E)
<1> DEFINE c == Consumed(parser)
           a == Head(Stream)
           n == Len(parser.frames)
           s == SetValue(c, parser.active, a.text)
           q == IF WillAcceptArgument(s) THEN s ELSE CloseOption(s)
<1>1. /\ Argument("value") /\ parser' = Returning(q) /\ ArgumentType(parser, a) = "value"
  BY DEF OptionValue, Argument
<1>2. Nexts(parser, c, a, E, n)
  BY <1>1, NextStep
<1> HIDE DEF c, a, n
<1>3. /\ a \in Elements /\ a \in Arguments /\ ParserType(c) /\ ~Bad(c) /\ c.group = <<>>
      /\ ~c.done /\ c.ignoring = parser.ignoring /\ c.frames # <<>>
      /\ c.active = parser.active /\ c.current = parser.current
  BY <1>2 DEF Nexts, SameOptions
<1>4. ~parser.ignoring /\ IsText(a) /\ WillAcceptArgument(parser)
  BY <1>1, <1>3, ArgumentTypeIs
<1>5. PICK D \in Seq(Elements), R \in Seq(Elements) :
             Remains(c.frames, R) /\ Read(c, D) /\ E = D \o (<<a>> \o R)
  <2>1. \E D \in Seq(Elements), R \in Seq(Elements) : Itself(parser, c, a, E, D, R)
    <3>1. a.shape # "at"
      BY <1>4 DEF IsText
    <3> QED  BY <1>2, <3>1, ItselfNext
  <2> QED  BY <2>1 DEF Itself
<1>6. Tracks(c, Strip(D))
  BY <1>3, <1>4, <1>5 DEF Read
<1>7. Pending(Strip(D)) /\ c.active \in Options
  <2>1. WillAcceptArgument(c)
    BY <1>3, <1>4 DEF WillAcceptArgument
  <2> QED  BY <1>3, <1>6, <2>1, PendingNeedsMore
<1>8. s = SetValue(c, c.active, a.text)
  BY <1>3
<1>9. ParserType(s) /\ SameLoop(c, s)
  BY <1>3, <1>7, <1>8, SetValueKeeps
<1> HIDE DEF s
<1>10. ParserType(q) /\ SameLoop(c, q)
  BY <1>9, CloseOptionKeeps DEF SameLoop
<1>11. Follows(q, Strip(D) \o <<a>>)
  BY <1>3, <1>4, <1>6, <1>7, <1>8, ValueFollows
<1> HIDE DEF q
<1>12. ~q.ignoring /\ ~q.done /\ q.group = <<>> /\ q.frames = c.frames
  BY <1>3, <1>4, <1>10 DEF SameLoop
<1>13. a.shape \notin {"gone", "ddash"}
  BY <1>4 DEF IsText
<1>14. Going(q, E) \/ (Bad(q) /\ ~WellFormed(Body(E)))
  BY <1>3, <1>5, <1>11, <1>12, <1>13, ArgumentFollows
<1> QED  BY <1>1, <1>3, <1>10, <1>12, <1>14, ReturningGoes

LEMMA DashOptionsGoes ==
    ASSUME ParserOK, NEW E \in Seq(Elements), Going(parser, E), DashOptions
    PROVE  Line(parser', E)
<1> DEFINE c == Consumed(parser)
           a == Head(Stream)
           n == Len(parser.frames)
           q == parser'
<1>1. /\ Argument("dash") /\ q = [c EXCEPT !.group = a.names]
      /\ ArgumentType(parser, a) = "dash"
  BY DEF DashOptions, Argument
<1>2. Nexts(parser, c, a, E, n)
  BY <1>1, NextStep
<1> HIDE DEF c, a, n, q
<1>3. /\ a \in Elements /\ a \in Arguments /\ ParserType(c) /\ ~Bad(c)
      /\ ~c.done /\ c.ignoring = parser.ignoring
      /\ c.active = parser.active /\ c.current = parser.current
  BY <1>2 DEF Nexts, SameOptions
<1>4. ~parser.ignoring /\ a.shape = "dash" /\ ~(a.numeric /\ WillAcceptArgument(c))
  <2>1. WillAcceptArgument(c) <=> WillAcceptArgument(parser)
    BY <1>3 DEF WillAcceptArgument
  <2> QED  BY <1>1, <1>3, <2>1, ArgumentTypeIs
<1>5. PICK D \in Seq(Elements), R \in Seq(Elements) :
             Remains(c.frames, R) /\ Read(c, D) /\ E = D \o (<<a>> \o R)
  <2>1. \E D \in Seq(Elements), R \in Seq(Elements) : Itself(parser, c, a, E, D, R)
    BY <1>2, <1>4, ItselfNext
  <2> QED  BY <2>1 DEF Itself
<1>6. Tracks(c, Strip(D))
  BY <1>3, <1>4, <1>5 DEF Read
<1>7. /\ ParserType(q) /\ SameOptions(c, q) /\ q.frames = c.frames /\ q.group = a.names
      /\ q.done = c.done /\ q.ignoring = c.ignoring
  BY <1>1, <1>3 DEF ParserType, Fields, SameOptions
<1>8. Tracks(q, Strip(D)) /\ ~Bad(q)
  BY <1>3, <1>6, <1>7, TracksSame
<1>9. CASE IsStart(a) /\ ~Pending(Strip(D))
  <2>1. <<a>> \in Seq(Elements)
    BY <1>3
  <2>2. E = (D \o <<a>>) \o R
    <3>1. ASSUME NEW x \in Seq(Elements) PROVE D \o (x \o R) = (D \o x) \o R
      BY Assoc
    <3> QED  BY <1>5, <2>1, <3>1
  <2>3. Within(q, E)
    BY <1>3, <1>4, <1>5, <1>7, <1>8, <1>9, <2>2 DEF Within
  <2> QED  BY <1>3, <1>7, <1>8, <2>3 DEF Line, Going, q
<1>10. CASE ~(IsStart(a) /\ ~Pending(Strip(D)))
  <2>1. ~(a.numeric /\ WillAcceptArgument(q))
    BY <1>4, <1>7 DEF WillAcceptArgument, SameOptions
  <2>2. Fruitless(q) /\ ~Sound(Strip(D) \o <<a>>)
    <3> DEFINE b == Strip(D)
    <3>1. Tracks(q, b) /\ ~(IsStart(a) /\ ~Pending(b))
      BY <1>8, <1>10
    <3> HIDE DEF b
    <3>2. Fruitless(q) /\ ~Sound(b \o <<a>>)
      BY <1>3, <1>4, <1>7, <1>8, <2>1, <3>1, GroupFollows
    <3> QED  BY <3>2 DEF b
  <2>3. Strip(D \o <<a>>) = Strip(D) \o <<a>>
    BY <1>3, <1>4, StripAppend
  <2>4. ~WellFormed(Body(E))
    BY <1>3, <1>4, <1>5, <2>2, <2>3, NoHope
  <2> QED  BY <2>2, <2>4 DEF Line, Lost, Doomed, q
<1> QED  BY <1>9, <1>10

LEMMA DashOptionGoes ==
    ASSUME ParserOK, NEW E \in Seq(Elements), Going(parser, E), DashOption
    PROVE  Line(parser', E)
<1> DEFINE g == parser.group
           s == StartOption(parser, Head(g), "")
           p == [s EXCEPT !.group = Tail(@)]
<1>1. g # <<>> /\ parser' = IF p.group = <<>> THEN Returning(p) ELSE p
  BY DEF DashOption
<1>2. ParserType(parser) /\ ~Bad(parser) /\ ~parser.done
  BY DEF ParserOK, Going
<1>3. PICK D \in Seq(Elements), R \in Seq(Elements), a \in Elements :
         /\ Remains(parser.frames, R) /\ E = (D \o <<a>>) \o R
         /\ a.shape = "dash" /\ IsStart(a) /\ g = a.names
         /\ ~Pending(Strip(D)) /\ Tracks(parser, Strip(D)) /\ ~parser.ignoring
  BY <1>1 DEF Going, Between, Within
<1>4. /\ Len(g) = 1 /\ ~Bad(StartOption(parser, a.names[1], ""))
      /\ Tracks(StartOption(parser, a.names[1], ""), Strip(D) \o <<a>>)
  BY <1>2, <1>3, ShortFollows
<1>5. Head(g) = a.names[1] /\ Tail(g) = <<>>
  <2>1. a \in Arguments
    BY <1>3, ElementShapes
  <2>2. g \in Seq(Range(g)) /\ g # <<>>
    BY <1>3, <2>1, ArgumentsAssumption
  <2> DEFINE X == Range(g)
             t == Tail(g)
  <2> HIDE DEF X
  <2>3. g \in Seq(X)
    BY <2>2 DEF X
  <2>4. t \in Seq(X) /\ Len(t) = Len(g) - 1
    BY <2>2, <2>3, HeadTail
  <2>5. t = <<>>
    <3> HIDE DEF t
    <3>0. Len(t) = Len(g) - 1 /\ Len(g) = 1
      BY <1>4, <2>4
    <3> HIDE DEF g
    <3>1. Len(t) = 0
      BY <3>0
    <3>2. ASSUME NEW x \in Seq(X), Len(x) = 0 PROVE x = <<>>
      BY <3>2, SeqType
    <3> QED  BY <2>4, <3>1, <3>2
  <2>6. Head(g) = g[1]
    BY <2>2
  <2> QED  BY <1>3, <2>5, <2>6
<1>6. ~Bad(s) /\ Tracks(s, Strip(D) \o <<a>>)
  BY <1>4, <1>5
<1>7. ParserType(s) /\ SameLoop(parser, s)
  BY <1>2, StartOptionKeeps
<1> HIDE DEF s
<1>8. /\ ParserType(p) /\ SameOptions(s, p) /\ p.frames = s.frames /\ p.group = Tail(s.group)
      /\ p.done = s.done /\ p.ignoring = s.ignoring
  BY <1>7 DEF ParserType, Fields, SameOptions
<1> HIDE DEF p
<1>9. /\ p.frames = parser.frames /\ p.group = <<>> /\ ~p.done /\ ~p.ignoring
      /\ p.frames # <<>>
  BY <1>1, <1>2, <1>3, <1>5, <1>7, <1>8 DEF SameLoop, ParserOK
<1>10. ~Bad(p) /\ Tracks(p, Strip(D) \o <<a>>)
  BY <1>6, <1>8, TracksSame
<1>11. D \o <<a>> \in Seq(Elements) /\ Strip(D \o <<a>>) = Strip(D) \o <<a>>
  BY <1>3, OneMore, StripAppend
<1>12. Read(p, D \o <<a>>)
  BY <1>9, <1>10, <1>11 DEF Read
<1>13. Between(p, E)
  BY <1>3, <1>9, <1>11, <1>12 DEF Between
<1>14. Going(p, E)
  BY <1>9, <1>10, <1>13 DEF Going
<1> QED  BY <1>1, <1>8, <1>9, <1>14, ReturningGoes

LEMMA EndOfStreamGoes ==
    ASSUME ParserOK, NEW E \in Seq(Elements), Going(parser, E), EndOfStream
    PROVE  Line(parser', E)
<1> DEFINE f == parser.frames
           q == parser'
           none == <<>>
<1>1. /\ q = [parser EXCEPT !.frames = Front(@)] /\ f # <<>> /\ Last(f) = none
      /\ parser.group = <<>> /\ ParserType(parser) /\ Len(f) <= MaxIncludeDepth + 2
  BY DEF EndOfStream, Reading, Stream, ParserOK
<1>2. ~Bad(parser) /\ ~parser.done
  BY DEF Going
<1>3. Between(parser, E)
  <2> SUFFICES ASSUME Within(parser, E) PROVE FALSE
    BY DEF Going
  <2>1. PICK a \in Elements : a.shape = "dash" /\ parser.group = a.names
    BY DEF Within
  <2>2. a \in Arguments
    BY <2>1, ElementShapes
  <2> QED  BY <1>1, <2>1, <2>2, ArgumentsAssumption
<1>4. PICK D \in Seq(Elements), R \in Seq(Elements) :
             Remains(f, R) /\ E = D \o R /\ Read(parser, D)
  BY <1>3 DEF Between
<1>5. Remains(Front(f), R)
  <2> HIDE DEF f, none
  <2>1. /\ Len(f) \in 1 .. MaxIncludeDepth + 2
        /\ \E outer : /\ Remains(Front(f), outer)
                      /\ R = Spread(Last(f), Included[Level(Len(f))]) \o outer
    <3>1. ASSUME NEW x, Remains(x, R), x # <<>>, Len(x) <= MaxIncludeDepth + 2
          PROVE  /\ Len(x) \in 1 .. MaxIncludeDepth + 2
                 /\ \E outer : /\ Remains(Front(x), outer)
                               /\ R = Spread(Last(x), Included[Level(Len(x))]) \o outer
      BY <3>1, RemainsPop
    <3> QED  BY <1>1, <1>4, <3>1
  <2>2. PICK outer : Remains(Front(f), outer)
                       /\ R = Spread(none, Included[Level(Len(f))]) \o outer
    BY <1>1, <2>1
  <2>3. Spread(none, Included[Level(Len(f))]) = <<>>
    <3>1. Included[Level(Len(f))] \in Contents
      BY <2>1, LevelRange
    <3>2. none \in Seq(Elements) /\ none = <<>>
      BY DEF none
    <3> QED  BY <3>1, <3>2, SpreadHead
  <2>4. outer \in Seq(Elements)
    BY <2>2, RemainsSeq
  <2>5. R = outer
    BY <2>2, <2>3, <2>4
  <2> QED  BY <2>2, <2>5
<1>6. /\ SameOptions(parser, q) /\ q.frames = Front(f) /\ q.group = <<>> /\ ~q.done
      /\ q.ignoring = parser.ignoring
  BY <1>1, <1>2 DEF ParserType, Fields, SameOptions
<1> HIDE DEF f, q
<1>7. Read(q, D)
  BY <1>4, <1>6, ReadSame
<1>8. Between(q, E)
  BY <1>4, <1>5, <1>6, <1>7 DEF Between
<1>9. ~Bad(q)
  BY <1>2, <1>6, TracksSame
<1> QED  BY <1>6, <1>8, <1>9 DEF Line, Going, q

LEMMA NothingGiven ==
    ~WellFormed(Body(Expanded(<<>>)))
<1> DEFINE none == <<>>
<1>1. none \in Seq(Elements) /\ none = <<>>
  OBVIOUS
<1> HIDE DEF none
<1>2. Included[MaxIncludeDepth + 1] \in Contents
  BY IncludedFacts, DepthAssumption
<1>3. Expanded(none) = none
  BY <1>1, <1>2, SpreadHead DEF Expanded
<1>4. Body(none) = none
  <2>1. Strip(<<>>) = <<>>
    <3>1. Gone \in Elements
      BY DEF Elements
    <3> QED  BY <3>1, StripSmall
  <2> QED  BY <1>1, <2>1 DEF Body
<1>5. Made(none) = {}
  <2>1. DOMAIN none = {}
    BY <1>1
  <2> QED  BY <2>1 DEF Made
<1>6. ~WellFormed(none)
  <2> SUFFICES ASSUME WellFormed(none) PROVE FALSE
    OBVIOUS
  <2>1. Required \subseteq {OptionOf(none[i]) : i \in Made(none)}
    BY <1>1, WellFormedIsSound
  <2> QED  BY <1>5, <2>1 DEF Required
<1> QED  BY <1>1, <1>3, <1>4, <1>6

\* At the end, everything is read.
LEMMA FinishGoes ==
    ASSUME ParserOK, NEW E \in Seq(Elements), Going(parser, E), Finish
    PROVE  Line(parser', E)
<1> DEFINE b == Body(E)
           c == CloseOption(parser)
           p == [c EXCEPT !.done = TRUE]
           d == Defaulted(p)
           q == parser'
<1>1. /\ parser.frames = <<>> /\ parser.group = <<>> /\ ParserType(parser)
      /\ q = IF p.exit THEN p ELSE IF Missing(p) = {} THEN d
                             ELSE AddError(d, "MISSING_OPTION")
  BY DEF Finish, ParserOK
<1>2. ~Bad(parser)
  BY DEF Going
<1>3. Tracks(parser, b)
  <2>1. Between(parser, E)
    <3> SUFFICES ASSUME Within(parser, E) PROVE FALSE
      BY DEF Going
    <3>1. PICK a \in Elements : a.shape = "dash" /\ parser.group = a.names
      BY DEF Within
    <3>2. a \in Arguments
      BY <3>1, ElementShapes
    <3> QED  BY <1>1, <3>1, <3>2, ArgumentsAssumption
  <2>2. PICK D \in Seq(Elements), R \in Seq(Elements) :
               Remains(parser.frames, R) /\ E = D \o R /\ Read(parser, D)
    BY <2>1 DEF Between
  <2>3. R = <<>>
    BY <1>1, <2>2, RemainsNone
  <2>4. E = D
    BY <2>2, <2>3
  <2> QED  BY <2>2, <2>4, ReadBody
<1> HIDE DEF b, q
<1>4. b \in Seq(Elements) /\ Sound(b) /\ Known(b, parser.assigned, parser.targets)
  BY <1>3 DEF Tracks
<1>5. /\ ~Pending(b) => Made(b) = Assignments(b)
      /\ WellFormed(b) <=> /\ Sound(b) /\ ~Pending(b)
                           /\ Required \subseteq {OptionOf(b[i]) : i \in Made(b)}
  BY <1>4, WellFormedIsSound
<1>6. NeedsMoreArguments(parser) <=> Pending(b)
  BY <1>1, <1>3, PendingNeedsMore
<1>7. /\ ParserType(c) /\ SameLoop(parser, c)
      /\ NeedsMoreArguments(parser) => c.errors # {}
      /\ ~NeedsMoreArguments(parser) => c = [parser EXCEPT !.active = "none"]
  BY <1>1, CloseOptionKeeps
<1> HIDE DEF c
<1>8. /\ ParserType(p) /\ SameOptions(c, p) /\ p.done
  BY <1>7 DEF ParserType, Fields, SameOptions
<1> HIDE DEF p
<1>9. /\ ParserType(d) /\ d.done /\ (Bad(p) <=> Bad(d))
      /\ d.targets = [o \in Options |->
                        IF o \in DOMAIN Absent \ p.assigned THEN Absent[o] ELSE p.targets[o]]
  BY <1>8, DefaultedKeeps
<1> HIDE DEF d
<1>10. CASE Pending(b)
  <2>1. Bad(p)
    BY <1>6, <1>7, <1>8, <1>10 DEF Bad, SameOptions
  <2>2. Bad(q)
    BY <1>1, <1>9, <2>1, AddErrorKeeps DEF Bad
  <2>3. ~WellFormed(b)
    BY <1>5, <1>10
  <2> QED  BY <2>2, <2>3 DEF Line, Lost, Doomed, q, b
<1>11. CASE ~Pending(b)
  <2>1. c = [parser EXCEPT !.active = "none"]
    BY <1>6, <1>7, <1>11
  <2>2. /\ c.assigned = parser.assigned /\ c.targets = parser.targets
        /\ c.errors = parser.errors /\ c.ignored = parser.ignored /\ c.exit = parser.exit
    BY <1>1, <2>1 DEF ParserType, Fields
  <2>3. p.assigned = parser.assigned /\ p.targets = parser.targets /\ ~Bad(p) /\ ~p.exit
    BY <1>2, <1>8, <2>2 DEF SameOptions, Bad
  <2>4. parser.assigned = {OptionOf(b[i]) : i \in Made(b)}
    BY <1>4 DEF Known
  <2>5. WellFormed(b) <=> Missing(p) = {}
    BY <1>4, <1>5, <1>11, <2>3, <2>4 DEF Missing
  <2>6. CASE Missing(p) = {}
    <3>1. q = d /\ WellFormed(b) /\ ~Bad(q) /\ q.done
      BY <1>1, <1>9, <2>3, <2>5, <2>6
    <3>2. ASSUME NEW o \in Options PROVE q.targets[o] = Given(b, o)
      <4>1. Given(b, o) = IF o \in parser.assigned THEN parser.targets[o] ELSE Absent[o]
        BY <1>4, <1>11, KnownIsGiven
      <4>2. o \notin parser.assigned => o \in DOMAIN Absent
        BY <2>3, <2>6, OptionNames DEF Missing, Required
      <4>3. q.targets[o] = IF o \in DOMAIN Absent \ p.assigned THEN Absent[o]
                           ELSE p.targets[o]
        BY <1>9, <3>1
      <4> QED  BY <2>3, <4>1, <4>2, <4>3
    <3> QED  BY <3>1, <3>2 DEF Line, Right, q, b
  <2>7. CASE Missing(p) # {}
    <3>1. Bad(q)
      BY <1>1, <1>9, <2>3, <2>7, AddErrorKeeps DEF Bad
    <3> QED  BY <2>5, <2>7, <3>1 DEF Line, Lost, Doomed, q, b
  <2> QED  BY <2>6, <2>7
<1> QED  BY <1>10, <1>11

\* An error stays, and the parser is done only when no option waits.
Settles(p, q) == /\ Bad(p) => Bad(q)
                 /\ q.done => q.group = <<>>

LEMMA StepSettles ==
    ASSUME ParserOK, parser.done => parser.group = <<>>, Parse
    PROVE  Settles(parser, parser')
<1> DEFINE q == parser'
           c == Consumed(parser)
           a == Head(Stream)
<1>0. ParserType(parser)
  BY DEF ParserOK
<1>1. ASSUME parser.frames # <<>>
      PROVE  /\ ParserType(c) /\ c.frames # <<>> /\ SameOptions(parser, c)
             /\ c.group = parser.group /\ c.done = parser.done
             /\ Bad(parser) <=> Bad(c)
  BY <1>0, <1>1, StreamKeeps, TracksSame
<1> HIDE DEF c, q, a
<1>2. ASSUME NEW p, ParserType(p), p.frames # <<>>, Bad(parser) => Bad(p),
             p.done => p.group = <<>>, q = Returning(p)
      PROVE  Settles(parser, q)
  <2>1. SameOptions(p, q) /\ q.group = p.group /\ q.done = p.done
    BY <1>2, StreamKeeps
  <2>2. Bad(p) <=> Bad(q)
    BY <2>1, TracksSame
  <2> QED  BY <1>2, <2>1, <2>2 DEF Settles
<1>3. CASE Include
  <2>1. parser.frames # <<>> /\ parser.group = <<>>
    BY <1>3 DEF Include, Argument, Reading
  <2>2. CASE TooDeep(parser)
    <3> DEFINE p == [parser EXCEPT !.frames = <<>>]
    <3>1. q = AddError(p, "INCLUDE_TOO_DEEP")
      BY <1>3, <2>2 DEF Include, q
    <3>2. ParserType(p) /\ p.group = <<>>
      <4>1. p.frames = <<>> /\ <<>> \in Seq(Range(<<>>)) /\ p.group = <<>>
        BY <1>0, <2>1 DEF ParserType, Fields
      <4> QED  BY <1>0, <4>1 DEF ParserType, Fields
    <3> HIDE DEF p
    <3> QED  BY <3>1, <3>2, AddErrorKeeps DEF Settles, Bad, SameLoop, q
  <2>3. CASE ~TooDeep(parser)
    <3>1. q = c \/ q = [c EXCEPT !.frames = Append(@, Files[a.file])]
      BY <1>3, <2>3 DEF Include, q, c, a
    <3>2. q.group = c.group /\ SameOptions(c, q)
      BY <1>1, <2>1, <3>1 DEF ParserType, Fields, SameOptions
    <3> QED  BY <1>1, <2>1, <3>2, TracksSame DEF Settles, q
  <2> QED  BY <2>2, <2>3
<1>4. CASE EndOfOptions \/ FreeArgument \/ DashOptions
  <2>1. parser.frames # <<>> /\ parser.group = <<>> /\ ~parser.done
    BY <1>4 DEF EndOfOptions, FreeArgument, DashOptions, Argument, Reading
  <2>2. \/ q = [c EXCEPT !.ignoring = TRUE]
        \/ q = [c EXCEPT !.ignored = TRUE]
        \/ q = [c EXCEPT !.group = a.names]
    BY <1>4 DEF EndOfOptions, FreeArgument, DashOptions, q, c, a
  <2>3. /\ q.done = c.done /\ q.errors = c.errors /\ q.exit = c.exit
        /\ c.ignored => q.ignored
    BY <1>1, <2>1, <2>2 DEF ParserType, Fields
  <2> QED  BY <1>1, <2>1, <2>3 DEF Settles, Bad, q
<1>5. CASE LongOption
  <2> DEFINE p == StartOption(c, a.name, a.arg)
  <2>1. parser.frames # <<>> /\ parser.group = <<>> /\ q = Returning(p)
    BY <1>5 DEF LongOption, Argument, Reading, q, c, a
  <2>2. ParserType(p) /\ SameLoop(c, p) /\ (Bad(c) => Bad(p))
    BY <1>1, <2>1, StartOptionKeeps
  <2> HIDE DEF p
  <2>3. p.frames # <<>> /\ p.group = <<>> /\ (Bad(parser) => Bad(p))
    BY <1>1, <2>1, <2>2 DEF SameLoop
  <2> QED  BY <1>2, <2>1, <2>2, <2>3 DEF q
<1>6. CASE DashOption
  <2> DEFINE s == StartOption(parser, Head(parser.group), "")
             p == [s EXCEPT !.group = Tail(@)]
  <2>1. /\ parser.group # <<>> /\ parser.frames # <<>> /\ ~parser.done
        /\ q = IF p.group = <<>> THEN Returning(p) ELSE p
    BY <1>6 DEF DashOption, ParserOK, q
  <2>2. ParserType(s) /\ SameLoop(parser, s) /\ (Bad(parser) => Bad(s))
    BY <1>0, StartOptionKeeps
  <2> HIDE DEF s
  <2>3. /\ ParserType(p) /\ SameOptions(s, p) /\ p.frames = s.frames /\ p.done = s.done
    BY <2>2 DEF ParserType, Fields, SameOptions
  <2> HIDE DEF p
  <2>4. p.frames # <<>> /\ ~p.done /\ (Bad(parser) => Bad(p))
    BY <2>1, <2>2, <2>3, TracksSame DEF SameLoop
  <2> QED  BY <1>2, <2>1, <2>3, <2>4 DEF Settles, q
<1>7. CASE OptionValue
  <2> DEFINE s == SetValue(c, parser.active, a.text)
             p == IF WillAcceptArgument(s) THEN s ELSE CloseOption(s)
  <2>1. parser.frames # <<>> /\ parser.group = <<>> /\ q = Returning(p)
    BY <1>7 DEF OptionValue, Argument, Reading, q, c, a
  <2>2. parser.active \in Options
    BY <1>0, <1>7 DEF OptionValue, Argument, ArgumentType, ParserType, WillAcceptArgument
  <2>3. ParserType(s) /\ SameLoop(c, s) /\ (Bad(c) => Bad(s))
    BY <1>1, <2>1, <2>2, SetValueKeeps
  <2> HIDE DEF s
  <2>4. ParserType(p) /\ SameLoop(c, p) /\ (Bad(c) => Bad(p))
    BY <2>3, CloseOptionKeeps DEF SameLoop
  <2> HIDE DEF p
  <2>5. p.frames # <<>> /\ p.group = <<>> /\ (Bad(parser) => Bad(p))
    BY <1>1, <2>1, <2>4 DEF SameLoop
  <2> QED  BY <1>2, <2>1, <2>4, <2>5 DEF q
<1>8. CASE EndOfStream
  <2>1. q = [parser EXCEPT !.frames = Front(@)] /\ parser.group = <<>>
    BY <1>8 DEF EndOfStream, Reading, q
  <2>2. SameOptions(parser, q) /\ q.group = <<>>
    BY <1>0, <2>1 DEF ParserType, Fields, SameOptions
  <2> QED  BY <2>2, TracksSame DEF Settles, q
<1>9. CASE NoArguments
  <2> DEFINE p == RequestExit(parser)
  <2>1. parser.group = <<>> /\ q = [p EXCEPT !.frames = <<>>, !.done = TRUE]
    BY <1>9 DEF NoArguments, Reading, q
  <2>2. ParserType(p) /\ p.group = parser.group /\ p.exit
    BY <1>0, RequestExitKeeps DEF SameLoop
  <2> HIDE DEF p
  <2>3. q.group = <<>> /\ q.exit
    BY <2>1, <2>2 DEF ParserType, Fields
  <2> QED  BY <2>3 DEF Settles, Bad, q
<1>10. CASE Finish
  <2> DEFINE s == CloseOption(parser)
             p == [s EXCEPT !.done = TRUE]
             d == Defaulted(p)
  <2>1. /\ parser.group = <<>>
        /\ \/ q = p \/ q = d \/ q = AddError(d, "MISSING_OPTION")
    BY <1>10 DEF Finish, q
  <2>2. ParserType(s) /\ s.group = <<>> /\ (Bad(parser) => Bad(s))
    BY <1>0, <2>1, CloseOptionKeeps DEF SameLoop
  <2> HIDE DEF s
  <2>3. ParserType(p) /\ p.group = <<>> /\ SameOptions(s, p)
    BY <2>2 DEF ParserType, Fields, SameOptions
  <2> HIDE DEF p
  <2>4. Bad(parser) => Bad(p)
    BY <2>2, <2>3, TracksSame
  <2>5. ParserType(d) /\ d.group = <<>> /\ (Bad(p) => Bad(d))
    BY <2>3, DefaultedKeeps
  <2> HIDE DEF d
  <2>6. /\ AddError(d, "MISSING_OPTION").group = <<>> /\ Bad(AddError(d, "MISSING_OPTION"))
    BY <2>5, AddErrorKeeps DEF SameLoop, Bad
  <2> QED  BY <2>1, <2>3, <2>4, <2>5, <2>6 DEF Settles, q
<1> QED  BY <1>3, <1>4, <1>5, <1>6, <1>7, <1>8, <1>9, <1>10 DEF Parse

\* A group that no option with its value can come of ends in an error.
LEMMA FruitlessStays ==
    ASSUME ParserOK, Fruitless(parser), DashOption
    PROVE  Doomed(parser')
<1> DEFINE g == parser.group
           name == Head(g)
           s == StartOption(parser, name, "")
           p == [s EXCEPT !.group = Tail(@)]
           o == CHOOSE o \in FindOption(name) : TRUE
<1>1. ParserType(parser) /\ parser' = IF p.group = <<>> THEN Returning(p) ELSE p
  BY DEF DashOption, ParserOK
<1>2. /\ ParserType(s) /\ SameLoop(parser, s)
      /\ FindOption(name) = {} \/ NeedsMoreArguments(parser) => Bad(s)
      /\ FindOption(name) # {} => s.active = o /\ o \in Options /\ s.current[o] = 0
  BY <1>1, StartOptionKeeps
<1>3. parser.frames # <<>>
  BY DEF ParserOK, Fruitless
<1> HIDE DEF s, o
<1>4. /\ ParserType(p) /\ SameOptions(s, p) /\ p.frames = s.frames /\ p.group = Tail(s.group)
  BY <1>2 DEF ParserType, Fields, SameOptions
<1> HIDE DEF p
<1>5. p.frames # <<>> /\ p.group = Tail(g)
  BY <1>2, <1>3, <1>4 DEF SameLoop
<1>6. CASE FindOption(name) = {} \/ NeedsMoreArguments(parser)
  <2>1. Bad(p)
    BY <1>2, <1>4, <1>6, TracksSame
  <2>2. Bad(Returning(p))
    <3>1. SameOptions(p, Returning(p))
      BY <1>4, <1>5, StreamKeeps
    <3> QED  BY <2>1, <3>1, TracksSame
  <2> QED  BY <1>1, <2>1, <2>2 DEF Doomed
<1>7. CASE FindOption(name) # {} /\ ~NeedsMoreArguments(parser)
  <2>1. p.group # <<>>
    BY <1>5, <1>7 DEF Fruitless
  <2>2. p.active = o /\ o \in Options /\ p.current[o] = 0
    BY <1>2, <1>4, <1>7 DEF SameOptions
  <2>3. NeedsMoreArguments(p)
    BY <2>2, OptionNames DEF NeedsMoreArguments
  <2> QED  BY <1>1, <2>1, <2>3 DEF Doomed, Fruitless
<1> QED  BY <1>6, <1>7

\* The invariant, as the argument of the two theorems needs it.
ParserLine ==
    /\ argv \in Argvs /\ ParserOK
    /\ parser.done => parser.group = <<>>
    /\ Line(parser, Expanded(argv))

LEMMA ExpandedSeq ==
    ASSUME NEW s \in Argvs
    PROVE  Expanded(s) \in Seq(Elements) /\ s \in Seq(Arguments)
<1>1. s \in Seq(Elements) /\ s \in Seq(Arguments)
  BY ArgumentSeqs, ArgumentsAssumption
<1>2. Included[MaxIncludeDepth + 1] \in Contents
  BY IncludedFacts, DepthAssumption
<1> QED  BY <1>1, <1>2, SpreadSeq DEF Expanded

LEMMA LineBegins == ASSUME Init PROVE ParserLine
<1> DEFINE none == <<>>
           E == Expanded(argv)
<1>1. argv \in Argvs
  BY DEF Init
<1>2. /\ parser.frames = <<argv>> /\ parser.active = "none" /\ parser.targets = Blank
      /\ parser.current = [o \in Options |-> 0] /\ DOMAIN parser = Fields
      /\ ~parser.done /\ parser.group = none /\ ~parser.ignoring /\ parser.assigned = {}
      /\ parser.errors = {} /\ ~parser.ignored /\ ~parser.exit
  BY DEF Init, Fields
<1>3. ParserOK
  <2>2. <<argv>> \in Seq(Range(<<argv>>)) /\ Len(<<argv>>) = 1 /\ <<argv>> # <<>>
    BY DEF Range
  <2>3. DOMAIN Blank = Options /\ \A o \in DOMAIN Largest : Blank[o] \in 0 .. Largest[o]
    <3>1. DOMAIN Blank = Options
      BY OptionNames DEF Blank
    <3>2. \A o \in DOMAIN Largest : Blank[o] = 0
      <4>1. Blank.port = 0 /\ Blank.retransmissions = 0 /\ Blank.timeout = 0
        BY DEF Blank
      <4> QED  BY <4>1, OptionNames
    <3>3. \A o \in DOMAIN Largest : Largest[o] \in Nat
      BY OptionNames DEF Largest
    <3> QED  BY <3>1, <3>2, <3>3
  <2>4. parser.current \in [Options -> Nat]
    BY <1>2
  <2> QED  BY <1>2, <2>2, <2>3, <2>4, DepthAssumption DEF ParserOK, ParserType
<1>4. E \in Seq(Elements) /\ argv \in Seq(Arguments)
  BY <1>1, ExpandedSeq
<1>5. Remains(<<argv>>, E)
  <2>1. Remains(<<>>, <<>>)
    BY RemainsNone
  <2>2. ASSUME NEW s \in Seq(Arguments)
        PROVE  \/ Remains(Append(<<>>, s), Spread(s, Included[Level(Len(<<>>) + 1)]) \o <<>>)
               \/ Len(<<>>) + 1 > MaxIncludeDepth + 2
    BY <2>1, RemainsPush
  <2>3. Append(<<>>, argv) = <<argv>> /\ Len(<<>>) + 1 = 1 /\ ~(1 > MaxIncludeDepth + 2)
    BY DepthAssumption
  <2>4. Level(1) = MaxIncludeDepth + 1
    BY DepthAssumption DEF Level
  <2>5. E \o <<>> = E
    <3> HIDE DEF E
    <3> QED  BY <1>4
  <2>6. Remains(<<argv>>, Spread(argv, Included[MaxIncludeDepth + 1]) \o <<>>)
    BY <1>4, <2>2, <2>3, <2>4
  <2> QED  BY <2>5, <2>6 DEF Expanded
<1> HIDE DEF E
<1>6. Read(parser, <<>>)
  <2>1. Strip(<<>>) = <<>>
    <3>1. Gone \in Elements
      BY DEF Elements
    <3> QED  BY <3>1, StripSmall
  <2>2. none \in Seq(Elements) /\ DOMAIN none = {}
    OBVIOUS
  <2>3. ~Pending(none)
    BY DEF Pending
  <2> HIDE DEF none
  <2>4. Made(none) = {}
    BY <2>2 DEF Made
  <2>5. Sound(none) /\ Known(none, parser.assigned, parser.targets)
    BY <1>2, <2>2, <2>4 DEF Sound, Known
  <2>6. Tracks(parser, none)
    BY <1>2, <2>2, <2>3, <2>5 DEF Tracks
  <2> QED  BY <1>2, <2>1, <2>6 DEF Read, none
<1>7. Between(parser, E)
  <2>1. <<>> \in Seq(Elements) /\ E = <<>> \o E
    BY <1>4
  <2> QED  BY <1>2, <1>4, <1>5, <1>6, <2>1 DEF Between
<1>8. Going(parser, E)
  BY <1>2, <1>7 DEF Going, Bad
<1> QED  BY <1>1, <1>2, <1>3, <1>8 DEF ParserLine, Line, E

LEMMA LineGoesOn == ASSUME ParserLine, Parse PROVE ParserLine'
<1> DEFINE E == Expanded(argv)
<1>1. ParserOK /\ argv \in Argvs /\ (parser.done => parser.group = <<>>) /\ Line(parser, E)
  BY DEF ParserLine
<1>2. argv' = argv
  BY DEF Parse, Include, EndOfOptions, FreeArgument, LongOption, DashOptions, DashOption,
         OptionValue, EndOfStream, NoArguments, Finish
<1>3. ParserOK'
  BY <1>1, ParseKeeps
<1>4. Settles(parser, parser')
  BY <1>1, StepSettles
<1>5. E \in Seq(Elements)
  BY <1>1, ExpandedSeq
<1>6. Line(parser', E)
  <2>1. CASE Going(parser, E)
    <3> HIDE DEF E
    <3>1. CASE Include \/ LongOption \/ DashOptions \/ DashOption
      BY <1>1, <1>5, <2>1, <3>1, IncludeGoes, LongOptionGoes, DashOptionsGoes, DashOptionGoes
    <3>2. CASE EndOfOptions
      BY <1>1, <1>5, <2>1, <3>2, EndOfOptionsGoes DEF Line
    <3>3. CASE FreeArgument
      BY <1>1, <1>5, <2>1, <3>3, FreeArgumentGoes DEF Line, Lost, Doomed
    <3>4. CASE OptionValue \/ EndOfStream \/ Finish
      BY <1>1, <1>5, <2>1, <3>4, OptionValueGoes, EndOfStreamGoes, FinishGoes
    <3>5. CASE NoArguments
      <4>1. argv = <<>> /\ parser' = [RequestExit(parser) EXCEPT !.frames = <<>>, !.done = TRUE]
        BY <3>5 DEF NoArguments
      <4>2. ~WellFormed(Body(E))
        BY <4>1, NothingGiven DEF E
      <4> DEFINE p == RequestExit(parser)
      <4>3. ParserType(p) /\ p.exit
        BY <1>1, RequestExitKeeps DEF ParserOK
      <4>4. parser' = [p EXCEPT !.frames = <<>>, !.done = TRUE]
        BY <4>1
      <4> HIDE DEF p
      <4>5. Bad(parser')
        BY <4>3, <4>4 DEF ParserType, Fields, Bad
      <4> QED  BY <4>2, <4>5 DEF Line, Lost, Doomed
    <3> QED  BY <3>1, <3>2, <3>3, <3>4, <3>5 DEF Parse
  <2>2. CASE Lost(parser, E)
    <3>1. ~WellFormed(Body(E)) /\ (Bad(parser) \/ Fruitless(parser))
      BY <2>2 DEF Lost, Doomed
    <3>2. CASE Bad(parser)
      BY <1>4, <3>1, <3>2 DEF Settles, Line, Lost, Doomed
    <3>3. CASE Fruitless(parser)
      <4>1. parser.group # <<>>
        BY <3>3 DEF Fruitless
      <4>2. DashOption
        BY <4>1 DEF Parse, Include, EndOfOptions, FreeArgument, LongOption, DashOptions,
                    OptionValue, EndOfStream, NoArguments, Finish, Argument, Reading
      <4>3. Doomed(parser')
        BY <1>1, <3>3, <4>2, FruitlessStays
      <4> QED  BY <3>1, <4>3 DEF Line, Lost
    <3> QED  BY <3>1, <3>2, <3>3
  <2>3. CASE Right(parser, E)
    <3>1. parser.done /\ parser.group = <<>>
      BY <1>1, <2>3 DEF Right
    <3>2. FALSE
      BY <3>1 DEF Parse, Include, EndOfOptions, FreeArgument, LongOption, DashOptions,
                  DashOption, OptionValue, EndOfStream, NoArguments, Finish, Argument, Reading
    <3> QED  BY <3>2
  <2> QED  BY <1>1, <2>1, <2>2, <2>3 DEF Line
<1> QED  BY <1>1, <1>2, <1>3, <1>4, <1>6 DEF ParserLine, Settles

\* Once it is done, the parser has accepted what is well formed, with what it gives.
LEMMA LineEnds ==
    ASSUME ParserLine
    PROVE  /\ parser.done => (Accepted <=> WellFormed(Body(Expanded(argv))))
           /\ Accepted => \A o \in Options :
                            parser.targets[o] = Given(Body(Expanded(argv)), o)
<1> DEFINE E == Expanded(argv)
<1>1. (parser.done => parser.group = <<>>) /\ Line(parser, E)
  BY DEF ParserLine
<1>2. Accepted <=> parser.done /\ ~Bad(parser)
  BY DEF Accepted, Bad
<1> HIDE DEF E
<1>3. parser.done => Right(parser, E) \/ (Bad(parser) /\ ~WellFormed(Body(E)))
  BY <1>1 DEF Line, Going, Lost, Doomed, Fruitless
<1>4. /\ parser.done => (Accepted <=> WellFormed(Body(E)))
      /\ Accepted => \A o \in Options : parser.targets[o] = Given(Body(E), o)
  BY <1>2, <1>3 DEF Right
<1> QED  BY <1>4 DEF E

=============================================================================
