--------------------------- MODULE UDPCodecProofs ---------------------------
(***************************************************************************)
(* Proofs about UDPCodec.                                                  *)
(***************************************************************************)
EXTENDS UDPCodec, SequenceLemmas

-----------------------------------------------------------------------------
(* The groups of the formats *)

\* What an edge leads to.
Leads(e, state, c, next) == state = e.from /\ c \in e.on /\ next = e.to

PlainLeads(state, c, next) == \E e \in PlainEdges : Leads(e, state, c, next)
SubstitutionLeads(k, state, c, next) ==
    \E e \in SubstitutionEdges(k) : Leads(e, state, c, next)

LEMMA EdgeLeads ==
    ASSUME NEW from, NEW on, NEW to, NEW state, NEW c, NEW next
    PROVE  Leads(Edge(from, on, to), state, c, next) <=>
             state = from /\ c \in on /\ next = to
BY DEF Leads, Edge

LEMMA EdgeCases ==
    ASSUME NEW state, NEW c, NEW next
    PROVE  next \in Successors(state, c) <=>
             \/ PlainLeads(state, c, next)
             \/ \E k \in Specifiers : SubstitutionLeads(k, state, c, next)
BY DEF Successors, Leads, Edges, PlainLeads, SubstitutionLeads

LEMMA PlainCases ==
    ASSUME NEW state, NEW c, NEW next
    PROVE  PlainLeads(state, c, next) <=>
             \/ state = <<"INIT", 0>> /\ c \in Chars \ {Backslash, LBrace, RBrace}
                    /\ next = <<"ORDINARY", 0>>
             \/ state = <<"INIT", 0>> /\ c \in {LBrace} /\ next = <<"SUB_START", 0>>
             \/ state = <<"INIT", 0>> /\ c \in {Backslash} /\ next = <<"SPEC_START", 0>>
             \/ state = <<"SUB_START", 0>> /\ c \in {Percent} /\ next = <<"SUB_TYPE", 0>>
             \/ state = <<"SUB_START", 0>> /\ c \in IdStart /\ next = <<"SUB_UNDEFINED", 0>>
             \/ state = <<"SUB_UNDEFINED", 0>> /\ c \in IdContinue
                    /\ next = <<"SUB_UNDEFINED", 0>>
             \/ state = <<"SUB_UNDEFINED", 0>> /\ c \in {RBrace} /\ next = <<"SUB_U_EXEC", 0>>
             \/ state = <<"SPEC_START", 0>> /\ c \in {Ex} /\ next = <<"HEX", 0>>
             \/ state = <<"SPEC_START", 0>> /\ c \in Chars \ {Ex, Backslash}
                    /\ next = <<"BACKSLASH", 0>>
             \/ state = <<"HEX", 0>> /\ c \in HexDigits /\ next = <<"HEX_NIBBLE", 0>>
             \/ state = <<"HEX_NIBBLE", 0>> /\ c \in HexDigits /\ next = <<"HEX_BYTE", 0>>
<1> DEFINE L(from, on, to) == Leads(Edge(from, on, to), state, c, next)
<1>1. PlainLeads(state, c, next) <=>
             \/ L(<<"INIT", 0>>, Chars \ {Backslash, LBrace, RBrace}, <<"ORDINARY", 0>>)
             \/ L(<<"INIT", 0>>, {LBrace}, <<"SUB_START", 0>>)
             \/ L(<<"INIT", 0>>, {Backslash}, <<"SPEC_START", 0>>)
             \/ L(<<"SUB_START", 0>>, {Percent}, <<"SUB_TYPE", 0>>)
             \/ L(<<"SUB_START", 0>>, IdStart, <<"SUB_UNDEFINED", 0>>)
             \/ L(<<"SUB_UNDEFINED", 0>>, IdContinue, <<"SUB_UNDEFINED", 0>>)
             \/ L(<<"SUB_UNDEFINED", 0>>, {RBrace}, <<"SUB_U_EXEC", 0>>)
             \/ L(<<"SPEC_START", 0>>, {Ex}, <<"HEX", 0>>)
             \/ L(<<"SPEC_START", 0>>, Chars \ {Ex, Backslash}, <<"BACKSLASH", 0>>)
             \/ L(<<"HEX", 0>>, HexDigits, <<"HEX_NIBBLE", 0>>)
             \/ L(<<"HEX_NIBBLE", 0>>, HexDigits, <<"HEX_BYTE", 0>>)
  BY Zenon DEF PlainEdges, PlainLeads
<1>2. ASSUME NEW from, NEW on, NEW to
      PROVE  L(from, on, to) <=> state = from /\ c \in on /\ next = to
  BY EdgeLeads
<1> HIDE DEF L
<1> QED  BY <1>1, <1>2

LEMMA SubstitutionCases ==
    ASSUME NEW k, NEW state, NEW c, NEW next
    PROVE  SubstitutionLeads(k, state, c, next) <=>
             \/ state = <<"SUB_TYPE", 0>> /\ c \in {k} /\ next = <<"SUB", k>>
             \/ state = <<"SUB", k>> /\ c \in {Colon} /\ next = <<"COL", k>>
             \/ state = <<"COL", k>> /\ c \in IdStart /\ next = <<"ID", k>>
             \/ state = <<"ID", k>> /\ c \in IdContinue /\ next = <<"ID", k>>
             \/ state = <<"ID", k>> /\ c \in {RBrace} /\ next = <<"EXEC", k>>
<1> DEFINE L(from, on, to) == Leads(Edge(from, on, to), state, c, next)
<1>1. SubstitutionLeads(k, state, c, next) <=>
             \/ L(<<"SUB_TYPE", 0>>, {k}, <<"SUB", k>>)
             \/ L(<<"SUB", k>>, {Colon}, <<"COL", k>>)
             \/ L(<<"COL", k>>, IdStart, <<"ID", k>>)
             \/ L(<<"ID", k>>, IdContinue, <<"ID", k>>)
             \/ L(<<"ID", k>>, {RBrace}, <<"EXEC", k>>)
  BY Zenon DEF SubstitutionEdges, SubstitutionLeads
<1>2. ASSUME NEW from, NEW on, NEW to
      PROVE  L(from, on, to) <=> state = from /\ c \in on /\ next = to
  BY EdgeLeads
<1> HIDE DEF L
<1> QED  BY <1>1, <1>2

\* The edges that lead through a substitution, and through "\x00".
LEMMA SubstitutionMoves ==
    ASSUME NEW k \in Specifiers, NEW w \in Words, NEW next
    PROVE  /\ next \in Successors(<<"INIT", 0>>, LBrace) <=> next = <<"SUB_START", 0>>
           /\ next \in Successors(<<"SUB_START", 0>>, Percent) <=> next = <<"SUB_TYPE", 0>>
           /\ next \in Successors(<<"SUB_TYPE", 0>>, k) <=> next = <<"SUB", k>>
           /\ next \in Successors(<<"SUB", k>>, Colon) <=> next = <<"COL", k>>
           /\ next \in Successors(<<"COL", k>>, w) <=> next = <<"ID", k>>
           /\ next \in Successors(<<"ID", k>>, RBrace) <=> next = <<"EXEC", k>>
           /\ \A c : next \notin Successors(<<"EXEC", k>>, c)
<1>0. /\ LBrace \notin Chars \ {Backslash, LBrace, RBrace} /\ LBrace # Backslash
      /\ Percent \notin IdStart /\ w \in IdStart /\ RBrace \notin IdContinue
      /\ w # RBrace /\ Colon # RBrace
  BY DEF LBrace, RBrace, Backslash, Percent, Colon, IdStart, IdContinue, Words, Digits,
         Underscore, Minus
<1>1. next \in Successors(<<"INIT", 0>>, LBrace) <=> next = <<"SUB_START", 0>>
  BY <1>0, EdgeCases, PlainCases, SubstitutionCases
<1>2. next \in Successors(<<"SUB_START", 0>>, Percent) <=> next = <<"SUB_TYPE", 0>>
  BY <1>0, EdgeCases, PlainCases, SubstitutionCases
<1>3. next \in Successors(<<"SUB_TYPE", 0>>, k) <=> next = <<"SUB", k>>
  BY <1>0, EdgeCases, PlainCases, SubstitutionCases
<1>4. next \in Successors(<<"SUB", k>>, Colon) <=> next = <<"COL", k>>
  BY <1>0, EdgeCases, PlainCases, SubstitutionCases
<1>5. next \in Successors(<<"COL", k>>, w) <=> next = <<"ID", k>>
  BY <1>0, EdgeCases, PlainCases, SubstitutionCases
<1>6. next \in Successors(<<"ID", k>>, RBrace) <=> next = <<"EXEC", k>>
  BY <1>0, EdgeCases, PlainCases, SubstitutionCases
<1>7. \A c : next \notin Successors(<<"EXEC", k>>, c)
  BY <1>0, EdgeCases, PlainCases, SubstitutionCases
<1> QED  BY <1>1, <1>2, <1>3, <1>4, <1>5, <1>6, <1>7

LEMMA HexMoves ==
    ASSUME NEW next
    PROVE  /\ next \in Successors(<<"INIT", 0>>, Backslash) <=> next = <<"SPEC_START", 0>>
           /\ next \in Successors(<<"SPEC_START", 0>>, Ex) <=> next = <<"HEX", 0>>
           /\ next \in Successors(<<"HEX", 0>>, Zero) <=> next = <<"HEX_NIBBLE", 0>>
           /\ next \in Successors(<<"HEX_NIBBLE", 0>>, Zero) <=> next = <<"HEX_BYTE", 0>>
           /\ \A c : next \notin Successors(<<"HEX_BYTE", 0>>, c)
<1>0. Backslash # LBrace /\ Backslash \in {Backslash} /\ Zero \in HexDigits
  BY DEF LBrace, Backslash, Zero, HexDigits, Digits
<1>1. next \in Successors(<<"INIT", 0>>, Backslash) <=> next = <<"SPEC_START", 0>>
  BY <1>0, EdgeCases, PlainCases, SubstitutionCases
<1>2. next \in Successors(<<"SPEC_START", 0>>, Ex) <=> next = <<"HEX", 0>>
  BY <1>0, EdgeCases, PlainCases, SubstitutionCases
<1>3. next \in Successors(<<"HEX", 0>>, Zero) <=> next = <<"HEX_NIBBLE", 0>>
  BY <1>0, EdgeCases, PlainCases, SubstitutionCases
<1>4. next \in Successors(<<"HEX_NIBBLE", 0>>, Zero) <=> next = <<"HEX_BYTE", 0>>
  BY <1>0, EdgeCases, PlainCases, SubstitutionCases
<1>5. \A c : next \notin Successors(<<"HEX_BYTE", 0>>, c)
  BY <1>0, EdgeCases, PlainCases, SubstitutionCases
<1> QED  BY <1>1, <1>2, <1>3, <1>4, <1>5

\* The recursion of Group: a walk that goes on as long as there is an edge.
WalkStart(i) == [last |-> i - 1, state |-> <<"INIT", 0>>, live |-> TRUE]
IsWalk(walk, format, i) ==
    /\ walk[i - 1] = WalkStart(i)
    /\ \A j \in i .. Len(format) : walk[j] = Walked(walk[j - 1], format[j], j)

LEMMA GroupWalk ==
    ASSUME NEW format, Len(format) \in Nat, NEW i \in 1 .. Len(format)
    PROVE  \E walk : IsWalk(walk, format, i) /\ Group(format, i) = walk[Len(format)]
<1> DEFINE n == Len(format)
           Targets == {<<"INIT", 0>>} \cup {e.to : e \in Edges}
           S == [last : Int, state : Targets, live : BOOLEAN]
           step == [x \in S \X (i .. n) |-> Walked(x[1], format[x[2]], x[2])]
           D(g) == g = [j \in i - 1 .. n |-> IF j = i - 1
                                               THEN [last |-> j, state |-> <<"INIT", 0>>,
                                                     live |-> TRUE]
                                               ELSE Walked(g[j - 1], format[j], j)]
<1>1. i - 1 \in Int /\ n \in Int /\ i - 1 <= n /\ i - 1 + 1 = i /\ n \in i .. n
  OBVIOUS
<1>2. ASSUME NEW w \in S, NEW j \in i .. n PROVE Walked(w, format[j], j) \in S
  <2> DEFINE next == IF w.live THEN Successors(w.state, format[j]) ELSE {}
             to == CHOOSE s \in next : TRUE
  <2>1. next # {} => to \in Targets
    BY DEF Successors
  <2> HIDE DEF next, to, Targets
  <2>2. [w EXCEPT !.live = FALSE] \in S
    OBVIOUS
  <2>3. ASSUME NEW s \in Targets PROVE [last |-> j, state |-> s, live |-> TRUE] \in S
    <3>1. j \in Int
      OBVIOUS
    <3> QED  BY <3>1
  <2> HIDE DEF S
  <2> QED  BY <2>1, <2>2, <2>3 DEF Walked, next, to
<1>3. step \in [S \X (i - 1 + 1 .. n) -> S]
  <2> HIDE DEF S
  <2> QED  BY <1>1, <1>2
<1>4. WalkStart(i) \in S
  BY DEF WalkStart
<1> HIDE DEF S, step, n
<1> DEFINE a == i - 1
<1>0. a \in Int /\ a <= n /\ step \in [S \X (a + 1 .. n) -> S]
  BY <1>1, <1>3
<1> HIDE DEF a
<1>10. PICK g : Recursive(g, a, n, S, WalkStart(i), step)
  BY <1>0, <1>1, <1>4, Recursion
<1>5. /\ g \in [i - 1 .. n -> S] /\ g[i - 1] = WalkStart(i)
      /\ \A j \in i - 1 + 1 .. n : g[j] = step[<<g[j - 1], j>>]
  BY <1>10 DEF Recursive, a
<1>6. D(g)
  <2>1. ASSUME NEW j \in i .. n PROVE g[j] = Walked(g[j - 1], format[j], j)
    <3>1. <<g[j - 1], j>> \in S \X (i .. n) /\ j \in i - 1 + 1 .. n
      BY <1>1, <1>5
    <3>2. step[<<g[j - 1], j>>] = Walked(g[j - 1], format[j], j)
      BY <3>1 DEF step
    <3> QED  BY <1>5, <3>1, <3>2
  <2>2. g[i - 1] = [last |-> i - 1, state |-> <<"INIT", 0>>, live |-> TRUE]
    BY <1>5 DEF WalkStart
  <2>3. \A j \in i - 1 .. n : j = i - 1 \/ j \in i .. n
    BY <1>1
  <2>4. \A j \in i - 1 .. n : g[j] = IF j = i - 1
                                     THEN [last |-> j, state |-> <<"INIT", 0>>, live |-> TRUE]
                                     ELSE Walked(g[j - 1], format[j], j)
    BY <2>1, <2>2, <2>3
  <2> QED  BY <1>5, <2>4
<1> DEFINE walk == CHOOSE h : D(h)
<1>7. D(walk)
  BY <1>6
<1>8. Group(format, i) = walk[n]
  BY DEF Group, n
<1> HIDE DEF walk
<1>9. IsWalk(walk, format, i)
  <2>1. walk[i - 1] = WalkStart(i)
    BY <1>1, <1>7 DEF WalkStart
  <2>2. ASSUME NEW j \in i .. n PROVE walk[j] = Walked(walk[j - 1], format[j], j)
    <3>1. j \in i - 1 .. n /\ j # i - 1
      BY <1>1
    <3> QED  BY <1>7, <3>1
  <2> QED  BY <2>1, <2>2 DEF IsWalk, n
<1> QED  BY <1>8, <1>9 DEF n

Walker(j, state) == [last |-> j, state |-> state, live |-> TRUE]
Stopped(j, state) == [last |-> j, state |-> state, live |-> FALSE]

\* The only state that a character leads to, and a state that none leads from.
Onward(state, c, to) == Successors(state, c) = {to}
Resting(state) == \A c : Successors(state, c) = {}

LEMMA SubstitutionPath ==
    ASSUME NEW k \in Specifiers, NEW w \in Words
    PROVE  /\ Onward(<<"INIT", 0>>, LBrace, <<"SUB_START", 0>>)
           /\ Onward(<<"SUB_START", 0>>, Percent, <<"SUB_TYPE", 0>>)
           /\ Onward(<<"SUB_TYPE", 0>>, k, <<"SUB", k>>)
           /\ Onward(<<"SUB", k>>, Colon, <<"COL", k>>)
           /\ Onward(<<"COL", k>>, w, <<"ID", k>>)
           /\ Onward(<<"ID", k>>, RBrace, <<"EXEC", k>>)
           /\ Resting(<<"EXEC", k>>)
<1>0. ASSUME NEW next
      PROVE  /\ next \in Successors(<<"INIT", 0>>, LBrace) <=> next = <<"SUB_START", 0>>
             /\ next \in Successors(<<"SUB_START", 0>>, Percent) <=> next = <<"SUB_TYPE", 0>>
             /\ next \in Successors(<<"SUB_TYPE", 0>>, k) <=> next = <<"SUB", k>>
             /\ next \in Successors(<<"SUB", k>>, Colon) <=> next = <<"COL", k>>
             /\ next \in Successors(<<"COL", k>>, w) <=> next = <<"ID", k>>
             /\ next \in Successors(<<"ID", k>>, RBrace) <=> next = <<"EXEC", k>>
             /\ \A c : next \notin Successors(<<"EXEC", k>>, c)
  BY SubstitutionMoves
<1>1. Onward(<<"INIT", 0>>, LBrace, <<"SUB_START", 0>>)
  <2>1. ASSUME NEW next
       PROVE  next \in Successors(<<"INIT", 0>>, LBrace) <=> next = <<"SUB_START", 0>>
    BY <1>0
  <2> QED  BY <2>1 DEF Onward
<1>2. Onward(<<"SUB_START", 0>>, Percent, <<"SUB_TYPE", 0>>)
  <2>1. ASSUME NEW next
       PROVE  next \in Successors(<<"SUB_START", 0>>, Percent)
                <=> next = <<"SUB_TYPE", 0>>
    BY <1>0
  <2> QED  BY <2>1 DEF Onward
<1>3. Onward(<<"SUB_TYPE", 0>>, k, <<"SUB", k>>)
  <2>1. ASSUME NEW next PROVE next \in Successors(<<"SUB_TYPE", 0>>, k) <=> next = <<"SUB", k>>
    BY <1>0
  <2> QED  BY <2>1 DEF Onward
<1>4. Onward(<<"SUB", k>>, Colon, <<"COL", k>>)
  <2>1. ASSUME NEW next PROVE next \in Successors(<<"SUB", k>>, Colon) <=> next = <<"COL", k>>
    BY <1>0
  <2> QED  BY <2>1 DEF Onward
<1>5. Onward(<<"COL", k>>, w, <<"ID", k>>)
  <2>1. ASSUME NEW next PROVE next \in Successors(<<"COL", k>>, w) <=> next = <<"ID", k>>
    BY <1>0
  <2> QED  BY <2>1 DEF Onward
<1>6. Onward(<<"ID", k>>, RBrace, <<"EXEC", k>>)
  <2>1. ASSUME NEW next PROVE next \in Successors(<<"ID", k>>, RBrace) <=> next = <<"EXEC", k>>
    BY <1>0
  <2> QED  BY <2>1 DEF Onward
<1>7. Resting(<<"EXEC", k>>)
  <2>1. ASSUME NEW next, NEW c PROVE next \notin Successors(<<"EXEC", k>>, c)
    BY <1>0
  <2> QED  BY <2>1 DEF Resting
<1> QED  BY <1>1, <1>2, <1>3, <1>4, <1>5, <1>6, <1>7

LEMMA HexPath ==
    /\ Onward(<<"INIT", 0>>, Backslash, <<"SPEC_START", 0>>)
    /\ Onward(<<"SPEC_START", 0>>, Ex, <<"HEX", 0>>)
    /\ Onward(<<"HEX", 0>>, Zero, <<"HEX_NIBBLE", 0>>)
    /\ Onward(<<"HEX_NIBBLE", 0>>, Zero, <<"HEX_BYTE", 0>>)
    /\ Resting(<<"HEX_BYTE", 0>>)
<1>1. Onward(<<"INIT", 0>>, Backslash, <<"SPEC_START", 0>>)
  <2>1. ASSUME NEW next
       PROVE  next \in Successors(<<"INIT", 0>>, Backslash)
                <=> next = <<"SPEC_START", 0>>
    BY HexMoves
  <2> QED  BY <2>1 DEF Onward
<1>2. Onward(<<"SPEC_START", 0>>, Ex, <<"HEX", 0>>)
  <2>1. ASSUME NEW next PROVE next \in Successors(<<"SPEC_START", 0>>, Ex) <=> next = <<"HEX", 0>>
    BY HexMoves
  <2> QED  BY <2>1 DEF Onward
<1>3. Onward(<<"HEX", 0>>, Zero, <<"HEX_NIBBLE", 0>>)
  <2>1. ASSUME NEW next
       PROVE  next \in Successors(<<"HEX", 0>>, Zero) <=> next = <<"HEX_NIBBLE", 0>>
    BY HexMoves
  <2> QED  BY <2>1 DEF Onward
<1>4. Onward(<<"HEX_NIBBLE", 0>>, Zero, <<"HEX_BYTE", 0>>)
  <2>1. ASSUME NEW next
       PROVE  next \in Successors(<<"HEX_NIBBLE", 0>>, Zero)
                <=> next = <<"HEX_BYTE", 0>>
    BY HexMoves
  <2> QED  BY <2>1 DEF Onward
<1>5. Resting(<<"HEX_BYTE", 0>>)
  <2>1. ASSUME NEW next, NEW c PROVE next \notin Successors(<<"HEX_BYTE", 0>>, c)
    BY HexMoves
  <2> QED  BY <2>1 DEF Resting
<1> QED  BY <1>1, <1>2, <1>3, <1>4, <1>5

LEMMA WalkOn ==
    ASSUME NEW i, NEW j, NEW state, NEW c, NEW to, Onward(state, c, to)
    PROVE  Walked(Walker(i, state), c, j) = Walker(j, to)
<1> DEFINE w == Walker(i, state)
<1>1. Successors(state, c) # {} /\ (CHOOSE s \in Successors(state, c) : TRUE) = to
  BY DEF Onward
<1>2. w.live = TRUE /\ w.state = state
  BY DEF Walker
<1> HIDE DEF w
<1>3. Walked(w, c, j) = [last |-> j, state |-> to, live |-> TRUE]
  BY <1>1, <1>2 DEF Walked
<1> QED  BY <1>3 DEF w, Walker

LEMMA WalkEnds ==
    ASSUME NEW i, NEW j, NEW state, NEW c, Resting(state),
           NEW w \in {Walker(i, state), Stopped(i, state)}
    PROVE  Walked(w, c, j) = Stopped(i, state)
<1>1. Successors(state, c) = {}
  BY DEF Resting
<1>2. Walked(w, c, j) = [w EXCEPT !.live = FALSE]
  <2>1. w.state = state
    BY DEF Walker, Stopped
  <2> QED  BY <1>1, <2>1 DEF Walked
<1>3. ASSUME NEW live, NEW then
      PROVE  [[last |-> i, state |-> state, live |-> live] EXCEPT !.live = then]
               = [last |-> i, state |-> state, live |-> then]
  OBVIOUS
<1>4. [w EXCEPT !.live = FALSE] = Stopped(i, state)
  BY <1>3 DEF Walker, Stopped
<1> QED  BY <1>2, <1>4

\* A step of a walk of which the next state is known.
At(walk, j, state) == walk[j] = Walker(j, state)

LEMMA WalkStep ==
    ASSUME NEW format, Len(format) \in Nat, NEW i \in Nat, NEW walk,
           IsWalk(walk, format, i), NEW j \in i .. Len(format), NEW state,
           At(walk, j - 1, state), NEW to, Onward(state, format[j], to)
    PROVE  At(walk, j, to)
<1>2. walk[j] = Walked(walk[j - 1], format[j], j)
  BY DEF IsWalk
<1>3. Walked(Walker(j - 1, state), format[j], j) = Walker(j, to)
  BY WalkOn
<1> QED  BY <1>2, <1>3 DEF At

\* A walk stays where no edge leads on.
LEMMA WalkRests ==
    ASSUME NEW format, Len(format) \in Nat, NEW i \in Nat,
           NEW walk, IsWalk(walk, format, i), NEW e \in Nat, i <= e, e <= Len(format), NEW state,
           At(walk, e, state), Resting(state)
    PROVE  walk[Len(format)].last = e /\ walk[Len(format)].state = state
<1> DEFINE n == Len(format)
           Rest == {Walker(e, state), Stopped(e, state)}
           T == {j \in e .. n : walk[j] \in Rest}
<1>1. e \in T
  <2>1. walk[e] \in Rest
    BY DEF At
  <2> HIDE DEF Rest
  <2> QED  BY <2>1
<1>2. ASSUME NEW j \in e + 1 .. n, j - 1 \in T PROVE j \in T
  <2>1. walk[j - 1] \in Rest
    BY <1>2
  <2>2. j \in i .. Len(format)
    OBVIOUS
  <2>3. walk[j] = Walked(walk[j - 1], format[j], j)
    BY <2>2 DEF IsWalk
  <2>4. walk[j] = Stopped(e, state)
    BY <2>1, <2>3, WalkEnds
  <2>5. j \in e .. n
    OBVIOUS
  <2> QED  BY <2>4, <2>5
<1>3. e \in Int /\ n \in Int /\ n \in e .. n
  OBVIOUS
<1>4. n \in T
  <2> HIDE DEF T, n
  <2> QED  BY <1>1, <1>2, <1>3, Induction
<1>5. walk[n] = Walker(e, state) \/ walk[n] = Stopped(e, state)
  BY <1>4
<1> QED  BY <1>5 DEF Walker, Stopped

LEMMA SubstitutionGroup ==
    ASSUME NEW format, Len(format) \in Nat, NEW i \in Nat, 1 <= i, i + 5 <= Len(format),
           NEW k \in Specifiers, NEW w \in Words,
           format[i] = LBrace, format[i + 1] = Percent, format[i + 2] = k,
           format[i + 3] = Colon, format[i + 4] = w, format[i + 5] = RBrace
    PROVE  Group(format, i).last = i + 5 /\ Group(format, i).state = <<"EXEC", k>>
<1>0. /\ Onward(<<"INIT", 0>>, LBrace, <<"SUB_START", 0>>)
      /\ Onward(<<"SUB_START", 0>>, Percent, <<"SUB_TYPE", 0>>)
      /\ Onward(<<"SUB_TYPE", 0>>, k, <<"SUB", k>>)
      /\ Onward(<<"SUB", k>>, Colon, <<"COL", k>>)
      /\ Onward(<<"COL", k>>, w, <<"ID", k>>)
      /\ Onward(<<"ID", k>>, RBrace, <<"EXEC", k>>)
      /\ Resting(<<"EXEC", k>>)
  BY SubstitutionPath
<1>1. i \in 1 .. Len(format)
  OBVIOUS
<1>2. PICK walk : IsWalk(walk, format, i) /\ Group(format, i) = walk[Len(format)]
  BY <1>1, GroupWalk
<1>3. /\ i \in i .. Len(format)
      /\ i + 1 \in i .. Len(format) /\ i + 1 - 1 = i
      /\ i + 2 \in i .. Len(format) /\ i + 2 - 1 = i + 1
      /\ i + 3 \in i .. Len(format) /\ i + 3 - 1 = i + 2
      /\ i + 4 \in i .. Len(format) /\ i + 4 - 1 = i + 3
      /\ i + 5 \in i .. Len(format) /\ i + 5 - 1 = i + 4
      /\ i + 5 \in Nat /\ i <= i + 5
  OBVIOUS
<1>4. At(walk, i - 1, <<"INIT", 0>>)
  BY <1>2 DEF IsWalk, WalkStart, Walker, At
<1>5. At(walk, i, <<"SUB_START", 0>>)
  BY <1>2, <1>3, <1>4, <1>0, WalkStep
<1>6. At(walk, i + 1, <<"SUB_TYPE", 0>>)
  BY <1>2, <1>3, <1>5, <1>0, WalkStep
<1>7. At(walk, i + 2, <<"SUB", k>>)
  BY <1>2, <1>3, <1>6, <1>0, WalkStep
<1>8. At(walk, i + 3, <<"COL", k>>)
  BY <1>2, <1>3, <1>7, <1>0, WalkStep
<1>9. At(walk, i + 4, <<"ID", k>>)
  BY <1>2, <1>3, <1>8, <1>0, WalkStep
<1>10. At(walk, i + 5, <<"EXEC", k>>)
  BY <1>2, <1>3, <1>9, <1>0, WalkStep
<1>11. Resting(<<"EXEC", k>>)
  BY <1>0
<1> QED  BY <1>2, <1>3, <1>10, <1>11, WalkRests

LEMMA HexGroup ==
    ASSUME NEW format, Len(format) \in Nat, NEW i \in Nat, 1 <= i, i + 3 <= Len(format),
           format[i] = Backslash, format[i + 1] = Ex, format[i + 2] = Zero,
           format[i + 3] = Zero
    PROVE  Group(format, i).last = i + 3 /\ Group(format, i).state = <<"HEX_BYTE", 0>>
<1>1. i \in 1 .. Len(format)
  OBVIOUS
<1>2. PICK walk : IsWalk(walk, format, i) /\ Group(format, i) = walk[Len(format)]
  BY <1>1, GroupWalk
<1>3. /\ i \in i .. Len(format)
      /\ i + 1 \in i .. Len(format) /\ i + 1 - 1 = i
      /\ i + 2 \in i .. Len(format) /\ i + 2 - 1 = i + 1
      /\ i + 3 \in i .. Len(format) /\ i + 3 - 1 = i + 2
      /\ i + 3 \in Nat /\ i <= i + 3
  OBVIOUS
<1>4. At(walk, i - 1, <<"INIT", 0>>)
  BY <1>2 DEF IsWalk, WalkStart, Walker, At
<1>5. At(walk, i, <<"SPEC_START", 0>>)
  BY <1>2, <1>3, <1>4, WalkStep, HexPath
<1>6. At(walk, i + 1, <<"HEX", 0>>)
  BY <1>2, <1>3, <1>5, WalkStep, HexPath
<1>7. At(walk, i + 2, <<"HEX_NIBBLE", 0>>)
  BY <1>2, <1>3, <1>6, WalkStep, HexPath
<1>8. At(walk, i + 3, <<"HEX_BYTE", 0>>)
  BY <1>2, <1>3, <1>7, WalkStep, HexPath
<1> QED  BY <1>2, <1>3, <1>8, HexPath, WalkRests

-----------------------------------------------------------------------------
(* Rounds *)

\* The rounds of the loop that lead from some formats to others.
Rounds(o, a, b, k, m, config, counter0) ==
    /\ o[0] = a /\ o[k] = b
    /\ \A n \in 1 .. k : o[n] = Rewritten(o[n - 1], m, config, counter0)
Reaches(a, b, k, m, config, counter0) == \E o : Rounds(o, a, b, k, m, config, counter0)

LEMMA NoRound ==
    ASSUME NEW a, NEW m, NEW config, NEW n0
    PROVE  Reaches(a, a, 0, m, config, n0)
<1> DEFINE o == [n \in 0 .. 0 |-> a]
<1>1. Rounds(o, a, a, 0, m, config, n0)
  BY DEF Rounds
<1> HIDE DEF o
<1> QED  BY <1>1 DEF Reaches

LEMMA NextRound ==
    ASSUME NEW a, NEW b, NEW c, NEW k \in Nat, NEW m, NEW config, NEW n0,
           Reaches(a, b, k, m, config, n0), Rewritten(b, m, config, n0) = c
    PROVE  Reaches(a, c, k + 1, m, config, n0)
<1>1. PICK o : Rounds(o, a, b, k, m, config, n0)
  BY DEF Reaches
<1> DEFINE p == [n \in 0 .. k + 1 |-> IF n = k + 1 THEN c ELSE o[n]]
<1>2. p[0] = a /\ p[k + 1] = c /\ p[k] = b
  BY <1>1 DEF Rounds
<1>3. ASSUME NEW n \in 1 .. k + 1 PROVE p[n] = Rewritten(p[n - 1], m, config, n0)
  <2>1. CASE n = k + 1
    <3>1. n - 1 = k
      BY <2>1
    <3> HIDE DEF p
    <3> QED  BY <1>2, <2>1, <3>1
  <2>2. CASE n # k + 1
    <3>1. n \in 1 .. k /\ p[n] = o[n] /\ p[n - 1] = o[n - 1]
      BY <2>2
    <3> HIDE DEF p
    <3>2. o[n] = Rewritten(o[n - 1], m, config, n0)
      BY <1>1, <3>1 DEF Rounds
    <3> QED  BY <3>1, <3>2
  <2> QED  BY <2>1, <2>2
<1> HIDE DEF p
<1>4. Rounds(p, a, c, k + 1, m, config, n0)
  BY <1>2, <1>3 DEF Rounds
<1> QED  BY <1>4 DEF Reaches

\* The texts of the rewritten formats in which nothing is left.
Done(fs) == {f.text : f \in {f \in fs : f.at > Len(f.text)}}

LEMMA Settled ==
    ASSUME NEW m, NEW config, NEW n0, m.type \in DOMAIN udpMessageFormats,
           NEW format, format = udpMessageFormats[m.type], Len(format) \in Nat,
           NEW b, NEW k \in 0 .. Len(format),
           Reaches({[text |-> format, at |-> 1]}, b, k, m, config, n0),
           Rewritten(b, m, config, n0) = b
    PROVE  EncodeBinary(m, config, n0) =
             IF Done(b) = {} THEN <<>> ELSE CHOOSE t \in Done(b) : TRUE
<1> DEFINE L == Len(format)
           start == {[text |-> format, at |-> 1]}
           D(g) == g = [n \in 0 .. L |-> IF n = 0 THEN start
                                         ELSE Rewritten(g[n - 1], m, config, n0)]
           round == CHOOSE g : D(g)
<1>1. PICK o : Rounds(o, start, b, k, m, config, n0)
  BY DEF Reaches
<1> HIDE DEF start
<1> DEFINE p == [n \in 0 .. L |-> IF n <= k THEN o[n] ELSE b]
<1>2. p[0] = start /\ p[L] = b
  BY <1>1 DEF Rounds
<1>3. ASSUME NEW n \in 1 .. L PROVE p[n] = Rewritten(p[n - 1], m, config, n0)
  <2>1. CASE n <= k
    <3>1. n \in 1 .. k /\ p[n] = o[n] /\ p[n - 1] = o[n - 1]
      BY <2>1
    <3> HIDE DEF p
    <3>2. o[n] = Rewritten(o[n - 1], m, config, n0)
      BY <1>1, <3>1 DEF Rounds
    <3> QED  BY <3>1, <3>2
  <2>2. CASE ~(n <= k)
    <3>1. p[n] = b
      BY <2>2
    <3>2. p[n - 1] = b
      <4>1. CASE n - 1 <= k
        <5>1. n - 1 = k
          BY <2>2, <4>1
        <5>2. p[k] = o[k]
          OBVIOUS
        <5> HIDE DEF p
        <5> QED  BY <1>1, <5>1, <5>2 DEF Rounds
      <4>2. CASE ~(n - 1 <= k)
        BY <4>2
      <4> QED  BY <4>1, <4>2
    <3> HIDE DEF p
    <3> QED  BY <3>1, <3>2
  <2> QED  BY <2>1, <2>2
<1>4. D(p)
  <2>1. \A n \in 0 .. L : n = 0 \/ n \in 1 .. L
    OBVIOUS
  <2>2. \A n \in 0 .. L : p[n] = IF n = 0 THEN start
                                 ELSE Rewritten(p[n - 1], m, config, n0)
    <3> HIDE DEF p
    <3> QED  BY <1>2, <1>3, <2>1
  <2>3. p = [n \in 0 .. L |-> p[n]]
    OBVIOUS
  <2> HIDE DEF p
  <2> QED  BY <2>2, <2>3
<1>5. D(round)
  <2> HIDE DEF p
  <2> QED  BY <1>4
<1> HIDE DEF round, p
<1>6. round[0] = start /\ \A n \in 1 .. L : round[n] = Rewritten(round[n - 1], m, config, n0)
  <2>1. round[0] = start
    BY <1>5
  <2>2. ASSUME NEW n \in 1 .. L PROVE round[n] = Rewritten(round[n - 1], m, config, n0)
    <3>1. n \in 0 .. L /\ n # 0
      OBVIOUS
    <3> QED  BY <1>5, <3>1
  <2> QED  BY <2>1, <2>2
<1>7. round[L] = b
  <2> DEFINE T == {n \in 0 .. L : round[n] = p[n]}
  <2>1. 0 \in T
    BY <1>2, <1>6
  <2>2. ASSUME NEW n \in 0 + 1 .. L, n - 1 \in T PROVE n \in T
    <3>1. n \in 1 .. L /\ n \in 0 .. L
      OBVIOUS
    <3> QED  BY <1>3, <1>6, <2>2, <3>1
  <2>3. 0 \in Int /\ L \in Int /\ L \in 0 .. L
    OBVIOUS
  <2>4. L \in T
    <3> HIDE DEF T, L
    <3> QED  BY <2>1, <2>2, <2>3, Induction
  <2> QED  BY <1>2, <2>4
<1>8. EncodeBinary(m, config, n0) =
        IF Done(round[L]) = {} THEN <<>> ELSE CHOOSE t \in Done(round[L]) : TRUE
  BY DEF EncodeBinary, round, Done, start
<1> QED  BY <1>7, <1>8

\* A format of which one part is done.
Spot(done, rest) == [text |-> done \o rest, at |-> Len(done) + 1]

LEMMA Located ==
    ASSUME NEW done \in Seq(Int), NEW group \in Seq(Int), NEW rest \in Seq(Int),
           NEW text, text = done \o (group \o rest)
    PROVE  /\ text \in Seq(Int) /\ Len(text) = Len(done) + Len(group) + Len(rest)
           /\ \A i \in 1 .. Len(group) : text[Len(done) + i] = group[i]
           /\ SubSeq(text, 1, Len(done)) = done
           /\ SubSeq(text, Len(done) + 1, Len(done) + Len(group)) = group
           /\ SubSeq(text, Len(done) + Len(group) + 1, Len(text)) = rest
<1>1. Len(done) \in Nat /\ Len(group) \in Nat /\ Len(rest) \in Nat
  BY SeqType
<1>2. /\ group \o rest \in Seq(Int) /\ Len(group \o rest) = Len(group) + Len(rest)
      /\ \A i \in 1 .. Len(group) : (group \o rest)[i] = group[i]
  BY Concat
<1>3. /\ text \in Seq(Int) /\ Len(text) = Len(done) + Len(group \o rest)
      /\ \A i \in 1 .. Len(group \o rest) : text[Len(done) + i] = (group \o rest)[i]
  BY <1>2, Concat
<1>4. Len(text) = Len(done) + Len(group) + Len(rest)
  BY <1>1, <1>2, <1>3
<1>5. \A i \in 1 .. Len(group) : text[Len(done) + i] = group[i]
  BY <1>1, <1>2, <1>3
<1>6. SubSeq(text, 1, Len(done)) = done
  BY <1>2, FrontPart
<1>7. SubSeq(text, Len(done) + 1, Len(done) + Len(group)) = group
  <2> DEFINE s == SubSeq(text, Len(done) + 1, Len(done) + Len(group))
  <2>1. /\ Len(done) + 1 \in Int /\ Len(done) + Len(group) \in Int
        /\ 1 <= Len(done) + 1 /\ Len(done) + Len(group) <= Len(text)
    BY <1>1, <1>4
  <2>2. /\ s \in Seq(Int)
        /\ Len(s) = IF Len(done) + 1 <= Len(done) + Len(group)
                    THEN Len(done) + Len(group) - (Len(done) + 1) + 1 ELSE 0
        /\ \A i \in 1 .. Len(done) + Len(group) - (Len(done) + 1) + 1 :
             s[i] = text[Len(done) + 1 + i - 1]
    <3> DEFINE a == Len(done) + 1
               b == Len(done) + Len(group)
    <3>1. text \in Seq(Int) /\ a \in Int /\ b \in Int /\ 1 <= a /\ b <= Len(text)
      BY <1>3, <2>1
    <3> HIDE DEF a, b
    <3>2. /\ SubSeq(text, a, b) \in Seq(Int)
          /\ Len(SubSeq(text, a, b)) = IF a <= b THEN b - a + 1 ELSE 0
          /\ \A i \in 1 .. b - a + 1 : SubSeq(text, a, b)[i] = text[a + i - 1]
      BY <3>1, Piece
    <3> QED  BY <3>2 DEF a, b
  <2> HIDE DEF s
  <2>3. Len(s) = Len(group)
    BY <1>1, <2>2
  <2>4. ASSUME NEW i \in 1 .. Len(s) PROVE s[i] = group[i]
    <3>1. s[i] = text[Len(done) + 1 + i - 1] /\ Len(done) + 1 + i - 1 = Len(done) + i
      BY <1>1, <2>2, <2>3
    <3> QED  BY <1>5, <2>3, <3>1
  <2>5. s = group
    BY <2>2, <2>3, <2>4, Equal
  <2> QED  BY <2>5 DEF s
<1>8. SubSeq(text, Len(done) + Len(group) + 1, Len(text)) = rest
  <2>1. text = (done \o group) \o rest
    BY Assoc
  <2>2. done \o group \in Seq(Int) /\ Len(done \o group) = Len(done) + Len(group)
    BY Concat
  <2>3. SubSeq((done \o group) \o rest, Len(done \o group) + 1,
               Len((done \o group) \o rest)) = rest
    BY <2>2, BackPart
  <2> QED  BY <2>1, <2>2, <2>3
<1> QED  BY <1>3, <1>4, <1>5, <1>6, <1>7, <1>8

\* The automaton finds a group behind what is done.
Finds(done, group, rest, g) ==
    LET text == done \o (group \o rest)
    IN  /\ Group(text, Len(done) + 1).last = Len(done) + Len(group)
        /\ Group(text, Len(done) + 1).state = g

\* A group has one translation.
Yields(g, group, value, m, config, n0) ==
    Translation(g, group, m, config, n0) = {value}

\* A group that the automaton finds is replaced by its value.
LEMMA Replaced ==
    ASSUME NEW done \in Seq(Int), NEW group \in Seq(Int), NEW rest \in Seq(Int),
           NEW m, NEW config, NEW n0, group # <<>>, NEW g, Finds(done, group, rest, g),
           NEW value \in Seq(Int), Yields(g, group, value, m, config, n0)
    PROVE  Rewritten({Spot(done, group \o rest)}, m, config, n0) = {Spot(done \o value, rest)}
<1> DEFINE text == done \o (group \o rest)
           f == Spot(done, group \o rest)
           G == Group(f.text, f.at)
           results == Translation(G.state, SubSeq(f.text, f.at, G.last), m, config, n0)
           After(r) == [text |-> SubSeq(f.text, 1, f.at - 1) \o r
                                  \o SubSeq(f.text, G.last + 1, Len(f.text)),
                        at |-> Behind(f.at, r)]
<1>1. f.text = text /\ f.at = Len(done) + 1
  BY DEF Spot
<1>2. Len(done) \in Nat /\ Len(group) \in Nat /\ Len(rest) \in Nat /\ Len(value) \in Nat
      /\ Len(group) # 0
  BY SeqType
<1>3. /\ text \in Seq(Int) /\ Len(text) = Len(done) + Len(group) + Len(rest)
      /\ SubSeq(text, 1, Len(done)) = done
      /\ SubSeq(text, Len(done) + 1, Len(done) + Len(group)) = group
      /\ SubSeq(text, Len(done) + Len(group) + 1, Len(text)) = rest
  BY Located
<1>0. Group(text, Len(done) + 1).last = Len(done) + Len(group)
      /\ Group(text, Len(done) + 1).state = g
  BY DEF Finds
<1> HIDE DEF f, text
<1>4. G.state = g /\ G.last = Len(done) + Len(group)
  BY <1>0, <1>1
<1>5. results = {value}
  BY <1>1, <1>3, <1>4 DEF Yields
<1>6. After(value) = Spot(done \o value, rest)
  <2>1. f.at - 1 = Len(done)
    BY <1>1, <1>2
  <2>2. Len(done \o value) = Len(done) + Len(value)
    BY Concat
  <2>3. Behind(f.at, value) = Len(done \o value) + 1
    BY <1>1, <1>2, <2>2 DEF Behind
  <2>4. SubSeq(f.text, 1, f.at - 1) = done
    BY <1>1, <1>3, <2>1
  <2>5. SubSeq(f.text, G.last + 1, Len(f.text)) = rest
    BY <1>1, <1>3, <1>4
  <2> QED  BY <2>3, <2>4, <2>5 DEF Spot
<1>7. Rewrite(f, m, config, n0) = {After(r) : r \in results}
  BY DEF Rewrite
<1> HIDE DEF After, results, G
<1>8. Rewrite(f, m, config, n0) = {Spot(done \o value, rest)}
  BY <1>5, <1>6, <1>7
<1>9. ~(f.at > Len(f.text))
  BY <1>1, <1>2, <1>3
<1>10. Rewritten({f}, m, config, n0) = Rewrite(f, m, config, n0)
  BY <1>9 DEF Rewritten
<1> QED  BY <1>8, <1>10 DEF f

\* A group without a translation ends the rounds.
LEMMA Failed ==
    ASSUME NEW done \in Seq(Int), NEW group \in Seq(Int), NEW rest \in Seq(Int),
           NEW m, NEW config, NEW n0, group # <<>>, NEW g, Finds(done, group, rest, g),
           Translation(g, group, m, config, n0) = {}
    PROVE  Rewritten({Spot(done, group \o rest)}, m, config, n0) = {}
<1> DEFINE text == done \o (group \o rest)
           f == Spot(done, group \o rest)
           G == Group(f.text, f.at)
           results == Translation(G.state, SubSeq(f.text, f.at, G.last), m, config, n0)
<1>1. f.text = text /\ f.at = Len(done) + 1
  BY DEF Spot
<1>2. Len(done) \in Nat /\ Len(group) \in Nat /\ Len(rest) \in Nat /\ Len(group) # 0
  BY SeqType
<1>3. /\ text \in Seq(Int) /\ Len(text) = Len(done) + Len(group) + Len(rest)
      /\ SubSeq(text, Len(done) + 1, Len(done) + Len(group)) = group
  BY Located
<1>0. Group(text, Len(done) + 1).last = Len(done) + Len(group)
      /\ Group(text, Len(done) + 1).state = g
  BY DEF Finds
<1> HIDE DEF f, text
<1>4. results = {}
  BY <1>0, <1>1, <1>3
<1>5. Rewrite(f, m, config, n0) = {}
  BY <1>4 DEF Rewrite
<1>6. ~(f.at > Len(f.text))
  BY <1>1, <1>2, <1>3
<1>7. Rewritten({f}, m, config, n0) = Rewrite(f, m, config, n0)
  BY <1>6 DEF Rewritten
<1> QED  BY <1>5, <1>7 DEF f

\* The two kinds of groups that formats are made of.
LEMMA SubType ==
    ASSUME NEW k \in Specifiers, NEW w \in Words
    PROVE  /\ Sub(k, w) \in Seq(Int) /\ Len(Sub(k, w)) = 6 /\ Sub(k, w) # <<>>
           /\ Sub(k, w)[1] = LBrace /\ Sub(k, w)[2] = Percent /\ Sub(k, w)[3] = k
           /\ Sub(k, w)[4] = Colon /\ Sub(k, w)[5] = w /\ Sub(k, w)[6] = RBrace
<1>1. /\ k \in Int /\ w \in Int /\ LBrace \in Int /\ Percent \in Int /\ Colon \in Int
      /\ RBrace \in Int
  BY DEF Specifiers, Words, Bee, Aitch, Eye, Ess, LBrace, Percent, Colon, RBrace
<1> QED  BY <1>1 DEF Sub

LEMMA HexType ==
    /\ X00 \in Seq(Int) /\ Len(X00) = 4 /\ X00 # <<>>
    /\ X00[1] = Backslash /\ X00[2] = Ex /\ X00[3] = Zero /\ X00[4] = Zero
<1>1. Backslash \in Int /\ Ex \in Int /\ Zero \in Int
  BY DEF Backslash, Ex, Zero
<1> QED  BY <1>1 DEF X00

LEMMA SubFound ==
    ASSUME NEW done \in Seq(Int), NEW rest \in Seq(Int),
           NEW k \in Specifiers, NEW w \in Words
    PROVE  Finds(done, Sub(k, w), rest, <<"EXEC", k>>)
<1> DEFINE text == done \o (Sub(k, w) \o rest)
           i == Len(done) + 1
<1>1. Len(done) \in Nat /\ Len(rest) \in Nat
  BY SeqType
<1>2. /\ Sub(k, w) \in Seq(Int) /\ Len(Sub(k, w)) = 6
      /\ Sub(k, w)[1] = LBrace /\ Sub(k, w)[2] = Percent /\ Sub(k, w)[3] = k
      /\ Sub(k, w)[4] = Colon /\ Sub(k, w)[5] = w /\ Sub(k, w)[6] = RBrace
  BY SubType
<1>3. /\ Len(text) = Len(done) + Len(Sub(k, w)) + Len(rest)
      /\ \A j \in 1 .. Len(Sub(k, w)) : text[Len(done) + j] = Sub(k, w)[j]
  <2> DEFINE group == Sub(k, w)
  <2>1. group \in Seq(Int) /\ text = done \o (group \o rest)
    BY <1>2
  <2> HIDE DEF group, text
  <2>2. /\ Len(text) = Len(done) + Len(group) + Len(rest)
        /\ \A j \in 1 .. Len(group) : text[Len(done) + j] = group[j]
    BY <2>1, Located
  <2> QED  BY <2>2 DEF group
<1> HIDE DEF text
<1>4. /\ Len(text) \in Nat /\ i \in Nat /\ 1 <= i /\ i + 5 <= Len(text)
      /\ i + 5 = Len(done) + Len(Sub(k, w))
  <2>1. Len(Sub(k, w)) = 6 /\ Len(text) = Len(done) + Len(Sub(k, w)) + Len(rest)
    BY <1>2, <1>3
  <2>2. Len(text) = Len(done) + 6 + Len(rest)
    BY <2>1
  <2> QED  BY <1>1, <2>1, <2>2
<1>5. /\ Len(done) + 1 = i /\ Len(done) + 2 = i + 1 /\ Len(done) + 3 = i + 2
      /\ Len(done) + 4 = i + 3 /\ Len(done) + 5 = i + 4 /\ Len(done) + 6 = i + 5
  BY <1>1
<1>6. 1 \in 1 .. 6 /\ 2 \in 1 .. 6 /\ 3 \in 1 .. 6 /\ 4 \in 1 .. 6 /\ 5 \in 1 .. 6 /\ 6 \in 1 .. 6
  OBVIOUS
<1> HIDE DEF i, text
<1>7. /\ text[i] = LBrace /\ text[i + 1] = Percent /\ text[i + 2] = k
      /\ text[i + 3] = Colon /\ text[i + 4] = w /\ text[i + 5] = RBrace
  BY <1>2, <1>3, <1>5, <1>6
<1>8. Group(text, i).last = i + 5 /\ Group(text, i).state = <<"EXEC", k>>
  BY <1>4, <1>7, SubstitutionGroup
<1> QED  BY <1>4, <1>8 DEF i, text, Finds

LEMMA HexFound ==
    ASSUME NEW done \in Seq(Int), NEW rest \in Seq(Int)
    PROVE  Finds(done, X00, rest, <<"HEX_BYTE", 0>>)
<1> DEFINE text == done \o (X00 \o rest)
           i == Len(done) + 1
<1>1. Len(done) \in Nat /\ Len(rest) \in Nat
  BY SeqType
<1>2. /\ X00 \in Seq(Int) /\ Len(X00) = 4
      /\ X00[1] = Backslash /\ X00[2] = Ex /\ X00[3] = Zero /\ X00[4] = Zero
  BY HexType
<1>3. /\ Len(text) = Len(done) + Len(X00) + Len(rest)
      /\ \A j \in 1 .. Len(X00) : text[Len(done) + j] = X00[j]
  <2> DEFINE group == X00
  <2>1. group \in Seq(Int) /\ text = done \o (group \o rest)
    BY <1>2
  <2> HIDE DEF group, text
  <2>2. /\ Len(text) = Len(done) + Len(group) + Len(rest)
        /\ \A j \in 1 .. Len(group) : text[Len(done) + j] = group[j]
    BY <2>1, Located
  <2> QED  BY <2>2 DEF group
<1> HIDE DEF text
<1>4. /\ Len(text) \in Nat /\ i \in Nat /\ 1 <= i /\ i + 3 <= Len(text)
      /\ i + 3 = Len(done) + Len(X00)
  BY <1>1, <1>2, <1>3
<1>5. /\ Len(done) + 1 = i /\ Len(done) + 2 = i + 1 /\ Len(done) + 3 = i + 2
      /\ Len(done) + 4 = i + 3
  BY <1>1
<1>6. 1 \in 1 .. 4 /\ 2 \in 1 .. 4 /\ 3 \in 1 .. 4 /\ 4 \in 1 .. 4
  OBVIOUS
<1> HIDE DEF i, text
<1>7. text[i] = Backslash /\ text[i + 1] = Ex /\ text[i + 2] = Zero /\ text[i + 3] = Zero
  BY <1>2, <1>3, <1>5, <1>6
<1>8. Group(text, i).last = i + 3 /\ Group(text, i).state = <<"HEX_BYTE", 0>>
  BY <1>4, <1>7, HexGroup
<1> QED  BY <1>4, <1>8 DEF i, text, Finds

-----------------------------------------------------------------------------
(* What the groups are translated to *)

Messages == [type : DOMAIN Codes, id : 0 .. NoId, ref : 0 .. NoId,
             author : Seq(Chars), text : Seq(Chars)]
Configs == [username : Seq(Chars), secret : Seq(Chars), channel : Seq(Chars)]

TextWords == {DisplayName, MessageContent, Username, Secret, ChannelID}
NumberWords == {Type, messageID, rMessageID}

LEMMA WordFacts ==
    /\ TextWords \subseteq Words /\ NumberWords \subseteq Words /\ Result \in Words
    /\ Result \notin NumberWords
    /\ Type # messageID /\ Type # rMessageID /\ messageID # rMessageID
    /\ Bee # Aitch /\ Bee # Ess /\ Aitch # Ess /\ Eye # Bee /\ Eye # Aitch
    /\ Bee \in Specifiers /\ Aitch \in Specifiers /\ Ess \in Specifiers
BY DEF TextWords, NumberWords, Words, Result, DisplayName, MessageContent, Username, Secret,
       ChannelID, Type, messageID, rMessageID, Specifiers, Bee, Aitch, Ess, Eye

LEMMA SubWord ==
    ASSUME NEW k \in Specifiers, NEW w \in Words
    PROVE  Sub(k, w)[Len(Sub(k, w)) - 1] = w
<1>1. Len(Sub(k, w)) = 6 /\ Sub(k, w)[5] = w
  BY SubType
<1> QED  BY <1>1

LEMMA TextTranslated ==
    ASSUME NEW m, NEW config, NEW n0, NEW w \in TextWords
    PROVE  Yields(<<"EXEC", Ess>>, Sub(Ess, w), Texts(m, config)[w], m, config, n0)
<1> DEFINE g == <<"EXEC", Ess>>
           word == Sub(Ess, w)[Len(Sub(Ess, w)) - 1]
<1>1. word = w
  BY WordFacts, SubWord
<1>2. /\ g # <<"ORDINARY", 0>> /\ g # <<"BACKSLASH", 0>> /\ g # <<"HEX_NIBBLE", 0>>
      /\ g # <<"HEX_BYTE", 0>> /\ g \notin {<<"EXEC", Bee>>, <<"EXEC", Aitch>>, <<"EXEC", Eye>>}
  BY DEF Ess, Bee, Aitch, Eye
<1>3. g = <<"EXEC", Ess>>
  OBVIOUS
<1> HIDE DEF g, word
<1>4. Translation(g, Sub(Ess, w), m, config, n0) =
        {Texts(m, config)[v] : v \in {word} \cap DOMAIN Texts(m, config)}
  BY <1>2, <1>3, Zenon DEF Translation, word
<1>5. w \in DOMAIN Texts(m, config)
  BY DEF Texts, TextWords
<1>6. {word} \cap DOMAIN Texts(m, config) = {w}
  BY <1>1, <1>5
<1> QED  BY <1>3, <1>4, <1>6 DEF Yields

LEMMA NumberTranslated ==
    ASSUME NEW m, NEW config, NEW n0, NEW k \in {Bee, Aitch}, NEW w \in Words
    PROVE  /\ w \in NumberWords =>
                Yields(<<"EXEC", k>>, Sub(k, w), NumberBytes(k, Numbers(m, n0)[w]), m, config, n0)
           /\ w \notin NumberWords =>
                Translation(<<"EXEC", k>>, Sub(k, w), m, config, n0) = {}
<1> DEFINE g == <<"EXEC", k>>
           word == Sub(k, w)[Len(Sub(k, w)) - 1]
<1>1. word = w
  BY WordFacts, SubWord
<1>2. /\ g # <<"ORDINARY", 0>> /\ g # <<"BACKSLASH", 0>> /\ g # <<"HEX_NIBBLE", 0>>
      /\ g # <<"HEX_BYTE", 0>> /\ g # <<"EXEC", Ess>>
      /\ g \in {<<"EXEC", Bee>>, <<"EXEC", Aitch>>, <<"EXEC", Eye>>} /\ g[2] = k
  BY WordFacts
<1>3. g = <<"EXEC", k>>
  OBVIOUS
<1> HIDE DEF g, word
<1>4. Translation(g, Sub(k, w), m, config, n0) =
        {NumberBytes(g[2], Numbers(m, n0)[v]) : v \in {word} \cap DOMAIN Numbers(m, n0)}
  BY <1>2 DEF Translation, word
<1>5. DOMAIN Numbers(m, n0) = NumberWords
  BY DEF Numbers, NumberWords
<1>6. Translation(g, Sub(k, w), m, config, n0) =
        {NumberBytes(k, Numbers(m, n0)[v]) : v \in {w} \cap NumberWords}
  BY <1>1, <1>2, <1>4, <1>5
<1>7. ASSUME w \in NumberWords
      PROVE  Yields(g, Sub(k, w), NumberBytes(k, Numbers(m, n0)[w]), m, config, n0)
  <2>1. {w} \cap NumberWords = {w}
    BY <1>7
  <2> QED  BY <1>6, <2>1 DEF Yields
<1>8. ASSUME w \notin NumberWords PROVE Translation(g, Sub(k, w), m, config, n0) = {}
  <2>1. {w} \cap NumberWords = {}
    BY <1>8
  <2> QED  BY <1>6, <2>1
<1> QED  BY <1>7, <1>8 DEF g

LEMMA HexTranslated ==
    ASSUME NEW m, NEW config, NEW n0
    PROVE  Yields(<<"HEX_BYTE", 0>>, X00, <<NUL>>, m, config, n0)
<1> DEFINE g == <<"HEX_BYTE", 0>>
           digits == SubSeq(X00, 3, Len(X00))
<1>1. /\ g # <<"ORDINARY", 0>> /\ g # <<"BACKSLASH", 0>> /\ g # <<"HEX_NIBBLE", 0>>
      /\ g = <<"HEX_BYTE", 0>>
  OBVIOUS
<1>2. digits[1] = Zero /\ digits[2] = Zero
  <2>1. X00 \in Seq(Int) /\ Len(X00) = 4 /\ X00[3] = Zero /\ X00[4] = Zero
    BY HexType
  <2>2. \A i \in 1 .. 4 - 3 + 1 : SubSeq(X00, 3, 4)[i] = X00[3 + i - 1]
    BY <2>1, Piece
  <2>3. 1 \in 1 .. 4 - 3 + 1 /\ 2 \in 1 .. 4 - 3 + 1 /\ 3 + 1 - 1 = 3 /\ 3 + 2 - 1 = 4
    OBVIOUS
  <2> QED  BY <2>1, <2>2, <2>3
<1> HIDE DEF g, digits
<1>3. Translation(g, X00, m, config, n0) =
        {<<16 * HexValue(digits[1]) + HexValue(digits[2])>>}
  BY <1>1 DEF Translation, digits
<1>4. HexValue(Zero) = 0
  BY DEF HexValue, Zero, Digits
<1>5. 16 * HexValue(digits[1]) + HexValue(digits[2]) = NUL
  BY <1>2, <1>4 DEF NUL
<1> QED  BY <1>1, <1>3, <1>5 DEF Yields

LEMMA CharsAreNumbers ==
    ASSUME NEW s \in Seq(Chars)
    PROVE  s \in Seq(Int)
<1>1. Chars \subseteq Int
  BY DEF Chars, Words
<1>2. Len(s) \in Nat /\ DOMAIN s = 1 .. Len(s) /\ \A i \in 1 .. Len(s) : s[i] \in Chars
  BY SeqType
<1>3. s \in [1 .. Len(s) -> Chars]
  BY LenProperties
<1>4. s \in [1 .. Len(s) -> Int]
  BY <1>1, <1>3
<1> QED  BY <1>2, <1>4, IsASeq

-----------------------------------------------------------------------------
(* Rounds over the groups *)

LEMMA GroupRound ==
    ASSUME NEW m, NEW config, NEW n0, NEW a, NEW n \in Nat, NEW done \in Seq(Int),
           NEW rest \in Seq(Int), NEW group \in Seq(Int), group # <<>>, NEW g,
           Reaches(a, {Spot(done, group \o rest)}, n, m, config, n0),
           Finds(done, group, rest, g), NEW value \in Seq(Int),
           Yields(g, group, value, m, config, n0)
    PROVE  Reaches(a, {Spot(done \o value, rest)}, n + 1, m, config, n0)
<1>1. Rewritten({Spot(done, group \o rest)}, m, config, n0) = {Spot(done \o value, rest)}
  BY Replaced
<1> QED  BY <1>1, NextRound

LEMMA SubRound ==
    ASSUME NEW m, NEW config, NEW n0, NEW a, NEW n \in Nat, NEW done \in Seq(Int),
           NEW rest \in Seq(Int), NEW k \in Specifiers, NEW w \in Words,
           Reaches(a, {Spot(done, Sub(k, w) \o rest)}, n, m, config, n0),
           NEW value \in Seq(Int), Yields(<<"EXEC", k>>, Sub(k, w), value, m, config, n0)
    PROVE  Reaches(a, {Spot(done \o value, rest)}, n + 1, m, config, n0)
<1>1. Sub(k, w) \in Seq(Int) /\ Sub(k, w) # <<>>
  BY SubType
<1>2. Finds(done, Sub(k, w), rest, <<"EXEC", k>>)
  BY SubFound
<1> QED  BY <1>1, <1>2, GroupRound

LEMMA HexRound ==
    ASSUME NEW m, NEW config, NEW n0, NEW a, NEW n \in Nat, NEW done \in Seq(Int),
           NEW rest \in Seq(Int),
           Reaches(a, {Spot(done, X00 \o rest)}, n, m, config, n0)
    PROVE  Reaches(a, {Spot(done \o <<NUL>>, rest)}, n + 1, m, config, n0)
<1>1. X00 \in Seq(Int) /\ X00 # <<>> /\ <<NUL>> \in Seq(Int)
  BY HexType DEF NUL
<1>2. Finds(done, X00, rest, <<"HEX_BYTE", 0>>)
  BY HexFound
<1>3. Yields(<<"HEX_BYTE", 0>>, X00, <<NUL>>, m, config, n0)
  BY HexTranslated
<1> QED  BY <1>1, <1>2, <1>3, GroupRound

\* A text and the zero that ends it.
LEMMA TextRounds ==
    ASSUME NEW m, NEW config, NEW n0, NEW a, NEW n \in Nat, NEW done \in Seq(Int),
           NEW rest \in Seq(Int), NEW w \in TextWords, Texts(m, config)[w] \in Seq(Int),
           Reaches(a, {Spot(done, Sub(Ess, w) \o (X00 \o rest))}, n, m, config, n0)
    PROVE  /\ done \o Append(Texts(m, config)[w], NUL) \in Seq(Int)
           /\ Reaches(a, {Spot(done \o Append(Texts(m, config)[w], NUL), rest)}, n + 2,
                      m, config, n0)
<1> DEFINE value == Texts(m, config)[w]
           group == Sub(Ess, w)
<1>1. w \in Words /\ Ess \in Specifiers
  BY WordFacts
<1>2. X00 \o rest \in Seq(Int)
  BY HexType, Concat
<1>3. Yields(<<"EXEC", Ess>>, group, value, m, config, n0)
  BY TextTranslated
<1> DEFINE r == X00 \o rest
<1>4. r \in Seq(Int) /\ Reaches(a, {Spot(done, group \o r)}, n, m, config, n0)
  BY <1>2
<1> HIDE DEF value, r
<1>5. Reaches(a, {Spot(done \o value, r)}, n + 1, m, config, n0)
  <2>1. value \in Seq(Int)
    BY DEF value
  <2> QED  BY <1>1, <1>3, <1>4, <2>1, SubRound
<1>6. done \o value \in Seq(Int) /\ value \in Seq(Int)
  BY Concat DEF value
<1> DEFINE d == done \o value
<1>7. n + 1 \in Nat /\ Reaches(a, {Spot(d, X00 \o rest)}, n + 1, m, config, n0)
  BY <1>5 DEF r
<1>8. d \in Seq(Int)
  BY <1>6
<1> HIDE DEF d
<1>9. Reaches(a, {Spot(d \o <<NUL>>, rest)}, n + 1 + 1, m, config, n0)
  BY <1>7, <1>8, HexRound
<1>10. n + 1 + 1 = n + 2
  OBVIOUS
<1>11. <<NUL>> \in Seq(Int)
  BY DEF NUL
<1>12. d \o <<NUL>> = done \o Append(value, NUL)
  <2>1. d \o <<NUL>> = done \o (value \o <<NUL>>)
    BY <1>6, <1>11, Assoc DEF d
  <2>2. value \o <<NUL>> = Append(value, NUL)
    BY <1>6, <1>11
  <2> QED  BY <2>1, <2>2
<1>13. d \o <<NUL>> \in Seq(Int)
  BY <1>8, <1>11, Concat
<1> QED  BY <1>9, <1>10, <1>12, <1>13 DEF value

-----------------------------------------------------------------------------
(* Formats and layouts as concatenations *)

LEMMA NoPart ==
    ASSUME NEW s \in Seq(Int)
    PROVE  <<>> \in Seq(Int) /\ Len(<<>>) = 0 /\ s \o <<>> = s /\ <<>> \o s = s
BY EmptySeq, ConcatEmptySeq

\* What is nested to the left, nested to the right.
Nested(left, right, n) == right \in Seq(Int) /\ left = right /\ Len(left) = n

LEMMA Regroup2 ==
    ASSUME NEW a \in Seq(Int), NEW b \in Seq(Int), NEW t \in Seq(Int)
    PROVE  Nested((a \o b) \o t, a \o (b \o t), Len(a) + Len(b) + Len(t))
<1>1. b \o t \in Seq(Int) /\ a \o b \in Seq(Int) /\ Len(a \o b) = Len(a) + Len(b)
  BY Concat
<1>2. a \o (b \o t) \in Seq(Int)
  BY <1>1, Concat
<1>3. Len((a \o b) \o t) = Len(a \o b) + Len(t)
  BY <1>1, Concat
<1>4. (a \o b) \o t = a \o (b \o t)
  BY Assoc
<1> QED  BY <1>1, <1>2, <1>3, <1>4 DEF Nested

LEMMA Regroup3 ==
    ASSUME NEW a \in Seq(Int), NEW b \in Seq(Int), NEW c \in Seq(Int), NEW t \in Seq(Int)
    PROVE  Nested(((a \o b) \o c) \o t, a \o (b \o (c \o t)),
                  Len(a) + Len(b) + Len(c) + Len(t))
<1> DEFINE ab == a \o b
           ct == c \o t
<1>1. ab \in Seq(Int) /\ Len(ab) = Len(a) + Len(b) /\ ct \in Seq(Int)
  BY Concat
<1> HIDE DEF ab
<1>2. Nested((ab \o c) \o t, ab \o (c \o t), Len(ab) + Len(c) + Len(t))
  BY <1>1, Regroup2
<1>3. (ab \o c) \o t = ab \o ct /\ Len((ab \o c) \o t) = Len(ab) + Len(c) + Len(t)
  BY <1>2 DEF Nested
<1> HIDE DEF ct
<1>4. Nested((a \o b) \o ct, a \o (b \o ct), Len(a) + Len(b) + Len(ct))
  BY <1>1, Regroup2
<1>5. a \o (b \o ct) \in Seq(Int) /\ ab \o ct = a \o (b \o ct)
  BY <1>4 DEF Nested, ab
<1>6. Len(a) \in Nat /\ Len(b) \in Nat /\ Len(c) \in Nat /\ Len(t) \in Nat
  BY SeqType
<1>7. Len(ab) + Len(c) + Len(t) = Len(a) + Len(b) + Len(c) + Len(t)
  BY <1>1, <1>6
<1> QED  BY <1>3, <1>5, <1>7 DEF Nested, ab, ct

LEMMA Regroup4 ==
    ASSUME NEW a \in Seq(Int), NEW b \in Seq(Int), NEW c \in Seq(Int), NEW d \in Seq(Int),
           NEW t \in Seq(Int)
    PROVE  Nested((((a \o b) \o c) \o d) \o t,
                  a \o (b \o (c \o (d \o t))),
                  Len(a) + Len(b) + Len(c) + Len(d) + Len(t))
<1> DEFINE x == (a \o b)
           r == c \o (d \o t)
<1>1. x \in Seq(Int)
  <2>2. (a \o b) \in Seq(Int)
    BY Concat
  <2> QED  BY <2>2
<1>2. d \o t \in Seq(Int) /\ r \in Seq(Int) /\ Len(r) = Len(c) + (Len(d) + Len(t))
  <2>1. d \o t \in Seq(Int) /\ Len(d \o t) = Len(d) + Len(t)
    BY Concat
  <2> QED  BY <2>1, Concat
<1> HIDE DEF r
<1>3. Nested(x \o r, a \o (b \o r), Len(a) + Len(b) + Len(r))
  BY <1>2, Regroup2
<1> HIDE DEF x
<1>4. ((x \o c) \o d) \o t = x \o r
  <2>1. Nested(((x \o c) \o d) \o t, x \o (c \o (d \o t)), Len(x) + Len(c) + Len(d) + Len(t))
    BY <1>1, Regroup3
  <2> QED  BY <2>1 DEF Nested, r
<1>5. Len(a) \in Nat /\ Len(b) \in Nat /\ Len(c) \in Nat /\ Len(d) \in Nat /\ Len(t) \in Nat
  BY SeqType
<1>6. Len(a) + Len(b) + Len(r) = Len(a) + Len(b) + Len(c) + Len(d) + Len(t)
  BY <1>2, <1>5
<1> QED  BY <1>3, <1>4, <1>6 DEF Nested, x, r

LEMMA Regroup6 ==
    ASSUME NEW a \in Seq(Int), NEW b \in Seq(Int), NEW c \in Seq(Int), NEW d \in Seq(Int),
           NEW e \in Seq(Int), NEW f \in Seq(Int), NEW t \in Seq(Int)
    PROVE  Nested((((((a \o b) \o c) \o d) \o e) \o f) \o t,
                  a \o (b \o (c \o (d \o (e \o (f \o t))))),
                  Len(a) + Len(b) + Len(c) + Len(d) + Len(e) + Len(f) + Len(t))
<1> DEFINE x == (((a \o b) \o c) \o d)
           r == e \o (f \o t)
<1>1. x \in Seq(Int)
  <2>2. (a \o b) \in Seq(Int)
    BY Concat
  <2>3. ((a \o b) \o c) \in Seq(Int)
    BY <2>2, Concat
  <2>4. (((a \o b) \o c) \o d) \in Seq(Int)
    BY <2>3, Concat
  <2> QED  BY <2>4
<1>2. f \o t \in Seq(Int) /\ r \in Seq(Int) /\ Len(r) = Len(e) + (Len(f) + Len(t))
  <2>1. f \o t \in Seq(Int) /\ Len(f \o t) = Len(f) + Len(t)
    BY Concat
  <2> QED  BY <2>1, Concat
<1> HIDE DEF r
<1>3. Nested(x \o r, a \o (b \o (c \o (d \o r))), Len(a) + Len(b) + Len(c) + Len(d) + Len(r))
  BY <1>2, Regroup4
<1> HIDE DEF x
<1>4. ((x \o e) \o f) \o t = x \o r
  <2>1. Nested(((x \o e) \o f) \o t, x \o (e \o (f \o t)), Len(x) + Len(e) + Len(f) + Len(t))
    BY <1>1, Regroup3
  <2> QED  BY <2>1 DEF Nested, r
<1>5. Len(a) \in Nat /\ Len(b) \in Nat /\ Len(c) \in Nat /\ Len(d) \in Nat
          /\ Len(e) \in Nat /\ Len(f) \in Nat /\ Len(t) \in Nat
  BY SeqType
<1>6. Len(a) + Len(b) + Len(c) + Len(d) + Len(r)
          = Len(a) + Len(b) + Len(c) + Len(d) + Len(e) + Len(f) + Len(t)
  BY <1>2, <1>5
<1> QED  BY <1>3, <1>4, <1>6 DEF Nested, x, r

-----------------------------------------------------------------------------
(* What encodeBinary makes of a format *)

\* After k rounds a format is done up to a rest.
Written(format, done, rest, k, m, config, n0) ==
    Reaches({[text |-> format, at |-> 1]}, {Spot(done, rest)}, k, m, config, n0)

LEMMA WrittenNothing ==
    ASSUME NEW format \in Seq(Int), NEW m, NEW config, NEW n0
    PROVE  Written(format, <<>>, format, 0, m, config, n0)
<1>1. <<>> \o format = format /\ Len(<<>>) + 1 = 1
  BY NoPart
<1>2. Spot(<<>>, format) = [text |-> format, at |-> 1]
  BY <1>1 DEF Spot
<1> QED  BY <1>2, NoRound DEF Written

LEMMA WrittenSub ==
    ASSUME NEW format, NEW m, NEW config, NEW n0, NEW n \in Nat, NEW done \in Seq(Int),
           NEW rest \in Seq(Int), NEW k \in Specifiers, NEW w \in Words,
           Written(format, done, Sub(k, w) \o rest, n, m, config, n0),
           NEW value \in Seq(Int), Yields(<<"EXEC", k>>, Sub(k, w), value, m, config, n0)
    PROVE  Written(format, done \o value, rest, n + 1, m, config, n0)
BY SubRound DEF Written

LEMMA WrittenText ==
    ASSUME NEW format, NEW m, NEW config, NEW n0, NEW n \in Nat, NEW done \in Seq(Int),
           NEW rest \in Seq(Int), NEW w \in TextWords, Texts(m, config)[w] \in Seq(Int),
           Written(format, done, Sub(Ess, w) \o (X00 \o rest), n, m, config, n0)
    PROVE  /\ done \o Append(Texts(m, config)[w], NUL) \in Seq(Int)
           /\ Written(format, done \o Append(Texts(m, config)[w], NUL), rest, n + 2,
                      m, config, n0)
BY TextRounds DEF Written

\* A format of which nothing is left is sent.
LEMMA WrittenAll ==
    ASSUME NEW m, NEW config, NEW n0, m.type \in DOMAIN udpMessageFormats,
           NEW format, format = udpMessageFormats[m.type], Len(format) \in Nat,
           NEW k \in 0 .. Len(format), NEW done \in Seq(Int),
           Written(format, done, <<>>, k, m, config, n0)
    PROVE  EncodeBinary(m, config, n0) = done
<1> DEFINE f == Spot(done, <<>>)
<1>1. f.text = done /\ f.at = Len(done) + 1
  BY NoPart DEF Spot
<1>2. Len(done) \in Nat
  BY SeqType
<1> HIDE DEF f
<1>3. f.at > Len(f.text)
  BY <1>1, <1>2
<1> DEFINE b == {f}
<1>4. Rewritten(b, m, config, n0) = b
  BY <1>3 DEF Rewritten
<1>5. Done(b) = {done}
  BY <1>1, <1>3 DEF Done
<1>6. Reaches({[text |-> format, at |-> 1]}, b, k, m, config, n0)
  BY DEF Written, f
<1> HIDE DEF b
<1>7. EncodeBinary(m, config, n0) =
        IF Done(b) = {} THEN <<>> ELSE CHOOSE t \in Done(b) : TRUE
  BY <1>4, <1>6, Settled
<1> QED  BY <1>5, <1>7

\* A format with a group that has no translation is not sent.
LEMMA WrittenNever ==
    ASSUME NEW m, NEW config, NEW n0, m.type \in DOMAIN udpMessageFormats,
           NEW format, format = udpMessageFormats[m.type], Len(format) \in Nat,
           NEW k \in Nat, k + 1 <= Len(format), NEW done \in Seq(Int),
           NEW rest \in Seq(Int), NEW s \in Specifiers, NEW w \in Words,
           Written(format, done, Sub(s, w) \o rest, k, m, config, n0),
           Translation(<<"EXEC", s>>, Sub(s, w), m, config, n0) = {}
    PROVE  EncodeBinary(m, config, n0) = <<>>
<1> DEFINE group == Sub(s, w)
<1>1. group \in Seq(Int) /\ group # <<>>
  BY SubType
<1>2. Finds(done, group, rest, <<"EXEC", s>>)
  BY SubFound
<1> DEFINE g == <<"EXEC", s>>
<1>3. Translation(g, group, m, config, n0) = {}
  OBVIOUS
<1>4. Finds(done, group, rest, g)
  BY <1>2
<1>5. Reaches({[text |-> format, at |-> 1]}, {Spot(done, group \o rest)}, k, m, config, n0)
  BY DEF Written
<1> HIDE DEF group, g
<1>6. Rewritten({Spot(done, group \o rest)}, m, config, n0) = {}
  BY <1>1, <1>3, <1>4, Failed
<1> DEFINE none == {}
<1>7. Reaches({[text |-> format, at |-> 1]}, none, k + 1, m, config, n0)
  BY <1>5, <1>6, NextRound
<1>8. Rewritten(none, m, config, n0) = none /\ Done(none) = {}
  BY DEF Rewritten, Done
<1>9. k + 1 \in 0 .. Len(format)
  OBVIOUS
<1> HIDE DEF none
<1>10. EncodeBinary(m, config, n0) =
         IF Done(none) = {} THEN <<>> ELSE CHOOSE t \in Done(none) : TRUE
  BY <1>7, <1>8, <1>9, Settled
<1> QED  BY <1>8, <1>10

\* The type and the ID in front of every message.
Top(m, n0, id) == <<Codes[m.type]>> \o Word(Numbers(m, n0)[id])

LEMMA NumbersType ==
    ASSUME NEW m \in Messages, NEW n0 \in Int
    PROVE  /\ Numbers(m, n0)[Type] = Codes[m.type] /\ Codes[m.type] \in 0 .. 255
           /\ Numbers(m, n0)[messageID] = Swapped(IF m.id = NoId THEN n0 ELSE m.id)
           /\ Numbers(m, n0)[messageID] \in Int
           /\ Numbers(m, n0)[rMessageID] = m.ref /\ Numbers(m, n0)[rMessageID] \in Int
<1>1. Codes[m.type] \in 0 .. 255
  <2>1. m.type \in DOMAIN Codes
    BY DEF Messages
  <2>2. \A t \in DOMAIN Codes : Codes[t] \in 0 .. 255
    BY DEF Codes
  <2> QED  BY <2>1, <2>2
<1>2. m.id \in Int /\ m.ref \in Int
  <2>1. m.id \in 0 .. NoId /\ m.ref \in 0 .. NoId
    BY DEF Messages
  <2>2. NoId \in Int
    BY DEF NoId
  <2> QED  BY <2>1, <2>2
<1>3. /\ Numbers(m, n0)[Type] = Codes[m.type]
      /\ Numbers(m, n0)[messageID] = htons(IF m.id # NoId THEN m.id ELSE n0)
      /\ Numbers(m, n0)[rMessageID] = m.ref
  BY WordFacts, Zenon DEF Numbers
<1> DEFINE x == IF m.id = NoId THEN n0 ELSE m.id
<1>4. x \in Int /\ x = IF m.id # NoId THEN m.id ELSE n0
  BY <1>2
<1> HIDE DEF x
<1>5. htons(x) = Swapped(x) /\ Swapped(x) \in Int
  BY <1>4 DEF htons, Swapped
<1> QED  BY <1>1, <1>2, <1>3, <1>4, <1>5 DEF x

LEMMA SmallByte ==
    ASSUME NEW c \in Int, 0 <= c, c < 256
    PROVE  c % 256 = c
OBVIOUS

LEMMA WrittenTop ==
    ASSUME NEW m \in Messages, NEW config, NEW n0 \in Int, NEW format \in Seq(Int),
           NEW id \in {messageID, rMessageID}, NEW rest \in Seq(Int),
           format = Sub(Bee, Type) \o (Sub(Aitch, id) \o rest)
    PROVE  /\ Top(m, n0, id) \in Seq(Int)
           /\ Written(format, Top(m, n0, id), rest, 2, m, config, n0)
<1> DEFINE n == Numbers(m, n0)[id]
           code == Codes[m.type]
           more == Sub(Aitch, id) \o rest
<1>1. /\ Bee \in Specifiers /\ Aitch \in Specifiers /\ Type \in Words /\ id \in Words
      /\ Type \in NumberWords /\ id \in NumberWords
  BY WordFacts DEF NumberWords
<1>2. n \in Int /\ code \in 0 .. 255 /\ Numbers(m, n0)[Type] = code
  BY NumbersType
<1>3. more \in Seq(Int)
  BY <1>1, SubType, Concat
<1> HIDE DEF n, code, more
<1>4. <<code>> \in Seq(Int) /\ Word(n) \in Seq(Int)
  BY <1>2 DEF Word
<1>5. Yields(<<"EXEC", Bee>>, Sub(Bee, Type), <<code>>, m, config, n0)
  <2>1. NumberBytes(Bee, code) = <<code>>
    <3>1. code % 256 = code
      <4>1. code \in Int /\ 0 <= code /\ code < 256
        BY <1>2
      <4> QED  BY <4>1, SmallByte
    <3>2. NumberBytes(Bee, code) = <<code % 256>>
      BY WordFacts, Zenon DEF NumberBytes
    <3> QED  BY <3>1, <3>2
  <2>2. Yields(<<"EXEC", Bee>>, Sub(Bee, Type), NumberBytes(Bee, Numbers(m, n0)[Type]),
               m, config, n0)
    BY <1>1, NumberTranslated
  <2> QED  BY <1>2, <2>1, <2>2
<1>6. Yields(<<"EXEC", Aitch>>, Sub(Aitch, id), Word(n), m, config, n0)
  <2>1. NumberBytes(Aitch, n) = Word(n)
    BY WordFacts, Zenon DEF NumberBytes, Word
  <2>2. Yields(<<"EXEC", Aitch>>, Sub(Aitch, id), NumberBytes(Aitch, Numbers(m, n0)[id]),
               m, config, n0)
    BY <1>1, NumberTranslated
  <2> QED  BY <2>1, <2>2 DEF n
<1>7. Written(format, <<>>, Sub(Bee, Type) \o more, 0, m, config, n0)
  BY WrittenNothing DEF more
<1>8. <<>> \in Seq(Int) /\ 0 \in Nat /\ 1 \in Nat /\ 0 + 1 = 1 /\ 1 + 1 = 2
  BY NoPart
<1>9. Written(format, <<>> \o <<code>>, more, 0 + 1, m, config, n0)
  BY <1>1, <1>3, <1>4, <1>5, <1>7, <1>8, WrittenSub
<1>10. Written(format, <<code>>, Sub(Aitch, id) \o rest, 1, m, config, n0)
  BY <1>4, <1>8, <1>9, NoPart DEF more
<1>11. Written(format, <<code>> \o Word(n), rest, 1 + 1, m, config, n0)
  BY <1>1, <1>4, <1>6, <1>8, <1>10, WrittenSub
<1>12. <<code>> \o Word(n) \in Seq(Int)
  BY <1>4, Concat
<1> QED  BY <1>8, <1>11, <1>12 DEF Top, n, code

\* A text as it is sent.
Ending(m, config, w) == Append(Texts(m, config)[w], NUL)

\* The format of a type.
HasFormat(type, format) ==
    type \in DOMAIN udpMessageFormats /\ udpMessageFormats[type] = format

LEMMA TextsType ==
    ASSUME NEW m \in Messages, NEW config \in Configs, NEW w \in TextWords
    PROVE  Texts(m, config)[w] \in Seq(Int) /\ Ending(m, config, w) \in Seq(Int)
<1>1. /\ m.author \in Seq(Int) /\ m.text \in Seq(Int)
      /\ config.username \in Seq(Int) /\ config.secret \in Seq(Int)
      /\ config.channel \in Seq(Int)
  <2>1. /\ m.author \in Seq(Chars) /\ m.text \in Seq(Chars)
        /\ config.username \in Seq(Chars) /\ config.secret \in Seq(Chars)
        /\ config.channel \in Seq(Chars)
    BY DEF Messages, Configs
  <2> QED  BY <2>1, CharsAreNumbers
<1>2. Texts(m, config)[w] \in Seq(Int)
  <2>1. Texts(m, config)[w] \in {m.author, m.text, config.username, config.secret, config.channel}
    BY DEF Texts, TextWords
  <2> QED  BY <1>1, <2>1
<1>3. NUL \in Int
  BY DEF NUL
<1> QED  BY <1>2, <1>3 DEF Ending

LEMMA Encoded0 ==
    ASSUME NEW m \in Messages, NEW config \in Configs, NEW n0 \in Int,
           NEW id \in {messageID, rMessageID},
           HasFormat(m.type, Sub(Bee, Type) \o Sub(Aitch, id))
    PROVE  EncodeBinary(m, config, n0) = Top(m, n0, id)
<1> DEFINE format == udpMessageFormats[m.type]
           a == Sub(Bee, Type)
           b == Sub(Aitch, id)
<1>1. Bee \in Specifiers /\ Aitch \in Specifiers /\ Ess \in Specifiers
      /\ Type \in Words /\ id \in Words
  BY WordFacts DEF NumberWords
<1>2. /\ a \in Seq(Int) /\ Len(a) = 6
      /\ b \in Seq(Int) /\ Len(b) = 6
      /\ X00 \in Seq(Int) /\ Len(X00) = 4
  BY <1>1, SubType, HexType
<1>3. format = a \o b /\ m.type \in DOMAIN udpMessageFormats
  BY DEF HasFormat
<1>0. <<>> \in Seq(Int) /\ Len(<<>>) = 0
  BY NoPart
<1> HIDE DEF format, a, b
<1>4. Nested((a \o b) \o <<>>,
             a \o (b \o <<>>),
             Len(a) + Len(b) + Len(<<>>))
  BY <1>0, <1>2, Regroup2
<1>5. format \in Seq(Int)
  <2>2. a \o b \in Seq(Int)
    BY <1>2, Concat
  <2> QED  BY <1>3, <2>2
<1>6. format = a \o (b \o <<>>) /\ Len(format) = 12
  <2>1. format \o <<>> = format
    BY <1>5, NoPart
  <2>2. Len(a) + Len(b) + Len(<<>>) = 12
    BY <1>0, <1>2
  <2>3. format \o <<>> = a \o (b \o <<>>) /\ Len(format \o <<>>) = 12
    BY <1>3, <1>4, <2>2 DEF Nested
  <2> QED  BY <2>1, <2>3
<1>7. /\ <<>> \in Seq(Int)
  BY <1>0
<1>8. /\ Top(m, n0, id) \in Seq(Int)
      /\ Written(format, Top(m, n0, id), <<>>, 2, m, config, n0)
  <2> DEFINE r == <<>>
  <2>1. r \in Seq(Int) /\ format = Sub(Bee, Type) \o (Sub(Aitch, id) \o r)
    BY <1>6, <1>7 DEF a, b
  <2> HIDE DEF r
  <2>2. Top(m, n0, id) \in Seq(Int) /\ Written(format, Top(m, n0, id), r, 2, m, config, n0)
    BY <1>5, <2>1, WrittenTop
  <2> QED  BY <2>2 DEF r
<1>9. Len(format) \in Nat /\ 2 \in 0 .. Len(format)
  BY <1>6
<1> DEFINE done == Top(m, n0, id)
<1>10. done \in Seq(Int) /\ Written(format, done, <<>>, 2, m, config, n0)
  BY <1>8
<1> HIDE DEF done
<1>11. EncodeBinary(m, config, n0) = done
  BY <1>3, <1>9, <1>10, WrittenAll DEF format
<1> QED  BY <1>11 DEF done

LEMMA Encoded1 ==
    ASSUME NEW m \in Messages, NEW config \in Configs, NEW n0 \in Int,
           NEW id \in {messageID, rMessageID},
           NEW w1 \in TextWords,
           HasFormat(m.type, ((Sub(Bee, Type) \o Sub(Aitch, id)) \o Sub(Ess, w1)) \o X00)
    PROVE  EncodeBinary(m, config, n0) = Top(m, n0, id) \o Ending(m, config, w1)
<1> DEFINE format == udpMessageFormats[m.type]
           a == Sub(Bee, Type)
           b == Sub(Aitch, id)
           s1 == Sub(Ess, w1)
<1>1. Bee \in Specifiers /\ Aitch \in Specifiers /\ Ess \in Specifiers
      /\ Type \in Words /\ id \in Words /\ w1 \in Words
  BY WordFacts DEF NumberWords
<1>2. /\ a \in Seq(Int) /\ Len(a) = 6
      /\ b \in Seq(Int) /\ Len(b) = 6
      /\ s1 \in Seq(Int) /\ Len(s1) = 6
      /\ X00 \in Seq(Int) /\ Len(X00) = 4
  BY <1>1, SubType, HexType
<1>3. format = ((a \o b) \o s1) \o X00 /\ m.type \in DOMAIN udpMessageFormats
  BY DEF HasFormat
<1>0. <<>> \in Seq(Int) /\ Len(<<>>) = 0
  BY NoPart
<1> HIDE DEF format, a, b, s1
<1>4. Nested((((a \o b) \o s1) \o X00) \o <<>>,
             a \o (b \o (s1 \o (X00 \o <<>>))),
             Len(a) + Len(b) + Len(s1) + Len(X00) + Len(<<>>))
  BY <1>0, <1>2, Regroup4
<1>5. format \in Seq(Int)
  <2>2. a \o b \in Seq(Int)
    BY <1>2, Concat
  <2>3. (a \o b) \o s1 \in Seq(Int)
    BY <1>2, <2>2, Concat
  <2>4. ((a \o b) \o s1) \o X00 \in Seq(Int)
    BY <1>2, <2>3, Concat
  <2> QED  BY <1>3, <2>4
<1>6. format = a \o (b \o (s1 \o (X00 \o <<>>))) /\ Len(format) = 22
  <2>1. format \o <<>> = format
    BY <1>5, NoPart
  <2>2. Len(a) + Len(b) + Len(s1) + Len(X00) + Len(<<>>) = 22
    BY <1>0, <1>2
  <2>3. format \o <<>> = a \o (b \o (s1 \o (X00 \o <<>>))) /\ Len(format \o <<>>) = 22
    BY <1>3, <1>4, <2>2 DEF Nested
  <2> QED  BY <2>1, <2>3
<1>7. /\ s1 \o (X00 \o <<>>) \in Seq(Int)
      /\ <<>> \in Seq(Int)
  <2>1. X00 \o <<>> \in Seq(Int)
    BY <1>2, <1>0, Concat
  <2>2. s1 \o (X00 \o <<>>) \in Seq(Int)
    BY <1>2, <2>1, Concat
  <2> QED  BY <1>0, <2>2
<1>8. /\ Top(m, n0, id) \in Seq(Int)
      /\ Written(format, Top(m, n0, id), s1 \o (X00 \o <<>>), 2, m, config, n0)
  <2> DEFINE r == s1 \o (X00 \o <<>>)
  <2>1. r \in Seq(Int) /\ format = Sub(Bee, Type) \o (Sub(Aitch, id) \o r)
    BY <1>6, <1>7 DEF a, b
  <2> HIDE DEF r
  <2>2. Top(m, n0, id) \in Seq(Int) /\ Written(format, Top(m, n0, id), r, 2, m, config, n0)
    BY <1>5, <2>1, WrittenTop
  <2> QED  BY <2>2 DEF r
<1>9. /\ Top(m, n0, id) \o Ending(m, config, w1) \in Seq(Int)
      /\ Written(format, Top(m, n0, id) \o Ending(m, config, w1), <<>>, 4, m, config, n0)
  <2> DEFINE done == Top(m, n0, id)
             r == <<>>
  <2>1. done \in Seq(Int) /\ r \in Seq(Int)
    BY <1>7, <1>8
  <2>2. Written(format, done, Sub(Ess, w1) \o (X00 \o r), 2, m, config, n0)
    BY <1>8 DEF s1
  <2> HIDE DEF done, r
  <2>3. 2 \in Nat /\ 2 + 2 = 4
    OBVIOUS
  <2>4. Texts(m, config)[w1] \in Seq(Int)
    BY TextsType
  <2>5. /\ done \o Ending(m, config, w1) \in Seq(Int)
        /\ Written(format, done \o Ending(m, config, w1), r, 2 + 2, m, config, n0)
    BY <2>1, <2>2, <2>3, <2>4, WrittenText DEF Ending
  <2> QED  BY <2>3, <2>5 DEF done, r
<1>10. Len(format) \in Nat /\ 4 \in 0 .. Len(format)
  BY <1>6
<1> DEFINE done == Top(m, n0, id) \o Ending(m, config, w1)
<1>11. done \in Seq(Int) /\ Written(format, done, <<>>, 4, m, config, n0)
  BY <1>9
<1> HIDE DEF done
<1>12. EncodeBinary(m, config, n0) = done
  BY <1>3, <1>10, <1>11, WrittenAll DEF format
<1> QED  BY <1>12 DEF done

LEMMA Encoded2 ==
    ASSUME NEW m \in Messages, NEW config \in Configs, NEW n0 \in Int,
           NEW id \in {messageID, rMessageID},
           NEW w1 \in TextWords, NEW w2 \in TextWords,
           HasFormat(m.type, ((((Sub(Bee, Type) \o Sub(Aitch, id)) \o Sub(Ess, w1)) \o X00)
               \o Sub(Ess, w2)) \o X00)
    PROVE  EncodeBinary(m, config, n0) = (Top(m, n0, id) \o Ending(m, config, w1))
               \o Ending(m, config, w2)
<1> DEFINE format == udpMessageFormats[m.type]
           a == Sub(Bee, Type)
           b == Sub(Aitch, id)
           s1 == Sub(Ess, w1)
           s2 == Sub(Ess, w2)
<1>1. Bee \in Specifiers /\ Aitch \in Specifiers /\ Ess \in Specifiers
      /\ Type \in Words /\ id \in Words /\ w1 \in Words /\ w2 \in Words
  BY WordFacts DEF NumberWords
<1>2. /\ a \in Seq(Int) /\ Len(a) = 6
      /\ b \in Seq(Int) /\ Len(b) = 6
      /\ s1 \in Seq(Int) /\ Len(s1) = 6
      /\ s2 \in Seq(Int) /\ Len(s2) = 6
      /\ X00 \in Seq(Int) /\ Len(X00) = 4
  BY <1>1, SubType, HexType
<1>3. format = ((((a \o b) \o s1) \o X00) \o s2) \o X00 /\ m.type \in DOMAIN udpMessageFormats
  BY DEF HasFormat
<1>0. <<>> \in Seq(Int) /\ Len(<<>>) = 0
  BY NoPart
<1> HIDE DEF format, a, b, s1, s2
<1>4. Nested((((((a \o b) \o s1) \o X00) \o s2) \o X00) \o <<>>,
             a \o (b \o (s1 \o (X00 \o (s2 \o (X00 \o <<>>))))),
             Len(a) + Len(b) + Len(s1) + Len(X00) + Len(s2) + Len(X00) + Len(<<>>))
  <2> DEFINE x == X00
             t == <<>>
  <2>1. /\ a \in Seq(Int) /\ b \in Seq(Int) /\ s1 \in Seq(Int) /\ x \in Seq(Int)
        /\ s2 \in Seq(Int) /\ t \in Seq(Int)
    BY <1>0, <1>2
  <2> HIDE DEF x, t
  <2>2. Nested((((((a \o b) \o s1) \o x) \o s2) \o x) \o t,
               a \o (b \o (s1 \o (x \o (s2 \o (x \o t))))),
               Len(a) + Len(b) + Len(s1) + Len(x) + Len(s2) + Len(x) + Len(t))
    BY <2>1, Regroup6
  <2> QED  BY <2>2 DEF x, t
<1>5. format \in Seq(Int)
  <2>2. a \o b \in Seq(Int)
    BY <1>2, Concat
  <2>3. (a \o b) \o s1 \in Seq(Int)
    BY <1>2, <2>2, Concat
  <2>4. ((a \o b) \o s1) \o X00 \in Seq(Int)
    BY <1>2, <2>3, Concat
  <2>5. (((a \o b) \o s1) \o X00) \o s2 \in Seq(Int)
    BY <1>2, <2>4, Concat
  <2>6. ((((a \o b) \o s1) \o X00) \o s2) \o X00 \in Seq(Int)
    BY <1>2, <2>5, Concat
  <2> QED  BY <1>3, <2>6
<1>6. format = a \o (b \o (s1 \o (X00 \o (s2 \o (X00 \o <<>>))))) /\ Len(format) = 32
  <2>1. format \o <<>> = format
    BY <1>5, NoPart
  <2>2. Len(a) + Len(b) + Len(s1) + Len(X00) + Len(s2) + Len(X00) + Len(<<>>) = 32
    BY <1>0, <1>2
  <2>3. format \o <<>> = a \o (b \o (s1 \o (X00 \o (s2 \o (X00 \o <<>>)))))
            /\ Len(format \o <<>>) = 32
    BY <1>3, <1>4, <2>2 DEF Nested
  <2> QED  BY <2>1, <2>3
<1>7. /\ s1 \o (X00 \o (s2 \o (X00 \o <<>>))) \in Seq(Int)
      /\ s2 \o (X00 \o <<>>) \in Seq(Int)
      /\ <<>> \in Seq(Int)
  <2>1. X00 \o <<>> \in Seq(Int)
    BY <1>2, <1>0, Concat
  <2>2. s2 \o (X00 \o <<>>) \in Seq(Int)
    BY <1>2, <2>1, Concat
  <2>3. X00 \o (s2 \o (X00 \o <<>>)) \in Seq(Int)
    BY <1>2, <2>2, Concat
  <2>4. s1 \o (X00 \o (s2 \o (X00 \o <<>>))) \in Seq(Int)
    BY <1>2, <2>3, Concat
  <2> QED  BY <1>0, <2>2, <2>4
<1>8. /\ Top(m, n0, id) \in Seq(Int)
      /\ Written(format, Top(m, n0, id), s1 \o (X00 \o (s2 \o (X00 \o <<>>))), 2, m, config, n0)
  <2> DEFINE r == s1 \o (X00 \o (s2 \o (X00 \o <<>>)))
  <2>1. r \in Seq(Int) /\ format = Sub(Bee, Type) \o (Sub(Aitch, id) \o r)
    BY <1>6, <1>7 DEF a, b
  <2> HIDE DEF r
  <2>2. Top(m, n0, id) \in Seq(Int) /\ Written(format, Top(m, n0, id), r, 2, m, config, n0)
    BY <1>5, <2>1, WrittenTop
  <2> QED  BY <2>2 DEF r
<1>9. /\ Top(m, n0, id) \o Ending(m, config, w1) \in Seq(Int)
      /\ Written(format, Top(m, n0, id) \o Ending(m, config, w1), s2 \o (X00 \o <<>>), 4, m,
             config, n0)
  <2> DEFINE done == Top(m, n0, id)
             r == s2 \o (X00 \o <<>>)
  <2>1. done \in Seq(Int) /\ r \in Seq(Int)
    BY <1>7, <1>8
  <2>2. Written(format, done, Sub(Ess, w1) \o (X00 \o r), 2, m, config, n0)
    BY <1>8 DEF s1
  <2> HIDE DEF done, r
  <2>3. 2 \in Nat /\ 2 + 2 = 4
    OBVIOUS
  <2>4. Texts(m, config)[w1] \in Seq(Int)
    BY TextsType
  <2>5. /\ done \o Ending(m, config, w1) \in Seq(Int)
        /\ Written(format, done \o Ending(m, config, w1), r, 2 + 2, m, config, n0)
    BY <2>1, <2>2, <2>3, <2>4, WrittenText DEF Ending
  <2> QED  BY <2>3, <2>5 DEF done, r
<1>10. /\ (Top(m, n0, id) \o Ending(m, config, w1)) \o Ending(m, config, w2) \in Seq(Int)
      /\ Written(format, (Top(m, n0, id) \o Ending(m, config, w1)) \o Ending(m, config, w2),
             <<>>, 6, m, config, n0)
  <2> DEFINE done == Top(m, n0, id) \o Ending(m, config, w1)
             r == <<>>
  <2>1. done \in Seq(Int) /\ r \in Seq(Int)
    BY <1>7, <1>9
  <2>2. Written(format, done, Sub(Ess, w2) \o (X00 \o r), 4, m, config, n0)
    BY <1>9 DEF s2
  <2> HIDE DEF done, r
  <2>3. 4 \in Nat /\ 4 + 2 = 6
    OBVIOUS
  <2>4. Texts(m, config)[w2] \in Seq(Int)
    BY TextsType
  <2>5. /\ done \o Ending(m, config, w2) \in Seq(Int)
        /\ Written(format, done \o Ending(m, config, w2), r, 4 + 2, m, config, n0)
    BY <2>1, <2>2, <2>3, <2>4, WrittenText DEF Ending
  <2> QED  BY <2>3, <2>5 DEF done, r
<1>11. Len(format) \in Nat /\ 6 \in 0 .. Len(format)
  BY <1>6
<1> DEFINE done == (Top(m, n0, id) \o Ending(m, config, w1)) \o Ending(m, config, w2)
<1>12. done \in Seq(Int) /\ Written(format, done, <<>>, 6, m, config, n0)
  BY <1>10
<1> HIDE DEF done
<1>13. EncodeBinary(m, config, n0) = done
  BY <1>3, <1>11, <1>12, WrittenAll DEF format
<1> QED  BY <1>13 DEF done

LEMMA Encoded3 ==
    ASSUME NEW m \in Messages, NEW config \in Configs, NEW n0 \in Int,
           NEW id \in {messageID, rMessageID},
           NEW w1 \in TextWords, NEW w2 \in TextWords, NEW w3 \in TextWords,
           HasFormat(m.type, ((((((Sub(Bee, Type) \o Sub(Aitch, id)) \o Sub(Ess, w1))
               \o X00) \o Sub(Ess, w2)) \o X00) \o Sub(Ess, w3)) \o X00)
    PROVE  EncodeBinary(m, config, n0) = ((Top(m, n0, id) \o Ending(m, config, w1))
               \o Ending(m, config, w2)) \o Ending(m, config, w3)
<1> DEFINE format == udpMessageFormats[m.type]
           a == Sub(Bee, Type)
           b == Sub(Aitch, id)
           s1 == Sub(Ess, w1)
           s2 == Sub(Ess, w2)
           s3 == Sub(Ess, w3)
<1>1. Bee \in Specifiers /\ Aitch \in Specifiers /\ Ess \in Specifiers
      /\ Type \in Words /\ id \in Words /\ w1 \in Words /\ w2 \in Words /\ w3 \in Words
  BY WordFacts DEF NumberWords
<1>2. /\ a \in Seq(Int) /\ Len(a) = 6
      /\ b \in Seq(Int) /\ Len(b) = 6
      /\ s1 \in Seq(Int) /\ Len(s1) = 6
      /\ s2 \in Seq(Int) /\ Len(s2) = 6
      /\ s3 \in Seq(Int) /\ Len(s3) = 6
      /\ X00 \in Seq(Int) /\ Len(X00) = 4
  BY <1>1, SubType, HexType
<1>3. format = ((((((a \o b) \o s1) \o X00) \o s2) \o X00) \o s3) \o X00
          /\ m.type \in DOMAIN udpMessageFormats
  BY DEF HasFormat
<1>0. <<>> \in Seq(Int) /\ Len(<<>>) = 0
  BY NoPart
<1> HIDE DEF format, a, b, s1, s2, s3
<1>4. Nested((((((((a \o b) \o s1) \o X00) \o s2) \o X00) \o s3) \o X00) \o <<>>,
             a \o (b \o (s1 \o (X00 \o (s2 \o (X00 \o (s3 \o (X00 \o <<>>))))))),
             Len(a) + Len(b) + Len(s1) + Len(X00) + Len(s2) + Len(X00) + Len(s3) + Len(X00)
                 + Len(<<>>))
  <2> DEFINE x == ((((a \o b) \o s1) \o X00) \o s2) \o X00
             r == s3 \o (X00 \o <<>>)
  <2>2. a \o b \in Seq(Int)
    BY <1>2, Concat
  <2>3. (a \o b) \o s1 \in Seq(Int)
    BY <1>2, <2>2, Concat
  <2>4. ((a \o b) \o s1) \o X00 \in Seq(Int)
    BY <1>2, <2>3, Concat
  <2>5. (((a \o b) \o s1) \o X00) \o s2 \in Seq(Int)
    BY <1>2, <2>4, Concat
  <2>6. ((((a \o b) \o s1) \o X00) \o s2) \o X00 \in Seq(Int)
    BY <1>2, <2>5, Concat
  <2>7. x \in Seq(Int)
    BY <2>6
  <2>8. X00 \o <<>> \in Seq(Int)
    BY <1>0, <1>2, Concat
  <2>9. r \in Seq(Int) /\ Len(r) = Len(s3) + Len(X00) + Len(<<>>)
    <3> DEFINE y == X00 \o <<>>
    <3>1. y \in Seq(Int) /\ Len(y) = Len(X00) + Len(<<>>)
      BY <1>0, <1>2, Concat
    <3> HIDE DEF y
    <3>2. s3 \o y \in Seq(Int) /\ Len(s3 \o y) = Len(s3) + Len(y)
      <4>1. s3 \in Seq(Int) /\ y \in Seq(Int)
        BY <1>2, <3>1
      <4> QED  BY <4>1, Concat
    <3>3. Len(s3) + Len(y) = Len(s3) + Len(X00) + Len(<<>>)
      BY <1>0, <1>2, <3>1
    <3> QED  BY <3>2, <3>3 DEF y
  <2> HIDE DEF r
  <2>10. Nested(x \o r,
               a \o (b \o (s1 \o (X00 \o (s2 \o (X00 \o r))))),
               Len(a) + Len(b) + Len(s1) + Len(X00) + Len(s2) + Len(X00) + Len(r))
    <3>1. a \in Seq(Int) /\ b \in Seq(Int) /\ s1 \in Seq(Int) /\ s2 \in Seq(Int) /\ r \in Seq(Int)
      BY <1>2, <2>9
    <3>2. X00 \in Seq(Int)
      BY <1>2
    <3> QED  BY <3>1, <3>2, Regroup6 DEF x
  <2> HIDE DEF x
  <2>11. Nested(((x \o s3) \o X00) \o <<>>, x \o (s3 \o (X00 \o <<>>)),
               Len(x) + Len(s3) + Len(X00) + Len(<<>>))
    BY <1>0, <1>2, <2>7, Regroup3
  <2>12. Len(a) + Len(b) + Len(s1) + Len(X00) + Len(s2) + Len(X00) + Len(r)
             = Len(a) + Len(b) + Len(s1) + Len(X00) + Len(s2) + Len(X00) + Len(s3)
                 + Len(X00) + Len(<<>>)
    BY <1>0, <1>2, <2>9
  <2> QED  BY <2>10, <2>11, <2>12 DEF Nested, x, r
<1>5. format \in Seq(Int)
  <2>2. a \o b \in Seq(Int)
    BY <1>2, Concat
  <2>3. (a \o b) \o s1 \in Seq(Int)
    BY <1>2, <2>2, Concat
  <2>4. ((a \o b) \o s1) \o X00 \in Seq(Int)
    BY <1>2, <2>3, Concat
  <2>5. (((a \o b) \o s1) \o X00) \o s2 \in Seq(Int)
    BY <1>2, <2>4, Concat
  <2>6. ((((a \o b) \o s1) \o X00) \o s2) \o X00 \in Seq(Int)
    BY <1>2, <2>5, Concat
  <2>7. (((((a \o b) \o s1) \o X00) \o s2) \o X00) \o s3 \in Seq(Int)
    BY <1>2, <2>6, Concat
  <2>8. ((((((a \o b) \o s1) \o X00) \o s2) \o X00) \o s3) \o X00 \in Seq(Int)
    BY <1>2, <2>7, Concat
  <2> QED  BY <1>3, <2>8
<1>6. format = a \o (b \o (s1 \o (X00 \o (s2 \o (X00 \o (s3 \o (X00 \o <<>>)))))))
          /\ Len(format) = 42
  <2>1. format \o <<>> = format
    BY <1>5, NoPart
  <2>2. Len(a) + Len(b) + Len(s1) + Len(X00) + Len(s2) + Len(X00) + Len(s3) + Len(X00)
            + Len(<<>>) = 42
    BY <1>0, <1>2
  <2>3. format \o <<>> = a \o (b \o (s1 \o (X00 \o (s2 \o (X00 \o (s3 \o (X00
            \o <<>>))))))) /\ Len(format \o <<>>) = 42
    BY <1>3, <1>4, <2>2 DEF Nested
  <2> QED  BY <2>1, <2>3
<1>7. /\ s1 \o (X00 \o (s2 \o (X00 \o (s3 \o (X00 \o <<>>))))) \in Seq(Int)
      /\ s2 \o (X00 \o (s3 \o (X00 \o <<>>))) \in Seq(Int)
      /\ s3 \o (X00 \o <<>>) \in Seq(Int)
      /\ <<>> \in Seq(Int)
  <2>1. X00 \o <<>> \in Seq(Int)
    BY <1>2, <1>0, Concat
  <2>2. s3 \o (X00 \o <<>>) \in Seq(Int)
    BY <1>2, <2>1, Concat
  <2>3. X00 \o (s3 \o (X00 \o <<>>)) \in Seq(Int)
    BY <1>2, <2>2, Concat
  <2>4. s2 \o (X00 \o (s3 \o (X00 \o <<>>))) \in Seq(Int)
    BY <1>2, <2>3, Concat
  <2>5. X00 \o (s2 \o (X00 \o (s3 \o (X00 \o <<>>)))) \in Seq(Int)
    BY <1>2, <2>4, Concat
  <2>6. s1 \o (X00 \o (s2 \o (X00 \o (s3 \o (X00 \o <<>>))))) \in Seq(Int)
    BY <1>2, <2>5, Concat
  <2> QED  BY <1>0, <2>2, <2>4, <2>6
<1>8. /\ Top(m, n0, id) \in Seq(Int)
      /\ Written(format, Top(m, n0, id), s1 \o (X00 \o (s2 \o (X00 \o (s3 \o (X00
             \o <<>>))))), 2, m, config, n0)
  <2> DEFINE r == s1 \o (X00 \o (s2 \o (X00 \o (s3 \o (X00 \o <<>>)))))
  <2>1. r \in Seq(Int) /\ format = Sub(Bee, Type) \o (Sub(Aitch, id) \o r)
    BY <1>6, <1>7 DEF a, b
  <2> HIDE DEF r
  <2>2. Top(m, n0, id) \in Seq(Int) /\ Written(format, Top(m, n0, id), r, 2, m, config, n0)
    BY <1>5, <2>1, WrittenTop
  <2> QED  BY <2>2 DEF r
<1>9. /\ Top(m, n0, id) \o Ending(m, config, w1) \in Seq(Int)
      /\ Written(format, Top(m, n0, id) \o Ending(m, config, w1), s2 \o (X00 \o (s3 \o (X00
             \o <<>>))), 4, m, config, n0)
  <2> DEFINE done == Top(m, n0, id)
             r == s2 \o (X00 \o (s3 \o (X00 \o <<>>)))
  <2>1. done \in Seq(Int) /\ r \in Seq(Int)
    BY <1>7, <1>8
  <2>2. Written(format, done, Sub(Ess, w1) \o (X00 \o r), 2, m, config, n0)
    BY <1>8 DEF s1
  <2> HIDE DEF done, r
  <2>3. 2 \in Nat /\ 2 + 2 = 4
    OBVIOUS
  <2>4. Texts(m, config)[w1] \in Seq(Int)
    BY TextsType
  <2>5. /\ done \o Ending(m, config, w1) \in Seq(Int)
        /\ Written(format, done \o Ending(m, config, w1), r, 2 + 2, m, config, n0)
    BY <2>1, <2>2, <2>3, <2>4, WrittenText DEF Ending
  <2> QED  BY <2>3, <2>5 DEF done, r
<1>10. /\ (Top(m, n0, id) \o Ending(m, config, w1)) \o Ending(m, config, w2) \in Seq(Int)
      /\ Written(format, (Top(m, n0, id) \o Ending(m, config, w1)) \o Ending(m, config, w2),
             s3 \o (X00 \o <<>>), 6, m, config, n0)
  <2> DEFINE done == Top(m, n0, id) \o Ending(m, config, w1)
             r == s3 \o (X00 \o <<>>)
  <2>1. done \in Seq(Int) /\ r \in Seq(Int)
    BY <1>7, <1>9
  <2>2. Written(format, done, Sub(Ess, w2) \o (X00 \o r), 4, m, config, n0)
    BY <1>9 DEF s2
  <2> HIDE DEF done, r
  <2>3. 4 \in Nat /\ 4 + 2 = 6
    OBVIOUS
  <2>4. Texts(m, config)[w2] \in Seq(Int)
    BY TextsType
  <2>5. /\ done \o Ending(m, config, w2) \in Seq(Int)
        /\ Written(format, done \o Ending(m, config, w2), r, 4 + 2, m, config, n0)
    BY <2>1, <2>2, <2>3, <2>4, WrittenText DEF Ending
  <2> QED  BY <2>3, <2>5 DEF done, r
<1>11. /\ ((Top(m, n0, id) \o Ending(m, config, w1)) \o Ending(m, config, w2))
           \o Ending(m, config, w3) \in Seq(Int)
      /\ Written(format, ((Top(m, n0, id) \o Ending(m, config, w1)) \o Ending(m, config,
             w2)) \o Ending(m, config, w3), <<>>, 8, m, config, n0)
  <2> DEFINE done == (Top(m, n0, id) \o Ending(m, config, w1)) \o Ending(m, config, w2)
             r == <<>>
  <2>1. done \in Seq(Int) /\ r \in Seq(Int)
    BY <1>7, <1>10
  <2>2. Written(format, done, Sub(Ess, w3) \o (X00 \o r), 6, m, config, n0)
    BY <1>10 DEF s3
  <2> HIDE DEF done, r
  <2>3. 6 \in Nat /\ 6 + 2 = 8
    OBVIOUS
  <2>4. Texts(m, config)[w3] \in Seq(Int)
    BY TextsType
  <2>5. /\ done \o Ending(m, config, w3) \in Seq(Int)
        /\ Written(format, done \o Ending(m, config, w3), r, 6 + 2, m, config, n0)
    BY <2>1, <2>2, <2>3, <2>4, WrittenText DEF Ending
  <2> QED  BY <2>3, <2>5 DEF done, r
<1>12. Len(format) \in Nat /\ 8 \in 0 .. Len(format)
  BY <1>6
<1> DEFINE done == ((Top(m, n0, id) \o Ending(m, config, w1)) \o Ending(m, config, w2))
               \o Ending(m, config, w3)
<1>13. done \in Seq(Int) /\ Written(format, done, <<>>, 8, m, config, n0)
  BY <1>11
<1> HIDE DEF done
<1>14. EncodeBinary(m, config, n0) = done
  BY <1>3, <1>12, <1>13, WrittenAll DEF format
<1> QED  BY <1>14 DEF done

-----------------------------------------------------------------------------
(* The layouts *)

LEMMA Strings1 ==
    ASSUME NEW x
    PROVE  Strings(<<x>>) = Append(x, NUL) \o (<<>> \o <<>>)
<1>1. Ended(<<x>>, 1) = Append(x, NUL) /\ Ended(<<x>>, 2) = <<>> /\ Ended(<<x>>, 3) = <<>>
  BY DEF Ended
<1> QED  BY <1>1 DEF Strings

LEMMA Strings2 ==
    ASSUME NEW x, NEW y
    PROVE  Strings(<<x, y>>) = Append(x, NUL) \o (Append(y, NUL) \o <<>>)
<1>1. /\ Ended(<<x, y>>, 1) = Append(x, NUL) /\ Ended(<<x, y>>, 2) = Append(y, NUL)
      /\ Ended(<<x, y>>, 3) = <<>>
  BY DEF Ended
<1> QED  BY <1>1 DEF Strings

LEMMA Strings3 ==
    ASSUME NEW x, NEW y, NEW z
    PROVE  Strings(<<x, y, z>>) = Append(x, NUL) \o (Append(y, NUL) \o Append(z, NUL))
<1>1. /\ Ended(<<x, y, z>>, 1) = Append(x, NUL) /\ Ended(<<x, y, z>>, 2) = Append(y, NUL)
      /\ Ended(<<x, y, z>>, 3) = Append(z, NUL)
  BY DEF Ended
<1> QED  BY <1>1 DEF Strings

LEMMA TextsAre ==
    ASSUME NEW m, NEW config
    PROVE  /\ Texts(m, config)[DisplayName] = m.author
           /\ Texts(m, config)[MessageContent] = m.text
           /\ Texts(m, config)[Username] = config.username
           /\ Texts(m, config)[Secret] = config.secret
           /\ Texts(m, config)[ChannelID] = config.channel
BY DEF Texts, DisplayName, MessageContent, Username, Secret, ChannelID

LEMMA EndingsAre ==
    ASSUME NEW m, NEW config
    PROVE  /\ Ending(m, config, DisplayName) = Append(m.author, NUL)
           /\ Ending(m, config, MessageContent) = Append(m.text, NUL)
           /\ Ending(m, config, Username) = Append(config.username, NUL)
           /\ Ending(m, config, Secret) = Append(config.secret, NUL)
           /\ Ending(m, config, ChannelID) = Append(config.channel, NUL)
BY TextsAre DEF Ending

LEMMA Formats ==
    /\ HasFormat("CONFIRM", Sub(Bee, Type) \o Sub(Aitch, rMessageID))
    /\ HasFormat("PING", Sub(Bee, Type) \o Sub(Aitch, messageID))
    /\ HasFormat("BYE",
         ((Sub(Bee, Type) \o Sub(Aitch, messageID)) \o Sub(Ess, DisplayName)) \o X00)
    /\ HasFormat("JOIN",
         ((((Sub(Bee, Type) \o Sub(Aitch, messageID)) \o Sub(Ess, ChannelID)) \o X00)
            \o Sub(Ess, DisplayName)) \o X00)
    /\ \A t \in {"MSG", "ERR"} : HasFormat(t,
         ((((Sub(Bee, Type) \o Sub(Aitch, messageID)) \o Sub(Ess, DisplayName)) \o X00)
            \o Sub(Ess, MessageContent)) \o X00)
    /\ HasFormat("AUTH",
         ((((((Sub(Bee, Type) \o Sub(Aitch, messageID)) \o Sub(Ess, Username)) \o X00)
            \o Sub(Ess, DisplayName)) \o X00) \o Sub(Ess, Secret)) \o X00)
    /\ HasFormat("REPLY",
         ((((Sub(Bee, Type) \o Sub(Aitch, messageID)) \o Sub(Bee, Result))
            \o Sub(Aitch, rMessageID)) \o Sub(Ess, MessageContent)) \o X00)
    /\ "NONE" \notin DOMAIN udpMessageFormats
<1>1. HasFormat("CONFIRM", Sub(Bee, Type) \o Sub(Aitch, rMessageID))
  BY DEF udpMessageFormats, Numbered, HasFormat
<1>2. HasFormat("PING", Sub(Bee, Type) \o Sub(Aitch, messageID))
  BY DEF udpMessageFormats, Numbered, HasFormat
<1>3. HasFormat("BYE",
       ((Sub(Bee, Type) \o Sub(Aitch, messageID)) \o Sub(Ess, DisplayName)) \o X00)
  BY DEF udpMessageFormats, Numbered, HasFormat
<1>4. HasFormat("JOIN",
       ((((Sub(Bee, Type) \o Sub(Aitch, messageID)) \o Sub(Ess, ChannelID)) \o X00)
          \o Sub(Ess, DisplayName)) \o X00)
  BY DEF udpMessageFormats, Numbered, HasFormat
<1>5. \A t \in {"MSG", "ERR"} : HasFormat(t,
       ((((Sub(Bee, Type) \o Sub(Aitch, messageID)) \o Sub(Ess, DisplayName)) \o X00)
          \o Sub(Ess, MessageContent)) \o X00)
  <2>1. HasFormat("MSG",
         ((((Sub(Bee, Type) \o Sub(Aitch, messageID)) \o Sub(Ess, DisplayName)) \o X00)
            \o Sub(Ess, MessageContent)) \o X00)
    BY DEF udpMessageFormats, Numbered, HasFormat
  <2>2. HasFormat("ERR",
         ((((Sub(Bee, Type) \o Sub(Aitch, messageID)) \o Sub(Ess, DisplayName)) \o X00)
            \o Sub(Ess, MessageContent)) \o X00)
    BY DEF udpMessageFormats, Numbered, HasFormat
  <2> QED  BY <2>1, <2>2
<1>6. HasFormat("AUTH",
       ((((((Sub(Bee, Type) \o Sub(Aitch, messageID)) \o Sub(Ess, Username)) \o X00)
          \o Sub(Ess, DisplayName)) \o X00) \o Sub(Ess, Secret)) \o X00)
  <2>1. "AUTH" \in DOMAIN udpMessageFormats
    BY DEF udpMessageFormats
  <2>2. udpMessageFormats.AUTH = Numbered \o Sub(Ess, Username) \o X00
                                   \o Sub(Ess, DisplayName) \o X00 \o Sub(Ess, Secret) \o X00
    BY DEF udpMessageFormats
  <2> QED  BY <2>1, <2>2 DEF Numbered, HasFormat
<1>7. HasFormat("REPLY",
       ((((Sub(Bee, Type) \o Sub(Aitch, messageID)) \o Sub(Bee, Result))
          \o Sub(Aitch, rMessageID)) \o Sub(Ess, MessageContent)) \o X00)
  BY DEF udpMessageFormats, Numbered, HasFormat
<1>8. "NONE" \notin DOMAIN udpMessageFormats
  BY DEF udpMessageFormats, Numbered, HasFormat
<1> QED  BY <1>1, <1>2, <1>3, <1>4, <1>5, <1>6, <1>7, <1>8

LEMMA Parts0 ==
    ASSUME NEW a \in Seq(Int)
    PROVE  a \o (<<>> \o (<<>> \o <<>>)) = a
BY NoPart

LEMMA Parts1 ==
    ASSUME NEW a \in Seq(Int), NEW b \in Seq(Int)
    PROVE  a \o (b \o (<<>> \o <<>>)) = a \o b
BY NoPart

LEMMA Parts2 ==
    ASSUME NEW a \in Seq(Int), NEW b \in Seq(Int), NEW c \in Seq(Int)
    PROVE  a \o (b \o (c \o <<>>)) = (a \o b) \o c
<1>1. c \o <<>> = c
  BY NoPart
<1>2. (a \o b) \o c = a \o (b \o c)
  BY Assoc
<1> QED  BY <1>1, <1>2

LEMMA TopType ==
    ASSUME NEW m \in Messages, NEW n0 \in Int, NEW id \in {messageID, rMessageID}
    PROVE  Top(m, n0, id) \in Seq(Int)
<1>1. Numbers(m, n0)[id] \in Int /\ Codes[m.type] \in Int
  BY NumbersType
<1>2. /\ <<Codes[m.type]>> \in Seq(Int) /\ Word(Numbers(m, n0)[id]) \in Seq(Int)
  BY <1>1 DEF Word
<1> QED  BY <1>2, Concat DEF Top

LEMMA TopIs ==
    ASSUME NEW m \in Messages, NEW n0 \in Int, NEW config
    PROVE  /\ m.type = "CONFIRM" =>
                Layout(m, config, n0) = Top(m, n0, rMessageID) \o Strings(Fields(m, config))
           /\ m.type # "CONFIRM" =>
                Layout(m, config, n0) = Top(m, n0, messageID) \o Strings(Fields(m, config))
BY NumbersType DEF Layout, Top, OnWire

LEMMA Encoded ==
    ASSUME NEW m \in Messages, NEW config \in Configs, NEW n0 \in Int
    PROVE  EncodeBinary(m, config, n0) = IF m.type \in {"REPLY", "NONE"} THEN <<>>
                                         ELSE Layout(m, config, n0)
<1> DEFINE e(w) == Append(Texts(m, config)[w], NUL)
           f == Fields(m, config)
<1>0. m.type \in {"CONFIRM", "REPLY", "AUTH", "JOIN", "MSG", "NONE", "PING", "ERR", "BYE"}
  <2>1. m.type \in DOMAIN Codes
    BY DEF Messages
  <2>2. DOMAIN Codes = {"CONFIRM", "REPLY", "AUTH", "JOIN", "MSG", "NONE", "PING", "ERR", "BYE"}
    BY DEF Codes
  <2> QED  BY <2>1, <2>2
<1>1. /\ messageID \in {messageID, rMessageID} /\ rMessageID \in {messageID, rMessageID}
      /\ DisplayName \in TextWords /\ MessageContent \in TextWords /\ Username \in TextWords
      /\ Secret \in TextWords /\ ChannelID \in TextWords
  BY DEF TextWords
<1>2. Top(m, n0, messageID) \in Seq(Int) /\ Top(m, n0, rMessageID) \in Seq(Int)
  BY <1>1, TopType
<1>3. \A w \in TextWords : Ending(m, config, w) \in Seq(Int)
  BY TextsType
<1>4. CASE m.type = "CONFIRM"
  <2>1. EncodeBinary(m, config, n0) = Top(m, n0, rMessageID)
    BY <1>1, <1>4, Formats, Encoded0
  <2>2. Strings(f) = <<>> \o (<<>> \o <<>>)
    BY <1>4 DEF Fields, Strings, Ended
  <2>3. Layout(m, config, n0) = Top(m, n0, rMessageID) \o (<<>> \o (<<>> \o <<>>))
    BY <1>4, <2>2, TopIs
  <2> QED  BY <1>2, <1>4, <2>1, <2>3, Parts0
<1>5. CASE m.type = "PING"
  <2>1. EncodeBinary(m, config, n0) = Top(m, n0, messageID)
    BY <1>1, <1>5, Formats, Encoded0
  <2>2. Strings(f) = <<>> \o (<<>> \o <<>>)
    BY <1>5 DEF Fields, Strings, Ended
  <2>3. Layout(m, config, n0) = Top(m, n0, messageID) \o (<<>> \o (<<>> \o <<>>))
    BY <1>5, <2>2, TopIs
  <2> QED  BY <1>2, <1>5, <2>1, <2>3, Parts0
<1>6. CASE m.type = "BYE"
  <2>1. EncodeBinary(m, config, n0) = Top(m, n0, messageID) \o Ending(m, config, DisplayName)
    BY <1>1, <1>6, Formats, Encoded1
  <2>2. f = <<m.author>>
    BY <1>6 DEF Fields
  <2>3. Strings(f) = Ending(m, config, DisplayName) \o (<<>> \o <<>>)
    BY <2>2, Strings1, EndingsAre
  <2>4. Layout(m, config, n0) = Top(m, n0, messageID) \o Strings(f)
    BY <1>6, TopIs
  <2> DEFINE a == Top(m, n0, messageID)
             b == Ending(m, config, DisplayName)
  <2>5. a \in Seq(Int) /\ b \in Seq(Int)
    BY <1>1, <1>2, <1>3
  <2>6. EncodeBinary(m, config, n0) = a \o b /\ Layout(m, config, n0) = a \o (b \o (<<>> \o <<>>))
    BY <2>1, <2>3, <2>4
  <2> HIDE DEF a, b
  <2>7. a \o (b \o (<<>> \o <<>>)) = a \o b
    BY <2>5, Parts1
  <2> QED  BY <1>6, <2>6, <2>7
<1>7. CASE m.type = "JOIN"
  <2>1. EncodeBinary(m, config, n0) =
          (Top(m, n0, messageID) \o Ending(m, config, ChannelID))
              \o Ending(m, config, DisplayName)
    BY <1>1, <1>7, Formats, Encoded2
  <2>2. f = <<config.channel, m.author>>
    BY <1>7 DEF Fields
  <2>3. Strings(f) = Ending(m, config, ChannelID) \o (Ending(m, config, DisplayName) \o <<>>)
    <3>1. Strings(f) = Append(config.channel, NUL) \o (Append(m.author, NUL) \o <<>>)
      BY <2>2, Strings2
    <3> QED  BY <3>1, EndingsAre
  <2>4. Layout(m, config, n0) = Top(m, n0, messageID) \o Strings(f)
    BY <1>7, TopIs
  <2> DEFINE a == Top(m, n0, messageID)
             b == Ending(m, config, ChannelID)
             c == Ending(m, config, DisplayName)
  <2>5. a \in Seq(Int) /\ b \in Seq(Int) /\ c \in Seq(Int)
    BY <1>1, <1>2, <1>3
  <2>6. EncodeBinary(m, config, n0) = (a \o b) \o c
            /\ Layout(m, config, n0) = a \o (b \o (c \o <<>>))
    BY <2>1, <2>3, <2>4
  <2> HIDE DEF a, b, c
  <2>7. a \o (b \o (c \o <<>>)) = (a \o b) \o c
    BY <2>5, Parts2
  <2> QED  BY <1>7, <2>6, <2>7
<1>8. CASE m.type \in {"MSG", "ERR"}
  <2>1. EncodeBinary(m, config, n0) =
          (Top(m, n0, messageID) \o Ending(m, config, DisplayName))
            \o Ending(m, config, MessageContent)
    BY <1>1, <1>8, Formats, Encoded2
  <2>2. f = <<m.author, m.text>>
    BY <1>8 DEF Fields
  <2>3. Strings(f) = Ending(m, config, DisplayName) \o (Ending(m, config, MessageContent) \o <<>>)
    <3>1. Strings(f) = Append(m.author, NUL) \o (Append(m.text, NUL) \o <<>>)
      BY <2>2, Strings2
    <3> QED  BY <3>1, EndingsAre
  <2>4. Layout(m, config, n0) = Top(m, n0, messageID) \o Strings(f)
    BY <1>8, TopIs
  <2> DEFINE a == Top(m, n0, messageID)
             b == Ending(m, config, DisplayName)
             c == Ending(m, config, MessageContent)
  <2>5. a \in Seq(Int) /\ b \in Seq(Int) /\ c \in Seq(Int)
    BY <1>1, <1>2, <1>3
  <2>6. EncodeBinary(m, config, n0) = (a \o b) \o c
            /\ Layout(m, config, n0) = a \o (b \o (c \o <<>>))
    BY <2>1, <2>3, <2>4
  <2> HIDE DEF a, b, c
  <2>7. a \o (b \o (c \o <<>>)) = (a \o b) \o c
    BY <2>5, Parts2
  <2> QED  BY <1>8, <2>6, <2>7
<1>9. CASE m.type = "AUTH"
  <2>1. EncodeBinary(m, config, n0) =
          ((Top(m, n0, messageID) \o Ending(m, config, Username))
             \o Ending(m, config, DisplayName)) \o Ending(m, config, Secret)
    BY <1>1, <1>9, Formats, Encoded3
  <2>2. f = <<config.username, m.author, config.secret>>
    BY <1>9 DEF Fields
  <2>3. Strings(f) = Ending(m, config, Username)
                       \o (Ending(m, config, DisplayName) \o Ending(m, config, Secret))
    <3>1. Strings(f) = Append(config.username, NUL)
                         \o (Append(m.author, NUL) \o Append(config.secret, NUL))
      BY <2>2, Strings3
    <3> QED  BY <3>1, EndingsAre
  <2>4. Layout(m, config, n0) = Top(m, n0, messageID) \o Strings(f)
    BY <1>9, TopIs
  <2> DEFINE a == Top(m, n0, messageID)
             b == Ending(m, config, Username)
             c == Ending(m, config, DisplayName)
             d == Ending(m, config, Secret)
  <2>5. a \in Seq(Int) /\ b \in Seq(Int) /\ c \in Seq(Int) /\ d \in Seq(Int)
    BY <1>1, <1>2, <1>3
  <2>6. EncodeBinary(m, config, n0) = ((a \o b) \o c) \o d
            /\ Layout(m, config, n0) = a \o (b \o (c \o d))
    BY <2>1, <2>3, <2>4
  <2> HIDE DEF a, b, c, d
  <2>7. a \o (b \o (c \o d)) = ((a \o b) \o c) \o d
    <3>1. Nested(((a \o b) \o c) \o d, a \o (b \o (c \o d)),
                 Len(a) + Len(b) + Len(c) + Len(d))
      BY <2>5, Regroup3
    <3> QED  BY <3>1 DEF Nested
  <2> QED  BY <1>9, <2>6, <2>7
<1>10. CASE m.type = "NONE"
  BY <1>10, Formats DEF EncodeBinary
<1>11. CASE m.type = "REPLY"
  <2> DEFINE format == udpMessageFormats[m.type]
             a == Sub(Bee, Type)
             b == Sub(Aitch, messageID)
             c == Sub(Bee, Result)
             d == Sub(Aitch, rMessageID)
             g == Sub(Ess, MessageContent)
             rest == d \o (g \o (X00 \o <<>>))
  <2>1. /\ Bee \in Specifiers /\ Aitch \in Specifiers /\ Ess \in Specifiers /\ Type \in Words
        /\ messageID \in Words /\ rMessageID \in Words /\ Result \in Words
        /\ MessageContent \in Words /\ Result \notin NumberWords
    BY <1>1, WordFacts DEF NumberWords
  <2>2. /\ a \in Seq(Int) /\ b \in Seq(Int) /\ c \in Seq(Int) /\ d \in Seq(Int)
        /\ g \in Seq(Int) /\ X00 \in Seq(Int) /\ <<>> \in Seq(Int)
    BY <2>1, SubType, HexType, NoPart
  <2>3. Len(a) = 6 /\ Len(b) = 6 /\ Len(c) = 6 /\ Len(d) = 6 /\ Len(g) = 6 /\ Len(X00) = 4
        /\ Len(<<>>) = 0
    BY <2>1, SubType, HexType, NoPart
  <2>4. format = ((((a \o b) \o c) \o d) \o g) \o X00
    BY <1>11, Formats DEF HasFormat
  <2> HIDE DEF a, b, c, d, g, format
  <2>5. format \in Seq(Int)
    <3>1. a \o b \in Seq(Int)
      BY <2>2, Concat
    <3>2. (a \o b) \o c \in Seq(Int)
      BY <2>2, <3>1, Concat
    <3>3. ((a \o b) \o c) \o d \in Seq(Int)
      BY <2>2, <3>2, Concat
    <3>4. (((a \o b) \o c) \o d) \o g \in Seq(Int)
      BY <2>2, <3>3, Concat
    <3>5. ((((a \o b) \o c) \o d) \o g) \o X00 \in Seq(Int)
      BY <2>2, <3>4, Concat
    <3> QED  BY <2>4, <3>5
  <2>6. Nested((((((a \o b) \o c) \o d) \o g) \o X00) \o <<>>,
               a \o (b \o (c \o (d \o (g \o (X00 \o <<>>))))),
               Len(a) + Len(b) + Len(c) + Len(d) + Len(g) + Len(X00) + Len(<<>>))
    BY <2>2, Regroup6
  <2>7. format = a \o (b \o (c \o rest)) /\ Len(format) = 34
    <3>1. format \o <<>> = format
      BY <2>5, NoPart
    <3>2. Len(a) + Len(b) + Len(c) + Len(d) + Len(g) + Len(X00) + Len(<<>>) = 34
      BY <2>3
    <3>3. format \o <<>> = a \o (b \o (c \o rest)) /\ Len(format \o <<>>) = 34
      BY <2>4, <2>6, <3>2 DEF Nested
    <3> QED  BY <3>1, <3>3
  <2>8. rest \in Seq(Int) /\ c \o rest \in Seq(Int)
    <3>1. X00 \o <<>> \in Seq(Int)
      BY <2>2, Concat
    <3>2. g \o (X00 \o <<>>) \in Seq(Int)
      BY <2>2, <3>1, Concat
    <3>3. rest \in Seq(Int)
      BY <2>2, <3>2, Concat
    <3> QED  BY <2>2, <3>3, Concat
  <2> HIDE DEF rest
  <2>9. Written(format, Top(m, n0, messageID), c \o rest, 2, m, config, n0)
    <3> DEFINE r == c \o rest
    <3>1. r \in Seq(Int) /\ format = Sub(Bee, Type) \o (Sub(Aitch, messageID) \o r)
      BY <2>7, <2>8 DEF a, b
    <3> HIDE DEF r
    <3>2. Written(format, Top(m, n0, messageID), r, 2, m, config, n0)
      BY <1>1, <2>5, <3>1, WrittenTop
    <3> QED  BY <3>2 DEF r
  <2>10. Translation(<<"EXEC", Bee>>, Sub(Bee, Result), m, config, n0) = {}
    BY <2>1, NumberTranslated
  <2>11. /\ m.type \in DOMAIN udpMessageFormats /\ format = udpMessageFormats[m.type]
         /\ Len(format) \in Nat /\ 2 \in Nat /\ 2 + 1 <= Len(format)
    BY <1>11, <2>7, Formats DEF format, HasFormat
  <2>12. Written(format, Top(m, n0, messageID), Sub(Bee, Result) \o rest, 2, m, config, n0)
    BY <2>9 DEF c
  <2>13. EncodeBinary(m, config, n0) = <<>>
    BY <1>2, <2>1, <2>8, <2>10, <2>11, <2>12, WrittenNever
  <2> QED  BY <1>11, <2>13
<1> QED  BY <1>0, <1>4, <1>5, <1>6, <1>7, <1>8, <1>9, <1>10, <1>11

-----------------------------------------------------------------------------
(* What the encoder sends *)

\* What is remembered of an encoded message.
Remembered(e) ==
    /\ e.message \in Messages /\ e.config \in Configs
    /\ e.counter \in 0 .. MaxCounter /\ e.counter \in 0 .. NoId
    /\ e.bytes = EncodeBinary(e.message, e.config, e.counter)

\* The inductive invariant: the counter is a number within its bound, and a call
\* is remembered with what it was given and what it returned.
Sent ==
    /\ counter \in 0 .. MaxCounter /\ counter \in 0 .. NoId
    /\ last.op = "encode" => Remembered(last)
    /\ last.op = "deliver" => Remembered(last.of)

LEMMA Counts ==
    ASSUME NEW m, NEW n \in 0 .. NoId, n <= MaxCounter, m.id = NoId => n < MaxCounter
    PROVE  CounterAfter(m, n) \in 0 .. MaxCounter /\ CounterAfter(m, n) \in 0 .. NoId
<1>1. CASE m.id = NoId /\ n = NoId
  <2>1. CounterAfter(m, n) = 0
    BY <1>1 DEF CounterAfter, NoId
  <2>2. 0 \in 0 .. MaxCounter /\ 0 \in 0 .. NoId
    BY CounterAssumption DEF NoId
  <2> QED  BY <2>1, <2>2
<1>2. CASE m.id = NoId /\ n # NoId
  <2>1. n + 1 < 65536 /\ n + 1 \in Nat
    BY <1>2 DEF NoId
  <2>2. CounterAfter(m, n) = n + 1
    BY <1>2, <2>1 DEF CounterAfter
  <2>3. n \in Nat /\ n < MaxCounter /\ n < NoId /\ NoId \in Nat
    BY <1>2, <2>1 DEF NoId
  <2>4. n + 1 \in 0 .. MaxCounter
    BY <2>3, CounterAssumption
  <2>5. n + 1 \in 0 .. NoId
    BY <2>3
  <2> QED  BY <2>2, <2>4, <2>5
<1>3. CASE m.id # NoId
  <2>1. CounterAfter(m, n) = n
    BY <1>3 DEF CounterAfter
  <2>2. n \in 0 .. MaxCounter
    BY CounterAssumption DEF NoId
  <2> QED  BY <2>1, <2>2
<1> QED  BY <1>1, <1>2, <1>3

LEMMA SendingType ==
    ASSUME NEW s \in Sendings
    PROVE  s.message \in Messages /\ s.config \in Configs
BY SendingsAssumption DEF Messages, Configs

LEMMA SentHolds == Spec => []Sent
<1>1. Init => Sent
  BY CounterAssumption DEF Init, Sent, NoId
<1>2. Sent /\ [Next]_vars => Sent'
  <2> SUFFICES ASSUME Sent, [Next]_vars PROVE Sent'
    OBVIOUS
  <2>1. ASSUME NEW s \in Sendings, Encode(s.message, s.config) PROVE Sent'
    <3> DEFINE m == s.message
               c == s.config
    <3>1. m \in Messages /\ c \in Configs
      BY SendingType
    <3> HIDE DEF m, c
    <3>2. /\ counter \in 0 .. NoId /\ counter \in 0 .. MaxCounter
      BY DEF Sent
    <3>3. /\ m.id = NoId => counter < MaxCounter
          /\ counter' = CounterAfter(m, counter)
          /\ last' = [op |-> "encode", message |-> m, config |-> c,
                      counter |-> counter, bytes |-> EncodeBinary(m, c, counter)]
      BY <2>1 DEF Encode, m, c
    <3>4. counter <= MaxCounter
      BY <3>2, CounterAssumption
    <3>5. counter' \in 0 .. MaxCounter /\ counter' \in 0 .. NoId
      BY <3>2, <3>3, <3>4, Counts
    <3>6. last'.op = "encode" /\ Remembered(last')
      BY <3>1, <3>2, <3>3 DEF Remembered
    <3> QED  BY <3>5, <3>6 DEF Sent
  <2>2. ASSUME NEW d \in Datagrams, Decode(d) PROVE Sent'
    <3>1. last'.op = "decode" /\ counter' = counter
      BY <2>2 DEF Decode
    <3> QED  BY <3>1 DEF Sent
  <2>3. CASE Deliver
    <3>1. last'.op = "deliver" /\ last'.of = last /\ counter' = counter /\ last.op = "encode"
      BY <2>3 DEF Deliver
    <3>2. Remembered(last'.of)
      BY <3>1 DEF Sent
    <3> QED  BY <3>1, <3>2 DEF Sent
  <2>4. CASE UNCHANGED vars
    <3>1. last' = last /\ counter' = counter
      BY <2>4 DEF vars
    <3> QED  BY <3>1 DEF Sent
  <2> QED  BY <2>1, <2>2, <2>3, <2>4 DEF Next
<1> QED  BY <1>1, <1>2, PTL DEF Spec

\* Whatever the user typed and whatever the counter has reached, what encodeBinary
\* makes of the format is the documented layout: no text, a substitution or an
\* escape of the language itself included, is ever taken for a part of the format.
THEOREM EncodesLayoutHolds == Spec => []EncodesLayout
<1>1. Sent => EncodesLayout
  <2> SUFFICES ASSUME Sent, last.op = "encode" PROVE EncodesLayout
    BY DEF EncodesLayout
  <2> DEFINE m == last.message
             c == last.config
             n == last.counter
  <2>1. m \in Messages /\ c \in Configs /\ n \in Int /\ last.bytes = EncodeBinary(m, c, n)
    BY CounterAssumption DEF Sent, Remembered
  <2> HIDE DEF m, c, n
  <2>2. last.bytes = IF m.type \in {"REPLY", "NONE"} THEN <<>> ELSE Layout(m, c, n)
    BY <2>1, Encoded
  <2> QED  BY <2>2 DEF EncodesLayout, m, c, n
<1> QED  BY <1>1, SentHolds, PTL

-----------------------------------------------------------------------------
(* The steps of the decoder's automaton *)

R(t, p, ctl) == [type |-> t, passed |-> p, controls |-> ctl, stopped |-> FALSE]
Halt(t, p, ctl) == [type |-> t, passed |-> p, controls |-> ctl, stopped |-> TRUE]

\* The lambda that entered a state, and the edges that leave it.
Entered(t, p) == IF p = 0 THEN "INIT" ELSE Paths[t][p]
Stays(t, p, c) == Entered(t, p) \in DOMAIN Loops /\ c \in Loops[Entered(t, p)]
Leaves(t, p, c) == p < Len(Paths[t]) /\ Accepts(Paths[t][p + 1], c)

LEMMA StepFirst ==
    ASSUME NEW ctl, NEW d, NEW i, NEW t \in DOMAIN Paths, Codes[t] = d[i]
    PROVE  Step(Start(ctl), d, i) = R(t, 0, ctl)
<1>0. \A u \in DOMAIN Paths : Codes[u] = Codes[t] => u = t
  BY DEF Paths, Codes
<1> DEFINE run == Start(ctl)
<1>1. run.stopped = FALSE /\ run.type = "INIT"
  BY DEF Start
<1>2. (CHOOSE u \in DOMAIN Paths : Codes[u] = d[i]) = t
  BY <1>0
<1>3. [run EXCEPT !.type = t] = R(t, 0, ctl)
  <2>1. ASSUME NEW a
        PROVE  [[type |-> "INIT", passed |-> 0, controls |-> ctl,
                   stopped |-> a] EXCEPT !.type = t]
                 = [type |-> t, passed |-> 0, controls |-> ctl, stopped |-> a]
    OBVIOUS
  <2> QED  BY <2>1 DEF Start, R
<1> HIDE DEF run
<1>4. FromInit(run, d[i]) = [run EXCEPT !.type = t]
  BY <1>2 DEF FromInit
<1> QED  BY <1>1, <1>3, <1>4 DEF Step, run

LEMMA StepNowhere ==
    ASSUME NEW ctl, NEW d, NEW i, \A t \in DOMAIN Paths : Codes[t] # d[i]
    PROVE  Step(Start(ctl), d, i) = Halt("INIT", 0, ctl)
<1> DEFINE run == Start(ctl)
<1>1. run = R("INIT", 0, ctl)
  BY DEF Start, R
<1>5. [R("INIT", 0, ctl) EXCEPT !.stopped = TRUE] = Halt("INIT", 0, ctl)
  <2>1. ASSUME NEW a, NEW b
        PROVE  [[type |-> "INIT", passed |-> 0, controls |-> ctl, stopped |-> a]
                   EXCEPT !.stopped = b]
                 = [type |-> "INIT", passed |-> 0, controls |-> ctl, stopped |-> b]
    OBVIOUS
  <2> QED  BY <2>1 DEF R, Halt
<1>6. run.stopped = FALSE /\ run.type = "INIT"
  BY DEF Start
<1>2. /\ run.stopped = FALSE /\ run.type = "INIT"
      /\ [run EXCEPT !.stopped = TRUE] = Halt("INIT", 0, ctl)
  <2> HIDE DEF run
  <2> QED  BY <1>1, <1>5, <1>6
<1>3. ~ \E t \in DOMAIN Paths : Codes[t] = d[i]
  OBVIOUS
<1> HIDE DEF run
<1>4. FromInit(run, d[i]) = [run EXCEPT !.stopped = TRUE]
  BY <1>3, Zenon DEF FromInit
<1> QED  BY <1>2, <1>4 DEF Step, run

LEMMA StepStopped ==
    ASSUME NEW t, NEW p, NEW ctl, NEW d, NEW i
    PROVE  Step(Halt(t, p, ctl), d, i) = Halt(t, p, ctl)
<1> DEFINE run == Halt(t, p, ctl)
<1>1. run.stopped
  BY DEF Halt
<1> HIDE DEF run
<1> QED  BY <1>1 DEF Step, run

LEMMA StepTaken ==
    ASSUME NEW ctl, NEW d, NEW i, NEW t \in DOMAIN Paths, NEW p
    PROVE  Step(R(t, p, ctl), d, i) =
             IF Stays(t, p, d[i]) THEN R(t, p, ctl)
             ELSE IF Leaves(t, p, d[i])
             THEN R(t, p + 1, Saved(ctl, Paths[t][p + 1], d, i))
             ELSE Halt(t, p, ctl)
<1> DEFINE run == R(t, p, ctl)
<1>5. run.stopped = FALSE /\ run.type = t /\ run.passed = p /\ run.controls = ctl
  BY DEF R
<1>6. [run EXCEPT !.stopped = TRUE] = Halt(t, p, ctl)
  <2>1. ASSUME NEW a, NEW b
        PROVE  [[type |-> t, passed |-> p, controls |-> ctl, stopped |-> a]
                   EXCEPT !.stopped = b]
                 = [type |-> t, passed |-> p, controls |-> ctl, stopped |-> b]
    OBVIOUS
  <2> QED  BY <2>1 DEF R, Halt
<1>1. /\ run.stopped = FALSE /\ run.type = t /\ run.passed = p /\ run.controls = ctl
      /\ [run EXCEPT !.stopped = TRUE] = Halt(t, p, ctl)
  BY <1>5, <1>6
<1>2. t # "INIT"
  BY DEF Paths
<1> HIDE DEF run
<1>3. Step(run, d, i) = Take(run, d, i)
  BY <1>1, <1>2 DEF Step
<1>4. Take(run, d, i) =
        IF Stays(t, p, d[i]) THEN run
        ELSE IF Leaves(t, p, d[i])
        THEN [type |-> t, passed |-> p + 1, stopped |-> FALSE,
              controls |-> Saved(ctl, Paths[t][p + 1], d, i)]
        ELSE Halt(t, p, ctl)
  BY <1>1 DEF Take, Stays, Leaves, Entered
<1> QED  BY <1>3, <1>4 DEF run, R

-----------------------------------------------------------------------------
(* The paths *)

Types == {"CONFIRM", "PING", "REPLY", "MSG", "ERR", "BYE", "JOIN", "AUTH"}

\* How many lambdas come before the first string.
Before(t) == IF t = "REPLY" THEN 5 ELSE 2

Lambdas == {"tautology", "saveID", "saveReplyID", "saveStatus", "saveContent", "saveDispName",
            "saveUsername", "saveSecret", "saveChannel", "scanZero"}

LEMMA Two ==
    ASSUME NEW X, NEW a \in X, NEW b \in X, NEW q \in Seq(X)
    PROVE  /\ Len(<<a, b>> \o q) = 2 + Len(q)
           /\ (<<a, b>> \o q)[1] = a /\ (<<a, b>> \o q)[2] = b
           /\ \A i \in 1 .. Len(q) : (<<a, b>> \o q)[2 + i] = q[i]
<1> DEFINE p == <<a, b>>
<1>1. p \in Seq(X) /\ Len(p) = 2 /\ p[1] = a /\ p[2] = b
  OBVIOUS
<1>2. p \in Seq(X)
  BY <1>1
<1> HIDE DEF p
<1>3. /\ Len(p \o q) = Len(p) + Len(q)
      /\ \A i \in 1 .. Len(p) : (p \o q)[i] = p[i]
      /\ \A i \in 1 .. Len(q) : (p \o q)[Len(p) + i] = q[i]
  BY <1>2, Concat
<1>4. (p \o q)[1] = a /\ (p \o q)[2] = b
  BY <1>1, <1>3
<1>5. \A i \in 1 .. Len(q) : (p \o q)[2 + i] = q[i]
  BY <1>1, <1>3
<1>6. Len(p \o q) = 2 + Len(q)
  BY <1>1, <1>3
<1> QED  BY <1>4, <1>5, <1>6 DEF p

LEMMA TypesAre == DOMAIN Paths = Types
BY DEF Paths, Types

LEMMA PathStarts ==
    ASSUME NEW t \in Types
    PROVE  /\ Paths[t][1] = "tautology" /\ Paths[t][2] = "saveID"
           /\ t = "REPLY" => /\ Paths[t][3] = "saveStatus" /\ Paths[t][4] = "tautology"
                             /\ Paths[t][5] = "saveReplyID"
           /\ t \in {"CONFIRM", "PING"} => Len(Paths[t]) = 2
           /\ t = "BYE" => Len(Paths[t]) = 4
           /\ t \in {"MSG", "ERR", "JOIN"} => Len(Paths[t]) = 6
           /\ t = "AUTH" => Len(Paths[t]) = 8
           /\ t = "REPLY" => Len(Paths[t]) = 7
           /\ t \in {"MSG", "ERR"} =>
                /\ Paths[t][3] = "saveDispName" /\ Paths[t][4] = "scanZero"
                /\ Paths[t][5] = "saveContent" /\ Paths[t][6] = "scanZero"
           /\ t = "BYE" => Paths[t][3] = "saveDispName" /\ Paths[t][4] = "scanZero"
           /\ t = "JOIN" =>
                /\ Paths[t][3] = "saveChannel" /\ Paths[t][4] = "scanZero"
                /\ Paths[t][5] = "saveDispName" /\ Paths[t][6] = "scanZero"
           /\ t = "AUTH" =>
                /\ Paths[t][3] = "saveUsername" /\ Paths[t][4] = "scanZero"
                /\ Paths[t][5] = "saveDispName" /\ Paths[t][6] = "scanZero"
                /\ Paths[t][7] = "saveSecret" /\ Paths[t][8] = "scanZero"
           /\ t = "REPLY" => Paths[t][6] = "saveContent" /\ Paths[t][7] = "scanZero"
<1> DEFINE a == "tautology"
           b == "saveID"
<1>1. CASE t \in {"CONFIRM", "PING"}
  <2>1. Paths[t] = <<a, b>>
    BY <1>1 DEF Paths
  <2> QED  BY <1>1, <2>1
<1>2. CASE t \in {"MSG", "ERR"}
  <2> DEFINE q == <<"saveDispName", "scanZero", "saveContent", "scanZero">>
  <2>1. Paths[t] = <<a, b>> \o q
    BY <1>2 DEF Paths
  <2>2. q \in Seq(Lambdas)
    BY DEF Lambdas
  <2>3. Len(q) = 4 /\ q[1] = "saveDispName" /\ q[2] = "scanZero" /\ q[3] = "saveContent"
            /\ q[4] = "scanZero"
    OBVIOUS
  <2> HIDE DEF q
  <2>4. /\ Len(<<a, b>> \o q) = 2 + Len(q)
        /\ (<<a, b>> \o q)[1] = a /\ (<<a, b>> \o q)[2] = b
        /\ \A i \in 1 .. Len(q) : (<<a, b>> \o q)[2 + i] = q[i]
    <3>1. a \in Lambdas /\ b \in Lambdas
      BY DEF Lambdas
    <3> QED  BY <2>2, <3>1, Two
  <2>5. /\ Len(Paths[t]) = 2 + Len(q) /\ Paths[t][1] = a /\ Paths[t][2] = b
        /\ \A i \in 1 .. Len(q) : Paths[t][2 + i] = q[i]
    BY <2>1, <2>4
  <2>6. Paths[t][3] = q[1]
    <3>1. 1 \in 1 .. Len(q) /\ 2 + 1 = 3
      BY <2>3
    <3> QED  BY <2>5, <3>1
  <2>7. Paths[t][4] = q[2]
    <3>1. 2 \in 1 .. Len(q) /\ 2 + 2 = 4
      BY <2>3
    <3> QED  BY <2>5, <3>1
  <2>8. Paths[t][5] = q[3]
    <3>1. 3 \in 1 .. Len(q) /\ 2 + 3 = 5
      BY <2>3
    <3> QED  BY <2>5, <3>1
  <2>9. Paths[t][6] = q[4]
    <3>1. 4 \in 1 .. Len(q) /\ 2 + 4 = 6
      BY <2>3
    <3> QED  BY <2>5, <3>1
  <2>10. Len(Paths[t]) = 6
    BY <2>3, <2>5
  <2> QED  BY <1>2, <2>3, <2>5, <2>6, <2>7, <2>8, <2>9, <2>10
<1>3. CASE t = "BYE"
  <2> DEFINE q == <<"saveDispName", "scanZero">>
  <2>1. Paths[t] = <<a, b>> \o q
    BY <1>3 DEF Paths
  <2>2. q \in Seq(Lambdas)
    BY DEF Lambdas
  <2>3. Len(q) = 2 /\ q[1] = "saveDispName" /\ q[2] = "scanZero"
    OBVIOUS
  <2> HIDE DEF q
  <2>4. /\ Len(<<a, b>> \o q) = 2 + Len(q)
        /\ (<<a, b>> \o q)[1] = a /\ (<<a, b>> \o q)[2] = b
        /\ \A i \in 1 .. Len(q) : (<<a, b>> \o q)[2 + i] = q[i]
    <3>1. a \in Lambdas /\ b \in Lambdas
      BY DEF Lambdas
    <3> QED  BY <2>2, <3>1, Two
  <2>5. /\ Len(Paths[t]) = 2 + Len(q) /\ Paths[t][1] = a /\ Paths[t][2] = b
        /\ \A i \in 1 .. Len(q) : Paths[t][2 + i] = q[i]
    BY <2>1, <2>4
  <2>6. Paths[t][3] = q[1]
    <3>1. 1 \in 1 .. Len(q) /\ 2 + 1 = 3
      BY <2>3
    <3> QED  BY <2>5, <3>1
  <2>7. Paths[t][4] = q[2]
    <3>1. 2 \in 1 .. Len(q) /\ 2 + 2 = 4
      BY <2>3
    <3> QED  BY <2>5, <3>1
  <2>8. Len(Paths[t]) = 4
    BY <2>3, <2>5
  <2> QED  BY <1>3, <2>3, <2>5, <2>6, <2>7, <2>8
<1>4. CASE t = "JOIN"
  <2> DEFINE q == <<"saveChannel", "scanZero", "saveDispName", "scanZero">>
  <2>1. Paths[t] = <<a, b>> \o q
    BY <1>4 DEF Paths
  <2>2. q \in Seq(Lambdas)
    BY DEF Lambdas
  <2>3. Len(q) = 4 /\ q[1] = "saveChannel" /\ q[2] = "scanZero" /\ q[3] = "saveDispName"
            /\ q[4] = "scanZero"
    OBVIOUS
  <2> HIDE DEF q
  <2>4. /\ Len(<<a, b>> \o q) = 2 + Len(q)
        /\ (<<a, b>> \o q)[1] = a /\ (<<a, b>> \o q)[2] = b
        /\ \A i \in 1 .. Len(q) : (<<a, b>> \o q)[2 + i] = q[i]
    <3>1. a \in Lambdas /\ b \in Lambdas
      BY DEF Lambdas
    <3> QED  BY <2>2, <3>1, Two
  <2>5. /\ Len(Paths[t]) = 2 + Len(q) /\ Paths[t][1] = a /\ Paths[t][2] = b
        /\ \A i \in 1 .. Len(q) : Paths[t][2 + i] = q[i]
    BY <2>1, <2>4
  <2>6. Paths[t][3] = q[1]
    <3>1. 1 \in 1 .. Len(q) /\ 2 + 1 = 3
      BY <2>3
    <3> QED  BY <2>5, <3>1
  <2>7. Paths[t][4] = q[2]
    <3>1. 2 \in 1 .. Len(q) /\ 2 + 2 = 4
      BY <2>3
    <3> QED  BY <2>5, <3>1
  <2>8. Paths[t][5] = q[3]
    <3>1. 3 \in 1 .. Len(q) /\ 2 + 3 = 5
      BY <2>3
    <3> QED  BY <2>5, <3>1
  <2>9. Paths[t][6] = q[4]
    <3>1. 4 \in 1 .. Len(q) /\ 2 + 4 = 6
      BY <2>3
    <3> QED  BY <2>5, <3>1
  <2>10. Len(Paths[t]) = 6
    BY <2>3, <2>5
  <2> QED  BY <1>4, <2>3, <2>5, <2>6, <2>7, <2>8, <2>9, <2>10
<1>5. CASE t = "AUTH"
  <2> DEFINE q == <<"saveUsername", "scanZero", "saveDispName", "scanZero", "saveSecret",
                 "scanZero">>
  <2>1. Paths[t] = <<a, b>> \o q
    BY <1>5 DEF Paths
  <2>2. q \in Seq(Lambdas)
    BY DEF Lambdas
  <2>3. Len(q) = 6 /\ q[1] = "saveUsername" /\ q[2] = "scanZero" /\ q[3] = "saveDispName"
            /\ q[4] = "scanZero" /\ q[5] = "saveSecret" /\ q[6] = "scanZero"
    OBVIOUS
  <2> HIDE DEF q
  <2>4. /\ Len(<<a, b>> \o q) = 2 + Len(q)
        /\ (<<a, b>> \o q)[1] = a /\ (<<a, b>> \o q)[2] = b
        /\ \A i \in 1 .. Len(q) : (<<a, b>> \o q)[2 + i] = q[i]
    <3>1. a \in Lambdas /\ b \in Lambdas
      BY DEF Lambdas
    <3> QED  BY <2>2, <3>1, Two
  <2>5. /\ Len(Paths[t]) = 2 + Len(q) /\ Paths[t][1] = a /\ Paths[t][2] = b
        /\ \A i \in 1 .. Len(q) : Paths[t][2 + i] = q[i]
    BY <2>1, <2>4
  <2>6. Paths[t][3] = q[1]
    <3>1. 1 \in 1 .. Len(q) /\ 2 + 1 = 3
      BY <2>3
    <3> QED  BY <2>5, <3>1
  <2>7. Paths[t][4] = q[2]
    <3>1. 2 \in 1 .. Len(q) /\ 2 + 2 = 4
      BY <2>3
    <3> QED  BY <2>5, <3>1
  <2>8. Paths[t][5] = q[3]
    <3>1. 3 \in 1 .. Len(q) /\ 2 + 3 = 5
      BY <2>3
    <3> QED  BY <2>5, <3>1
  <2>9. Paths[t][6] = q[4]
    <3>1. 4 \in 1 .. Len(q) /\ 2 + 4 = 6
      BY <2>3
    <3> QED  BY <2>5, <3>1
  <2>10. Paths[t][7] = q[5]
    <3>1. 5 \in 1 .. Len(q) /\ 2 + 5 = 7
      BY <2>3
    <3> QED  BY <2>5, <3>1
  <2>11. Paths[t][8] = q[6]
    <3>1. 6 \in 1 .. Len(q) /\ 2 + 6 = 8
      BY <2>3
    <3> QED  BY <2>5, <3>1
  <2>12. Len(Paths[t]) = 8
    BY <2>3, <2>5
  <2> QED  BY <1>5, <2>3, <2>5, <2>6, <2>7, <2>8, <2>9, <2>10, <2>11, <2>12
<1>6. CASE t = "REPLY"
  <2> DEFINE q == <<"saveStatus", "tautology", "saveReplyID", "saveContent", "scanZero">>
  <2>1. Paths[t] = <<a, b>> \o q
    BY <1>6 DEF Paths
  <2>2. q \in Seq(Lambdas)
    BY DEF Lambdas
  <2>3. Len(q) = 5 /\ q[1] = "saveStatus" /\ q[2] = "tautology" /\ q[3] = "saveReplyID"
            /\ q[4] = "saveContent" /\ q[5] = "scanZero"
    OBVIOUS
  <2> HIDE DEF q
  <2>4. /\ Len(<<a, b>> \o q) = 2 + Len(q)
        /\ (<<a, b>> \o q)[1] = a /\ (<<a, b>> \o q)[2] = b
        /\ \A i \in 1 .. Len(q) : (<<a, b>> \o q)[2 + i] = q[i]
    <3>1. a \in Lambdas /\ b \in Lambdas
      BY DEF Lambdas
    <3> QED  BY <2>2, <3>1, Two
  <2>5. /\ Len(Paths[t]) = 2 + Len(q) /\ Paths[t][1] = a /\ Paths[t][2] = b
        /\ \A i \in 1 .. Len(q) : Paths[t][2 + i] = q[i]
    BY <2>1, <2>4
  <2>6. Paths[t][3] = q[1]
    <3>1. 1 \in 1 .. Len(q) /\ 2 + 1 = 3
      BY <2>3
    <3> QED  BY <2>5, <3>1
  <2>7. Paths[t][4] = q[2]
    <3>1. 2 \in 1 .. Len(q) /\ 2 + 2 = 4
      BY <2>3
    <3> QED  BY <2>5, <3>1
  <2>8. Paths[t][5] = q[3]
    <3>1. 3 \in 1 .. Len(q) /\ 2 + 3 = 5
      BY <2>3
    <3> QED  BY <2>5, <3>1
  <2>9. Paths[t][6] = q[4]
    <3>1. 4 \in 1 .. Len(q) /\ 2 + 4 = 6
      BY <2>3
    <3> QED  BY <2>5, <3>1
  <2>10. Paths[t][7] = q[5]
    <3>1. 5 \in 1 .. Len(q) /\ 2 + 5 = 7
      BY <2>3
    <3> QED  BY <2>5, <3>1
  <2>11. Len(Paths[t]) = 7
    BY <2>3, <2>5
  <2> QED  BY <1>6, <2>3, <2>5, <2>6, <2>7, <2>8, <2>9, <2>10, <2>11
<1> QED  BY <1>1, <1>2, <1>3, <1>4, <1>5, <1>6 DEF Types

-----------------------------------------------------------------------------
(* What the lambdas save *)

\* Every lambda but these two keeps something of the datagram.
Idle == {"tautology", "scanZero"}

LEMMA SavedIs ==
    ASSUME NEW ctl, NEW lambda, NEW d, NEW i
    PROVE  /\ lambda = "saveID" =>
                Saved(ctl, lambda, d, i) = [ctl EXCEPT !.messageID = ReadID(d, i)]
           /\ lambda = "saveReplyID" =>
                Saved(ctl, lambda, d, i) = [ctl EXCEPT !.replyID = ReadID(d, i)]
           /\ lambda = "saveStatus" =>
                Saved(ctl, lambda, d, i) = [ctl EXCEPT !.status = d[i]]
           /\ lambda = "saveContent" =>
                Saved(ctl, lambda, d, i) = [ctl EXCEPT !.content = SaveString(d, i)]
           /\ lambda \in {"saveSecret", "saveUsername"} =>
                Saved(ctl, lambda, d, i) = [ctl EXCEPT !.secret = SaveString(d, i)]
           /\ lambda \in {"saveDispName", "saveChannel"} =>
                Saved(ctl, lambda, d, i) = [ctl EXCEPT !.dispName = SaveString(d, i)]
           /\ lambda \in Idle => Saved(ctl, lambda, d, i) = ctl
<1>1. CASE lambda = "saveID"
  <2>1. /\ lambda # "saveReplyID" /\ lambda # "saveStatus" /\ lambda # "saveContent"
        /\ lambda \notin {"saveSecret", "saveUsername"}
        /\ lambda \notin {"saveDispName", "saveChannel"} /\ lambda \notin Idle
    BY <1>1 DEF Idle
  <2>2. Saved(ctl, lambda, d, i) = [ctl EXCEPT !.messageID = ReadID(d, i)]
    BY <1>1, <2>1, Zenon DEF Saved
  <2> QED  BY <1>1, <2>1, <2>2
<1>2. CASE lambda = "saveReplyID"
  <2>1. /\ lambda # "saveID"
        /\ lambda # "saveStatus"
        /\ lambda # "saveContent"
        /\ lambda \notin {"saveSecret", "saveUsername"}
        /\ lambda \notin {"saveDispName", "saveChannel"}
        /\ lambda \notin Idle
    BY <1>2 DEF Idle
  <2>2. Saved(ctl, lambda, d, i) = [ctl EXCEPT !.replyID = ReadID(d, i)]
    BY <1>2, <2>1, Zenon DEF Saved
  <2> QED  BY <1>2, <2>1, <2>2
<1>3. CASE lambda = "saveStatus"
  <2>1. /\ lambda # "saveID"
        /\ lambda # "saveReplyID"
        /\ lambda # "saveContent"
        /\ lambda \notin {"saveSecret", "saveUsername"}
        /\ lambda \notin {"saveDispName", "saveChannel"}
        /\ lambda \notin Idle
    BY <1>3 DEF Idle
  <2>2. Saved(ctl, lambda, d, i) = [ctl EXCEPT !.status = d[i]]
    BY <1>3, <2>1, Zenon DEF Saved
  <2> QED  BY <1>3, <2>1, <2>2
<1>4. CASE lambda = "saveContent"
  <2>1. /\ lambda # "saveID"
        /\ lambda # "saveReplyID"
        /\ lambda # "saveStatus"
        /\ lambda \notin {"saveSecret", "saveUsername"}
        /\ lambda \notin {"saveDispName", "saveChannel"}
        /\ lambda \notin Idle
    BY <1>4 DEF Idle
  <2>2. Saved(ctl, lambda, d, i) = [ctl EXCEPT !.content = SaveString(d, i)]
    BY <1>4, <2>1, Zenon DEF Saved
  <2> QED  BY <1>4, <2>1, <2>2
<1>5. CASE lambda \in {"saveSecret", "saveUsername"}
  <2>1. /\ lambda # "saveID"
        /\ lambda # "saveReplyID"
        /\ lambda # "saveStatus"
        /\ lambda # "saveContent"
        /\ lambda \notin {"saveDispName", "saveChannel"}
        /\ lambda \notin Idle
    BY <1>5 DEF Idle
  <2>2. Saved(ctl, lambda, d, i) = [ctl EXCEPT !.secret = SaveString(d, i)]
    BY <1>5, <2>1, Zenon DEF Saved
  <2> QED  BY <1>5, <2>1, <2>2
<1>6. CASE lambda \in {"saveDispName", "saveChannel"}
  <2>1. /\ lambda # "saveID"
        /\ lambda # "saveReplyID"
        /\ lambda # "saveStatus"
        /\ lambda # "saveContent"
        /\ lambda \notin {"saveSecret", "saveUsername"}
        /\ lambda \notin Idle
    BY <1>6 DEF Idle
  <2>2. Saved(ctl, lambda, d, i) = [ctl EXCEPT !.dispName = SaveString(d, i)]
    BY <1>6, <2>1, Zenon DEF Saved
  <2> QED  BY <1>6, <2>1, <2>2
<1>7. CASE lambda \in Idle
  <2>1. /\ lambda # "saveID"
        /\ lambda # "saveReplyID"
        /\ lambda # "saveStatus"
        /\ lambda # "saveContent"
        /\ lambda \notin {"saveSecret", "saveUsername"}
        /\ lambda \notin {"saveDispName", "saveChannel"}
    BY <1>7 DEF Idle
  <2>2. Saved(ctl, lambda, d, i) = ctl
    BY <1>7, <2>1, Zenon DEF Saved
  <2> QED  BY <1>7, <2>1, <2>2
<1> QED  BY <1>1, <1>2, <1>3, <1>4, <1>5, <1>6, <1>7

\* Records whose fields are of one set.
Rec(V) == [messageID : V, replyID : V, status : V, dispName : V, channelID : V,
           content : V, secret : V, username : V]

LEMMA SavedType ==
    ASSUME NEW V, NEW ctl \in Rec(V), NEW lambda, NEW d, NEW i,
           ReadID(d, i) \in V, d[i] \in V, SaveString(d, i) \in V,
           lambda \in Lambdas
    PROVE  Saved(ctl, lambda, d, i) \in Rec(V)
<1>1. ASSUME NEW v \in V
      PROVE  /\ [ctl EXCEPT !.messageID = v] \in Rec(V) /\ [ctl EXCEPT !.replyID = v] \in Rec(V)
             /\ [ctl EXCEPT !.status = v] \in Rec(V) /\ [ctl EXCEPT !.content = v] \in Rec(V)
             /\ [ctl EXCEPT !.secret = v] \in Rec(V) /\ [ctl EXCEPT !.dispName = v] \in Rec(V)
  BY DEF Rec
<1>2. \/ lambda = "saveID" \/ lambda = "saveReplyID" \/ lambda = "saveStatus"
      \/ lambda = "saveContent" \/ lambda \in {"saveSecret", "saveUsername"}
      \/ lambda \in {"saveDispName", "saveChannel"} \/ lambda \in Idle
  BY DEF Lambdas, Idle
<1>3. CASE lambda = "saveID"
  <2>1. Saved(ctl, lambda, d, i) = [ctl EXCEPT !.messageID = ReadID(d, i)]
    BY <1>3, SavedIs
  <2> QED  BY <1>1, <2>1
<1>4. CASE lambda = "saveReplyID"
  <2>1. Saved(ctl, lambda, d, i) = [ctl EXCEPT !.replyID = ReadID(d, i)]
    BY <1>4, SavedIs
  <2> QED  BY <1>1, <2>1
<1>5. CASE lambda = "saveStatus"
  <2>1. Saved(ctl, lambda, d, i) = [ctl EXCEPT !.status = d[i]]
    BY <1>5, SavedIs
  <2> QED  BY <1>1, <2>1
<1>6. CASE lambda = "saveContent"
  <2>1. Saved(ctl, lambda, d, i) = [ctl EXCEPT !.content = SaveString(d, i)]
    BY <1>6, SavedIs
  <2> QED  BY <1>1, <2>1
<1>7. CASE lambda \in {"saveSecret", "saveUsername"}
  <2>1. Saved(ctl, lambda, d, i) = [ctl EXCEPT !.secret = SaveString(d, i)]
    BY <1>7, SavedIs
  <2> QED  BY <1>1, <2>1
<1>8. CASE lambda \in {"saveDispName", "saveChannel"}
  <2>1. Saved(ctl, lambda, d, i) = [ctl EXCEPT !.dispName = SaveString(d, i)]
    BY <1>8, SavedIs
  <2> QED  BY <1>1, <2>1
<1>9. CASE lambda \in Idle
  <2>1. Saved(ctl, lambda, d, i) = ctl
    BY <1>9, SavedIs
  <2> QED  BY <1>1, <2>1
<1> QED  BY <1>2, <1>3, <1>4, <1>5, <1>6, <1>7, <1>8, <1>9

-----------------------------------------------------------------------------
(* The run over a datagram *)

LEMMA PathType ==
    ASSUME NEW t \in Types
    PROVE  /\ Len(Paths[t]) \in Nat
           /\ \A p \in 1 .. Len(Paths[t]) : Paths[t][p] \in Lambdas
<1>1. \A x \in {"tautology", "saveID", "saveReplyID", "saveStatus", "saveContent",
                "saveDispName", "saveUsername", "saveSecret", "saveChannel", "scanZero"} :
        x \in Lambdas
  BY DEF Lambdas
<1>2. CASE t \in {"CONFIRM", "PING"}
  <2>1. Len(Paths[t]) = 2 /\ Paths[t][1] = "tautology" /\ Paths[t][2] = "saveID"
    BY <1>2, PathStarts
  <2> QED  BY <1>1, <2>1
<1>3. CASE t = "BYE"
  <2>1. /\ Len(Paths[t]) = 4 /\ Paths[t][1] = "tautology" /\ Paths[t][2] = "saveID"
        /\ Paths[t][3] = "saveDispName" /\ Paths[t][4] = "scanZero"
    BY <1>3, PathStarts
  <2> QED  BY <1>1, <2>1
<1>4. CASE t \in {"MSG", "ERR"}
  <2>1. /\ Len(Paths[t]) = 6 /\ Paths[t][1] = "tautology" /\ Paths[t][2] = "saveID"
        /\ Paths[t][3] = "saveDispName" /\ Paths[t][4] = "scanZero"
        /\ Paths[t][5] = "saveContent" /\ Paths[t][6] = "scanZero"
    BY <1>4, PathStarts
  <2> QED  BY <1>1, <2>1
<1>5. CASE t = "JOIN"
  <2>1. /\ Len(Paths[t]) = 6 /\ Paths[t][1] = "tautology" /\ Paths[t][2] = "saveID"
        /\ Paths[t][3] = "saveChannel" /\ Paths[t][4] = "scanZero"
        /\ Paths[t][5] = "saveDispName" /\ Paths[t][6] = "scanZero"
    BY <1>5, PathStarts
  <2> QED  BY <1>1, <2>1
<1>6. CASE t = "AUTH"
  <2>1. /\ Len(Paths[t]) = 8 /\ Paths[t][1] = "tautology" /\ Paths[t][2] = "saveID"
        /\ Paths[t][3] = "saveUsername" /\ Paths[t][4] = "scanZero"
        /\ Paths[t][5] = "saveDispName" /\ Paths[t][6] = "scanZero"
        /\ Paths[t][7] = "saveSecret" /\ Paths[t][8] = "scanZero"
    BY <1>6, PathStarts
  <2> QED  BY <1>1, <2>1
<1>7. CASE t = "REPLY"
  <2>1. /\ Len(Paths[t]) = 7 /\ Paths[t][1] = "tautology" /\ Paths[t][2] = "saveID"
        /\ Paths[t][3] = "saveStatus" /\ Paths[t][4] = "tautology"
        /\ Paths[t][5] = "saveReplyID"
        /\ Paths[t][6] = "saveContent" /\ Paths[t][7] = "scanZero"
    BY <1>7, PathStarts
  <2> QED  BY <1>1, <2>1
<1> QED  BY <1>2, <1>3, <1>4, <1>5, <1>6, <1>7 DEF Types

\* The runs of the automaton whose controls hold values of a set.
Runs(V) == [type : Types \cup {"INIT"}, passed : Nat, controls : Rec(V), stopped : BOOLEAN]

LEMMA StepType ==
    ASSUME NEW V, NEW run \in Runs(V), NEW d, NEW i,
           ReadID(d, i) \in V, d[i] \in V, SaveString(d, i) \in V
    PROVE  Step(run, d, i) \in Runs(V)
<1>1. ASSUME NEW b \in BOOLEAN PROVE [run EXCEPT !.stopped = b] \in Runs(V)
  BY DEF Runs
<1>2. TRUE \in BOOLEAN /\ FALSE \in BOOLEAN
  OBVIOUS
<1>3. FromInit(run, d[i]) \in Runs(V)
  <2>1. CASE \E t \in DOMAIN Paths : Codes[t] = d[i]
    <3> DEFINE u == CHOOSE t \in DOMAIN Paths : Codes[t] = d[i]
    <3>1. u \in DOMAIN Paths
      BY <2>1
    <3> HIDE DEF u
    <3>2. u \in Types \cup {"INIT"}
      BY <3>1, TypesAre
    <3>3. [run EXCEPT !.type = u] \in Runs(V)
      BY <3>2 DEF Runs
    <3> QED  BY <2>1, <3>3 DEF FromInit, u
  <2>2. CASE ~ \E t \in DOMAIN Paths : Codes[t] = d[i]
    <3>1. FromInit(run, d[i]) = [run EXCEPT !.stopped = TRUE]
      BY <2>2, Zenon DEF FromInit
    <3>2. [run EXCEPT !.stopped = TRUE] \in Runs(V)
      BY <1>1, <1>2
    <3> QED  BY <3>1, <3>2
  <2> QED  BY <2>1, <2>2
<1>4. ASSUME run.type # "INIT" PROVE Take(run, d, i) \in Runs(V)
  <2>1. run.type \in Types /\ run.passed \in Nat /\ run.controls \in Rec(V)
    BY <1>4 DEF Runs
  <2> DEFINE t == run.type
             p == run.passed
             ctl == run.controls
             next == [type |-> t, passed |-> p + 1, stopped |-> FALSE,
                      controls |-> Saved(ctl, Paths[t][p + 1], d, i)]
  <2>2. ASSUME p < Len(Paths[t]) PROVE next \in Runs(V)
    <3> DEFINE lambda == Paths[t][p + 1]
               saved == Saved(ctl, lambda, d, i)
    <3>1. lambda \in Lambdas
      <4>1. p + 1 \in 1 .. Len(Paths[t])
        <5>1. Len(Paths[t]) \in Nat
          BY <2>1, PathType
        <5> QED  BY <2>1, <2>2, <5>1
      <4> QED  BY <2>1, <4>1, PathType
    <3> HIDE DEF lambda
    <3>2. saved \in Rec(V)
      <4> HIDE DEF ctl
      <4>1. ctl \in Rec(V)
        BY <2>1 DEF ctl
      <4> QED  BY <3>1, <4>1, SavedType
    <3> HIDE DEF saved
    <3>3. [type |-> t, passed |-> p + 1, stopped |-> FALSE, controls |-> saved] \in Runs(V)
      <4>1. ASSUME NEW b \in BOOLEAN
            PROVE  [type |-> t, passed |-> p + 1, stopped |-> b, controls |-> saved] \in Runs(V)
        BY <2>1, <3>2 DEF Runs
      <4> QED  BY <1>2, <4>1
    <3> QED  BY <3>3 DEF saved, lambda
  <2>3. [run EXCEPT !.stopped = TRUE] \in Runs(V)
    BY <1>1, <1>2
  <2>4. \/ Take(run, d, i) \in {run, [run EXCEPT !.stopped = TRUE]}
        \/ p < Len(Paths[t]) /\ Take(run, d, i) = next
    BY DEF Take
  <2> QED  BY <2>2, <2>3, <2>4
<1> QED  BY <1>3, <1>4 DEF Step

IsRun(g, ctl, d) ==
    /\ g[0] = Start(ctl)
    /\ \A i \in 1 .. Len(d) : g[i] = Step(g[i - 1], d, i)

LEMMA RunExists ==
    ASSUME NEW W, NEW ctl \in Rec(W), NEW d, Len(d) \in Nat
    PROVE  \E g : IsRun(g, ctl, d) /\ Automaton(ctl, d) = g[Len(d)]
<1> DEFINE n == Len(d)
           V == W \cup {ReadID(d, i) : i \in 1 .. n} \cup {d[i] : i \in 1 .. n}
                  \cup {SaveString(d, i) : i \in 1 .. n}
           S == Runs(V)
           step == [x \in S \X (1 .. n) |-> Step(x[1], d, x[2])]
           D(g) == g = [i \in 0 .. n |-> IF i = 0 THEN Start(ctl) ELSE Step(g[i - 1], d, i)]
<1>1. \A i \in 1 .. n : ReadID(d, i) \in V /\ d[i] \in V /\ SaveString(d, i) \in V
  OBVIOUS
<1>2. Start(ctl) \in S
  <2>1. ctl \in Rec(V)
    <3>1. W \subseteq V
      OBVIOUS
    <3> HIDE DEF V
    <3> QED  BY <3>1 DEF Rec
  <2> HIDE DEF V
  <2>2. ASSUME NEW b \in BOOLEAN
        PROVE  [type |-> "INIT", passed |-> 0, controls |-> ctl, stopped |-> b] \in S
    BY <2>1 DEF Runs
  <2>3. FALSE \in BOOLEAN
    OBVIOUS
  <2> QED  BY <2>2, <2>3 DEF Start
<1> HIDE DEF V
<1>3. \A w \in S : \A i \in 1 .. n : Step(w, d, i) \in S
  BY <1>1, StepType
<1> HIDE DEF S
<1>4. step \in [S \X (1 .. n) -> S]
  BY <1>3
<1> HIDE DEF step, n
<1>5. n \in Nat /\ 0 \in Int /\ n \in Int /\ 0 <= n
  BY DEF n
<1>6. step \in [S \X (0 + 1 .. n) -> S]
  BY <1>4
<1>7. PICK g : Recursive(g, 0, n, S, Start(ctl), step)
  BY <1>2, <1>5, <1>6, Recursion
<1>8. /\ g \in [0 .. n -> S] /\ g[0] = Start(ctl)
      /\ \A i \in 1 .. n : g[i] = step[<<g[i - 1], i>>]
  <2>1. \A i \in 0 + 1 .. n : g[i] = step[<<g[i - 1], i>>]
    BY <1>7 DEF Recursive
  <2> QED  BY <1>7, <2>1 DEF Recursive
<1>9. ASSUME NEW i \in 1 .. n PROVE g[i] = Step(g[i - 1], d, i)
  <2>1. i - 1 \in 0 .. n
    BY <1>5
  <2>2. <<g[i - 1], i>> \in S \X (1 .. n)
    BY <1>8, <2>1
  <2>3. step[<<g[i - 1], i>>] = Step(g[i - 1], d, i)
    BY <2>2 DEF step
  <2> QED  BY <1>8, <2>3
<1>10. D(g)
  <2>1. \A i \in 0 .. n : g[i] = IF i = 0 THEN Start(ctl) ELSE Step(g[i - 1], d, i)
    BY <1>5, <1>8, <1>9
  <2> QED  BY <1>8, <2>1
<1> DEFINE run == CHOOSE h : D(h)
<1>11. D(run)
  <2> HIDE DEF D
  <2> QED  BY <1>10
<1>12. Automaton(ctl, d) = run[n]
  BY DEF Automaton, n
<1> HIDE DEF run
<1>13. IsRun(run, ctl, d)
  <2>1. run[0] = Start(ctl)
    BY <1>5, <1>11
  <2>2. \A i \in 1 .. n : run[i] = Step(run[i - 1], d, i)
    BY <1>5, <1>11
  <2> QED  BY <2>1, <2>2 DEF IsRun, n
<1> QED  BY <1>12, <1>13 DEF n

-----------------------------------------------------------------------------
(* What the edges accept *)

\* The lambdas that begin a string which may begin with any printable character.
Typed == {"saveContent", "saveDispName", "saveUsername", "saveSecret"}

LEMMA AcceptsIs ==
    ASSUME NEW lambda, NEW c
    PROVE  /\ lambda \in {"tautology", "saveID", "saveReplyID"} => Accepts(lambda, c)
           /\ lambda = "scanZero" => (Accepts(lambda, c) <=> c = NUL)
           /\ lambda = "saveStatus" => (Accepts(lambda, c) <=> c \in {0, 1})
           /\ lambda = "saveChannel" => (Accepts(lambda, c) <=> c \in NameChars)
           /\ lambda \in Typed => (Accepts(lambda, c) <=> c \in Printable)
<1>1. ASSUME lambda \in {"tautology", "saveID", "saveReplyID"} PROVE Accepts(lambda, c) <=> TRUE
  <2>1. /\ lambda # "scanZero"
        /\ lambda # "saveStatus"
        /\ lambda # "saveChannel"
    BY <1>1 DEF Typed
  <2>2. Accepts(lambda, c) <=> TRUE
    BY <1>1, <2>1, Zenon DEF Accepts
  <2> QED  BY <2>2
<1>2. ASSUME lambda = "scanZero" PROVE Accepts(lambda, c) <=> c = NUL
  <2>1. /\ lambda \notin {"tautology", "saveID", "saveReplyID"}
        /\ lambda # "saveStatus"
        /\ lambda # "saveChannel"
    BY <1>2 DEF Typed
  <2>2. Accepts(lambda, c) <=> c = NUL
    BY <1>2, <2>1, Zenon DEF Accepts
  <2> QED  BY <2>2
<1>3. ASSUME lambda = "saveStatus" PROVE Accepts(lambda, c) <=> c \in {0, 1}
  <2>1. /\ lambda \notin {"tautology", "saveID", "saveReplyID"}
        /\ lambda # "scanZero"
        /\ lambda # "saveChannel"
    BY <1>3 DEF Typed
  <2>2. Accepts(lambda, c) <=> c \in {0, 1}
    BY <1>3, <2>1, Zenon DEF Accepts
  <2> QED  BY <2>2
<1>4. ASSUME lambda = "saveChannel" PROVE Accepts(lambda, c) <=> c \in NameChars
  <2>1. /\ lambda \notin {"tautology", "saveID", "saveReplyID"}
        /\ lambda # "scanZero"
        /\ lambda # "saveStatus"
    BY <1>4 DEF Typed
  <2>2. Accepts(lambda, c) <=> c \in NameChars
    BY <1>4, <2>1, Zenon DEF Accepts
  <2> QED  BY <2>2
<1>5. ASSUME lambda \in Typed PROVE Accepts(lambda, c) <=> c \in Printable
  <2>1. /\ lambda \notin {"tautology", "saveID", "saveReplyID"}
        /\ lambda # "scanZero"
        /\ lambda # "saveStatus"
        /\ lambda # "saveChannel"
    BY <1>5 DEF Typed
  <2>2. Accepts(lambda, c) <=> c \in Printable
    BY <1>5, <2>1, Zenon DEF Accepts
  <2> QED  BY <2>2
<1> QED  BY <1>1, <1>2, <1>3, <1>4, <1>5

LEMMA LoopsAre ==
    /\ DOMAIN Loops = Typed \cup {"saveChannel"}
    /\ Loops["saveContent"] = Printable /\ Loops["saveDispName"] = Printable
    /\ Loops["saveUsername"] = NameChars /\ Loops["saveSecret"] = NameChars
    /\ Loops["saveChannel"] = NameChars
    /\ Printable \subseteq Int /\ NUL \notin Printable /\ NUL \notin NameChars
    /\ NameChars \subseteq Printable
<1>1. /\ DOMAIN Loops = Typed \cup {"saveChannel"}
      /\ Loops["saveContent"] = Printable /\ Loops["saveDispName"] = Printable
      /\ Loops["saveUsername"] = NameChars /\ Loops["saveSecret"] = NameChars
      /\ Loops["saveChannel"] = NameChars
  BY DEF Loops, Typed
<1>2. Printable \subseteq Int /\ NUL \notin Printable /\ NUL \notin NameChars
  BY DEF Printable, NameChars, IdStart, Digits, Minus, Dot, Underscore, Words, NUL
<1>3. NameChars \subseteq Printable
  BY DEF Printable, NameChars, IdStart, Digits, Minus, Dot, Underscore, Words
<1> QED  BY <1>1, <1>2, <1>3

\* A state that has no edge to itself.
LEMMA PassStep ==
    ASSUME NEW ctl, NEW d, NEW i, NEW t \in Types, NEW p, p < Len(Paths[t]),
           Entered(t, p) \notin DOMAIN Loops
    PROVE  Step(R(t, p, ctl), d, i) =
             IF Accepts(Paths[t][p + 1], d[i])
             THEN R(t, p + 1, Saved(ctl, Paths[t][p + 1], d, i))
             ELSE Halt(t, p, ctl)
<1>1. t \in DOMAIN Paths
  BY TypesAre
<1>2. ~ Stays(t, p, d[i]) /\ (Leaves(t, p, d[i]) <=> Accepts(Paths[t][p + 1], d[i]))
  BY DEF Stays, Leaves
<1> QED  BY <1>1, <1>2, StepTaken

LEMMA LastState ==
    ASSUME NEW t \in Types
    PROVE  Entered(t, Len(Paths[t])) \in {"saveID", "scanZero"}
<1>1. CASE t \in {"CONFIRM", "PING"}
  BY <1>1, PathStarts DEF Entered
<1>2. CASE t = "BYE"
  BY <1>2, PathStarts DEF Entered
<1>3. CASE t \in {"MSG", "ERR"}
  BY <1>3, PathStarts DEF Entered
<1>4. CASE t = "JOIN"
  BY <1>4, PathStarts DEF Entered
<1>5. CASE t = "AUTH"
  BY <1>5, PathStarts DEF Entered
<1>6. CASE t = "REPLY"
  BY <1>6, PathStarts DEF Entered
<1> QED  BY <1>1, <1>2, <1>3, <1>4, <1>5, <1>6 DEF Types

\* A run that has stopped stays as it is.
LEMMA HaltStays ==
    ASSUME NEW g, NEW ctl, NEW d, Len(d) \in Nat, IsRun(g, ctl, d), NEW k \in 0 .. Len(d),
           NEW t, NEW p, NEW c, g[k] = Halt(t, p, c)
    PROVE  \A j \in k .. Len(d) : g[j] = Halt(t, p, c)
<1> DEFINE T == {j \in k .. Len(d) : g[j] = Halt(t, p, c)}
<1>1. k \in T
  OBVIOUS
<1>2. ASSUME NEW j \in k + 1 .. Len(d), j - 1 \in T PROVE j \in T
  <2>1. g[j - 1] = Halt(t, p, c) /\ j \in 1 .. Len(d) /\ j \in k .. Len(d)
    BY <1>2
  <2>2. g[j] = Step(g[j - 1], d, j)
    BY <2>1 DEF IsRun
  <2>3. g[j] = Halt(t, p, c)
    BY <2>1, <2>2, StepStopped
  <2> QED  BY <2>1, <2>3
<1> HIDE DEF T
<1>3. k \in Int /\ Len(d) \in Int
  OBVIOUS
<1>4. \A j \in k .. Len(d) : j \in T
  BY <1>1, <1>2, <1>3, Induction
<1> QED  BY <1>4 DEF T

\* A run that has reached a final state may only stop there.
LEMMA FinalStays ==
    ASSUME NEW g, NEW ctl, NEW d, Len(d) \in Nat, IsRun(g, ctl, d), NEW k \in 0 .. Len(d),
           NEW t \in Types, NEW c, g[k] = R(t, Len(Paths[t]), c)
    PROVE  g[Len(d)] \in {R(t, Len(Paths[t]), c), Halt(t, Len(Paths[t]), c)}
<1> DEFINE n == Len(Paths[t])
           T == {j \in k .. Len(d) : g[j] \in {R(t, n, c), Halt(t, n, c)}}
<1>1. k \in T
  OBVIOUS
<1>2. ASSUME NEW j \in k + 1 .. Len(d), j - 1 \in T PROVE j \in T
  <2>1. g[j - 1] \in {R(t, n, c), Halt(t, n, c)} /\ j \in 1 .. Len(d) /\ j \in k .. Len(d)
    BY <1>2
  <2>2. g[j] = Step(g[j - 1], d, j)
    BY <2>1 DEF IsRun
  <2>3. Step(R(t, n, c), d, j) = Halt(t, n, c)
    <3>1. t \in DOMAIN Paths
      BY TypesAre
    <3>2. n \in Nat
      BY PathType
    <3>3. ~ Stays(t, n, d[j])
      <4>1. Entered(t, n) \in {"saveID", "scanZero"}
        BY LastState
      <4>2. Entered(t, n) \notin DOMAIN Loops
        BY <4>1, LoopsAre DEF Typed
      <4> QED  BY <4>2 DEF Stays
    <3>4. ~ Leaves(t, n, d[j])
      BY <3>2 DEF Leaves
    <3> HIDE DEF n
    <3> QED  BY <3>1, <3>3, <3>4, StepTaken
  <2>4. Step(Halt(t, n, c), d, j) = Halt(t, n, c)
    BY StepStopped
  <2> HIDE DEF n
  <2>5. g[j] \in {R(t, n, c), Halt(t, n, c)}
    BY <2>1, <2>2, <2>3, <2>4
  <2> QED  BY <2>1, <2>5 DEF n
<1> HIDE DEF T
<1>3. k \in Int /\ Len(d) \in Int
  OBVIOUS
<1>4. \A j \in k .. Len(d) : j \in T
  BY <1>1, <1>2, <1>3, Induction
<1> QED  BY <1>4 DEF T

\* Only the last state of a type is final.
LEMMA TerminalIs ==
    ASSUME NEW t, NEW p, NEW c, NEW run \in {R(t, p, c), Halt(t, p, c)}
    PROVE  Terminal(run) <=> t \in Types /\ p = Len(Paths[t])
<1>1. run.type = t /\ run.passed = p
  BY DEF R, Halt
<1>2. output(run) = <<t, p>>
  BY <1>1 DEF output
<1>3. DOMAIN translationMap = {<<u, Len(Paths[u])>> : u \in Types}
  BY TypesAre DEF translationMap
<1> QED  BY <1>2, <1>3 DEF Terminal

-----------------------------------------------------------------------------
(* The type and the numbers of a datagram *)

\* The controls after them.
Heading(t, ctl, d) ==
    LET id == Saved(ctl, "saveID", d, 3)
    IN  IF t = "REPLY"
        THEN Saved(Saved(id, "saveStatus", d, 4), "saveReplyID", d, 6) ELSE id

Headed(t, d) == Len(d) >= Header(t) /\ (t = "REPLY" => d[4] \in {0, 1})

LEMMA Passes ==
    ASSUME NEW g, NEW ctl, NEW d, Len(d) \in Nat, IsRun(g, ctl, d), NEW k \in 1 .. Len(d),
           NEW t \in Types, NEW p, NEW c, g[k - 1] = R(t, p, c), p < Len(Paths[t]),
           Entered(t, p) \notin DOMAIN Loops
    PROVE  g[k] = IF Accepts(Paths[t][p + 1], d[k])
                  THEN R(t, p + 1, Saved(c, Paths[t][p + 1], d, k)) ELSE Halt(t, p, c)
<1>1. g[k] = Step(g[k - 1], d, k)
  BY DEF IsRun
<1> QED  BY <1>1, PassStep

\* A run that ends before the last lambda of its type yields no message.
LEMMA EndsEarly ==
    ASSUME NEW g, NEW d, NEW t \in Types, NEW p, NEW c, p # Len(Paths[t]),
           g[Len(d)] \in {R(t, p, c), Halt(t, p, c)}
    PROVE  ~ Terminal(g[Len(d)])
<1> DEFINE run == g[Len(d)]
<1>1. run \in {R(t, p, c), Halt(t, p, c)}
  OBVIOUS
<1> HIDE DEF run
<1>2. Terminal(run) <=> t \in Types /\ p = Len(Paths[t])
  BY <1>1, TerminalIs
<1> QED  BY <1>2 DEF run

LEMMA HaltsEarly ==
    ASSUME NEW g, NEW ctl, NEW d, Len(d) \in Nat, IsRun(g, ctl, d), NEW k \in 0 .. Len(d),
           NEW t \in Types, NEW p, NEW c, p # Len(Paths[t]), g[k] = Halt(t, p, c)
    PROVE  ~ Terminal(g[Len(d)])
<1>1. \A j \in k .. Len(d) : g[j] = Halt(t, p, c)
  BY HaltStays
<1>2. g[Len(d)] = Halt(t, p, c)
  BY <1>1
<1> QED  BY <1>2, EndsEarly

LEMMA ReadsType ==
    ASSUME NEW g, NEW ctl, NEW d, Len(d) \in Nat, IsRun(g, ctl, d)
    PROVE  /\ \A t \in Types : Len(d) >= 1 /\ d[1] = Codes[t] => g[1] = R(t, 0, ctl)
           /\ Len(d) = 0 \/ (\A t \in Types : d[1] # Codes[t]) => ~ Terminal(g[Len(d)])
<1>1. g[0] = Start(ctl) /\ (Len(d) >= 1 => g[1] = Step(Start(ctl), d, 1))
  <2>1. Len(d) >= 1 => 1 \in 1 .. Len(d) /\ 1 - 1 = 0
    OBVIOUS
  <2> QED  BY <2>1 DEF IsRun
<1>2. ASSUME NEW t \in Types, Len(d) >= 1, d[1] = Codes[t] PROVE g[1] = R(t, 0, ctl)
  <2>1. t \in DOMAIN Paths
    BY TypesAre
  <2>2. Step(Start(ctl), d, 1) = R(t, 0, ctl)
    BY <1>2, <2>1, StepFirst
  <2> QED  BY <1>1, <1>2, <2>2
<1>3. ASSUME Len(d) = 0 PROVE ~ Terminal(g[Len(d)])
  <2>1. Start(ctl) = R("INIT", 0, ctl)
    BY DEF Start, R
  <2>2. "INIT" \notin Types
    BY DEF Types
  <2>3. Terminal(R("INIT", 0, ctl)) <=> "INIT" \in Types /\ 0 = Len(Paths["INIT"])
    BY TerminalIs
  <2> QED  BY <1>1, <1>3, <2>1, <2>2, <2>3
<1>4. ASSUME Len(d) # 0, \A t \in Types : d[1] # Codes[t] PROVE ~ Terminal(g[Len(d)])
  <2>1. \A t \in DOMAIN Paths : Codes[t] # d[1]
    BY <1>4, TypesAre
  <2>2. Step(Start(ctl), d, 1) = Halt("INIT", 0, ctl)
    BY <2>1, StepNowhere
  <2>3. 1 \in 0 .. Len(d) /\ Len(d) >= 1 /\ Len(d) \in 1 .. Len(d)
    BY <1>4
  <2>4. g[1] = Halt("INIT", 0, ctl)
    BY <1>1, <2>2, <2>3
  <2>5. \A j \in 1 .. Len(d) : g[j] = Halt("INIT", 0, ctl)
    BY <2>3, <2>4, HaltStays
  <2>6. g[Len(d)] = Halt("INIT", 0, ctl)
    BY <2>3, <2>5
  <2>7. "INIT" \notin Types
    BY DEF Types
  <2>8. Terminal(Halt("INIT", 0, ctl)) <=> "INIT" \in Types /\ 0 = Len(Paths["INIT"])
    BY TerminalIs
  <2> QED  BY <2>6, <2>7, <2>8
<1> QED  BY <1>2, <1>3, <1>4

LEMMA Unlooped ==
    ASSUME NEW t \in Types
    PROVE  /\ 5 <= Len(Paths[t]) \/ t # "REPLY"
           /\ 2 <= Len(Paths[t]) /\ Len(Paths[t]) \in Nat
           /\ Entered(t, 0) \notin DOMAIN Loops /\ Entered(t, 1) \notin DOMAIN Loops
           /\ Entered(t, 2) \notin DOMAIN Loops
           /\ t = "REPLY" =>
                /\ Len(Paths[t]) = 7
                /\ Entered(t, 3) \notin DOMAIN Loops /\ Entered(t, 4) \notin DOMAIN Loops
                /\ Entered(t, 5) \notin DOMAIN Loops
<1>1. \A x \in {"INIT", "tautology", "saveID", "saveStatus", "saveReplyID"} :
        x \notin DOMAIN Loops
  BY LoopsAre DEF Typed
<1>2. Entered(t, 0) = "INIT" /\ Entered(t, 1) = "tautology" /\ Entered(t, 2) = "saveID"
  BY PathStarts DEF Entered
<1>3. t = "REPLY" => /\ Entered(t, 3) = "saveStatus" /\ Entered(t, 4) = "tautology"
                     /\ Entered(t, 5) = "saveReplyID" /\ Len(Paths[t]) = 7
  BY PathStarts DEF Entered
<1>4. 2 <= Len(Paths[t]) /\ Len(Paths[t]) \in Nat
  <2> DEFINE n == Len(Paths[t])
  <2>1. n \in {2, 4, 6, 7, 8}
    BY PathStarts DEF Types
  <2> HIDE DEF n
  <2>2. 2 <= n /\ n \in Nat
    BY <2>1
  <2> QED  BY <2>2 DEF n
<1>5. /\ Entered(t, 0) \notin DOMAIN Loops /\ Entered(t, 1) \notin DOMAIN Loops
      /\ Entered(t, 2) \notin DOMAIN Loops
  BY <1>1, <1>2
<1>6. t = "REPLY" => /\ Entered(t, 3) \notin DOMAIN Loops
                     /\ Entered(t, 4) \notin DOMAIN Loops
                     /\ Entered(t, 5) \notin DOMAIN Loops
  BY <1>1, <1>3
<1>7. 5 <= Len(Paths[t]) \/ t # "REPLY"
  BY <1>3
<1> QED  BY <1>3, <1>4, <1>5, <1>6, <1>7

LEMMA ReadsHeader ==
    ASSUME NEW g, NEW ctl, NEW d, Len(d) \in Nat, IsRun(g, ctl, d),
           NEW t \in Types, Len(d) >= 1, d[1] = Codes[t]
    PROVE  IF Headed(t, d) THEN g[Header(t)] = R(t, Before(t), Heading(t, ctl, d))
           ELSE ~ Terminal(g[Len(d)])
<1>0. \A lambda \in {"tautology", "saveID", "saveReplyID"} : \A c : Accepts(lambda, c)
  BY AcceptsIs
<1>1. g[1] = R(t, 0, ctl)
  BY ReadsType
<1>15. /\ 0 # Len(Paths[t]) /\ 1 # Len(Paths[t])
       /\ t = "REPLY" => 2 # Len(Paths[t]) /\ 3 # Len(Paths[t]) /\ 4 # Len(Paths[t])
  <2> DEFINE n == Len(Paths[t])
  <2>1. n \in Nat /\ 2 <= n /\ (t = "REPLY" => n = 7)
    BY Unlooped
  <2> HIDE DEF n
  <2>2. 0 # n /\ 1 # n /\ (t = "REPLY" => 2 # n /\ 3 # n /\ 4 # n)
    BY <2>1
  <2> QED  BY <2>2 DEF n
<1>2. CASE Len(d) = 1
  <2>1. ~ Headed(t, d)
    BY <1>2 DEF Headed, Header
  <2>2. g[Len(d)] \in {R(t, 0, ctl), Halt(t, 0, ctl)} /\ 0 # Len(Paths[t])
    BY <1>1, <1>2, <1>15
  <2> QED  BY <2>1, <2>2, EndsEarly
<1>3. ASSUME Len(d) >= 2 PROVE g[2] = R(t, 1, ctl)
  <2>1. 2 \in 1 .. Len(d) /\ g[2 - 1] = R(t, 0, ctl) /\ 0 < Len(Paths[t])
        /\ Entered(t, 0) \notin DOMAIN Loops
    BY <1>1, <1>3, Unlooped
  <2>2. g[2] = IF Accepts(Paths[t][0 + 1], d[2])
               THEN R(t, 0 + 1, Saved(ctl, Paths[t][0 + 1], d, 2)) ELSE Halt(t, 0, ctl)
    BY <2>1, Passes
  <2>3. Paths[t][0 + 1] = "tautology" /\ 0 + 1 = 1
    BY PathStarts
  <2>4. Saved(ctl, "tautology", d, 2) = ctl
    BY SavedIs DEF Idle
  <2> QED  BY <1>0, <2>2, <2>3, <2>4
<1>4. CASE Len(d) = 2
  <2>1. ~ Headed(t, d)
    BY <1>4 DEF Headed, Header
  <2>2. g[Len(d)] \in {R(t, 1, ctl), Halt(t, 1, ctl)} /\ 1 # Len(Paths[t])
    BY <1>3, <1>4, <1>15
  <2> QED  BY <2>1, <2>2, EndsEarly
<1> DEFINE id == Saved(ctl, "saveID", d, 3)
           status == Saved(id, "saveStatus", d, 4)
           ref == Saved(status, "saveReplyID", d, 6)
<1>5. ASSUME Len(d) >= 3 PROVE g[3] = R(t, 2, id)
  <2>1. 3 \in 1 .. Len(d) /\ g[3 - 1] = R(t, 1, ctl) /\ 1 < Len(Paths[t])
        /\ Entered(t, 1) \notin DOMAIN Loops
    BY <1>3, <1>5, Unlooped
  <2>2. g[3] = IF Accepts(Paths[t][1 + 1], d[3])
               THEN R(t, 1 + 1, Saved(ctl, Paths[t][1 + 1], d, 3)) ELSE Halt(t, 1, ctl)
    BY <2>1, Passes
  <2>3. Paths[t][1 + 1] = "saveID" /\ 1 + 1 = 2
    BY PathStarts
  <2> QED  BY <1>0, <2>2, <2>3
<1>6. CASE Len(d) >= 3 /\ t # "REPLY"
  <2>1. Headed(t, d) /\ Header(t) = 3 /\ Before(t) = 2 /\ Heading(t, ctl, d) = id
    BY <1>6 DEF Headed, Header, Before, Heading
  <2> QED  BY <1>5, <1>6, <2>1
<1> HIDE DEF id
<1>7. CASE Len(d) = 3 /\ t = "REPLY"
  <2>1. ~ Headed(t, d)
    BY <1>7 DEF Headed, Header
  <2>2. g[Len(d)] \in {R(t, 2, id), Halt(t, 2, id)} /\ 2 # Len(Paths[t])
    BY <1>5, <1>7, <1>15
  <2> QED  BY <2>1, <2>2, EndsEarly
<1>8. ASSUME Len(d) >= 4, t = "REPLY"
      PROVE  g[4] = IF d[4] \in {0, 1} THEN R(t, 3, status) ELSE Halt(t, 2, id)
  <2>1. 4 \in 1 .. Len(d) /\ g[4 - 1] = R(t, 2, id) /\ 2 < Len(Paths[t])
        /\ Entered(t, 2) \notin DOMAIN Loops
    BY <1>5, <1>8, Unlooped
  <2>2. g[4] = IF Accepts(Paths[t][2 + 1], d[4])
               THEN R(t, 2 + 1, Saved(id, Paths[t][2 + 1], d, 4)) ELSE Halt(t, 2, id)
    BY <2>1, Passes
  <2>3. Paths[t][2 + 1] = "saveStatus" /\ 2 + 1 = 3
    BY <1>8, PathStarts
  <2>4. Accepts("saveStatus", d[4]) <=> d[4] \in {0, 1}
    BY AcceptsIs
  <2> QED  BY <2>2, <2>3, <2>4
<1>9. CASE Len(d) >= 4 /\ t = "REPLY" /\ d[4] \notin {0, 1}
  <2>1. ~ Headed(t, d)
    BY <1>9 DEF Headed
  <2>2. g[4] = Halt(t, 2, id) /\ 2 # Len(Paths[t]) /\ 4 \in 0 .. Len(d)
    BY <1>8, <1>9, <1>15
  <2> QED  BY <2>1, <2>2, HaltsEarly
<1> HIDE DEF status
<1>10. CASE Len(d) = 4 /\ t = "REPLY" /\ d[4] \in {0, 1}
  <2>1. ~ Headed(t, d)
    BY <1>10 DEF Headed, Header
  <2>2. g[Len(d)] \in {R(t, 3, status), Halt(t, 3, status)} /\ 3 # Len(Paths[t])
    BY <1>8, <1>10, <1>15
  <2> QED  BY <2>1, <2>2, EndsEarly
<1>11. ASSUME Len(d) >= 5, t = "REPLY", d[4] \in {0, 1} PROVE g[5] = R(t, 4, status)
  <2>1. 5 \in 1 .. Len(d) /\ g[5 - 1] = R(t, 3, status) /\ 3 < Len(Paths[t])
        /\ Entered(t, 3) \notin DOMAIN Loops
    BY <1>8, <1>11, Unlooped
  <2>2. g[5] = IF Accepts(Paths[t][3 + 1], d[5])
               THEN R(t, 3 + 1, Saved(status, Paths[t][3 + 1], d, 5)) ELSE Halt(t, 3, status)
    BY <2>1, Passes
  <2>3. Paths[t][3 + 1] = "tautology" /\ 3 + 1 = 4
    BY <1>11, PathStarts
  <2>4. Saved(status, "tautology", d, 5) = status
    BY SavedIs DEF Idle
  <2> QED  BY <1>0, <2>2, <2>3, <2>4
<1>12. CASE Len(d) = 5 /\ t = "REPLY" /\ d[4] \in {0, 1}
  <2>1. ~ Headed(t, d)
    BY <1>12 DEF Headed, Header
  <2>2. g[Len(d)] \in {R(t, 4, status), Halt(t, 4, status)} /\ 4 # Len(Paths[t])
    BY <1>11, <1>12, <1>15
  <2> QED  BY <2>1, <2>2, EndsEarly
<1>13. CASE Len(d) >= 6 /\ t = "REPLY" /\ d[4] \in {0, 1}
  <2>1. 6 \in 1 .. Len(d) /\ g[6 - 1] = R(t, 4, status) /\ 4 < Len(Paths[t])
        /\ Entered(t, 4) \notin DOMAIN Loops
    BY <1>11, <1>13, Unlooped
  <2>2. g[6] = IF Accepts(Paths[t][4 + 1], d[6])
               THEN R(t, 4 + 1, Saved(status, Paths[t][4 + 1], d, 6)) ELSE Halt(t, 4, status)
    BY <2>1, Passes
  <2>3. Paths[t][4 + 1] = "saveReplyID" /\ 4 + 1 = 5
    BY <1>13, PathStarts
  <2>4. g[6] = R(t, 5, ref)
    BY <1>0, <2>2, <2>3
  <2>5. Headed(t, d) /\ Header(t) = 6 /\ Before(t) = 5 /\ Heading(t, ctl, d) = ref
    BY <1>13 DEF Headed, Header, Before, Heading, status, id
  <2> QED  BY <2>4, <2>5
<1>14. \/ Len(d) = 1 \/ Len(d) = 2
       \/ Len(d) >= 3 /\ t # "REPLY"
       \/ Len(d) = 3 /\ t = "REPLY"
       \/ Len(d) >= 4 /\ t = "REPLY" /\ d[4] \notin {0, 1}
       \/ Len(d) = 4 /\ t = "REPLY" /\ d[4] \in {0, 1}
       \/ Len(d) = 5 /\ t = "REPLY" /\ d[4] \in {0, 1}
       \/ Len(d) >= 6 /\ t = "REPLY" /\ d[4] \in {0, 1}
  <2> DEFINE n == Len(d)
             good == d[4] \in {0, 1}
             reply == t = "REPLY"
  <2>1. n \in Nat /\ n >= 1
    OBVIOUS
  <2> HIDE DEF n, good, reply
  <2>2. /\ n = 1 \/ n = 2 \/ n >= 3
        /\ n = 1 \/ n = 2 \/ n = 3 \/ n >= 4
        /\ n = 1 \/ n = 2 \/ n = 3 \/ n = 4 \/ n = 5 \/ n >= 6
    BY <2>1
  <2>3. \/ n = 1 \/ n = 2
        \/ n >= 3 /\ ~ reply
        \/ n = 3 /\ reply
        \/ n >= 4 /\ reply /\ ~ good
        \/ n = 4 /\ reply /\ good
        \/ n = 5 /\ reply /\ good
        \/ n >= 6 /\ reply /\ good
    BY <2>2, Zenon
  <2> QED  BY <2>3 DEF n, good, reply
<1> QED  BY <1>2, <1>4, <1>6, <1>7, <1>9, <1>10, <1>12, <1>13, <1>14

-----------------------------------------------------------------------------
(* Where a string ends *)

LEMMA MinIs ==
    ASSUME NEW S, NEW x \in S, S \subseteq Int, \A y \in S : x <= y
    PROVE  Min(S) = x
<1>1. x \in Int /\ \A y \in S : (\A z \in S : y <= z) => y = x
  <2> SUFFICES ASSUME NEW y \in S, \A z \in S : y <= z PROVE y = x
    OBVIOUS
  <2>1. x \in Int /\ y \in Int /\ x <= y /\ y <= x
    OBVIOUS
  <2> QED  BY <2>1
<1> QED  BY <1>1 DEF Min

\* A set of natural numbers has a least one.
LEMMA HasMin ==
    ASSUME NEW S \in SUBSET Nat, S # {}
    PROVE  Min(S) \in S /\ \A y \in S : Min(S) <= y
<1>1. PICK m \in S : \A n \in S : ~ (<<n, m>> \in OpToRel(<, Nat))
  BY NatLessThanWellFounded, WFMin
<1>2. \A n \in S : ~ (n < m)
  BY <1>1 DEF OpToRel
<1>3. \A n \in S : m <= n
  <2> TAKE n \in S
  <2>1. n \in Nat /\ m \in Nat /\ ~ (n < m)
    BY <1>2
  <2> QED  BY <2>1
<1>4. S \subseteq Int
  OBVIOUS
<1>5. Min(S) = m
  BY <1>3, <1>4, MinIs
<1> QED  BY <1>3, <1>5

LEMMA EndIs ==
    ASSUME NEW d, Len(d) \in Nat, NEW i \in 1 .. Len(d) + 1
    PROVE  /\ End(d, i) \in i .. Len(d) + 1
           /\ \A j \in i .. End(d, i) - 1 : d[j] # NUL
           /\ End(d, i) <= Len(d) => d[End(d, i)] = NUL
<1> DEFINE n == Len(d)
           S == {z \in i .. n : d[z] = NUL} \cup {n + 1}
           e == End(d, i)
<1>1. S \in SUBSET Nat /\ S # {} /\ e = Min(S)
  BY DEF End
<1> HIDE DEF S
<1>2. e \in S /\ \A y \in S : e <= y
  BY <1>1, HasMin
<1> HIDE DEF e, n
<1>3. n \in Nat /\ i \in 1 .. n + 1
  BY DEF n
<1>4. e \in i .. n + 1 /\ (e <= n => d[e] = NUL)
  BY <1>2, <1>3 DEF S
<1>5. ASSUME NEW j \in i .. e - 1 PROVE d[j] # NUL
  <2>1. j \in i .. n /\ ~ (e <= j)
    BY <1>3, <1>4
  <2>2. j \notin S
    BY <1>2, <2>1
  <2> QED  BY <2>1, <2>2 DEF S
<1> QED  BY <1>4, <1>5 DEF e, n

\* The only such place.
LEMMA EndFound ==
    ASSUME NEW d, Len(d) \in Nat, NEW i \in 1 .. Len(d), NEW e \in i .. Len(d),
           d[e] = NUL, \A j \in i .. e - 1 : d[j] # NUL
    PROVE  End(d, i) = e
<1> DEFINE z == End(d, i)
<1>1. z \in i .. Len(d) + 1 /\ (\A j \in i .. z - 1 : d[j] # NUL) /\ (z <= Len(d) => d[z] = NUL)
  <2>1. i \in 1 .. Len(d) + 1
    OBVIOUS
  <2> QED  BY <2>1, EndIs
<1> HIDE DEF z
<1>2. ~ (z < e)
  <2> SUFFICES ASSUME z < e PROVE FALSE
    OBVIOUS
  <2>1. z \in i .. e - 1 /\ z <= Len(d)
    BY <1>1
  <2> QED  BY <1>1, <2>1
<1>3. ~ (e < z)
  <2> SUFFICES ASSUME e < z PROVE FALSE
    OBVIOUS
  <2>1. e \in i .. z - 1
    BY <1>1
  <2> QED  BY <1>1, <2>1
<1>4. z = e
  BY <1>1, <1>2, <1>3
<1> QED  BY <1>4 DEF z

LEMMA SavesString ==
    ASSUME NEW d, Len(d) \in Nat, NEW i \in 1 .. Len(d), End(d, i) <= Len(d)
    PROVE  SaveString(d, i) = SubSeq(d, i, End(d, i) - 1)
<1> DEFINE e == End(d, i)
           S == {z \in i .. Len(d) : d[z] = NUL}
<1>1. /\ e \in i .. Len(d) + 1 /\ (\A j \in i .. e - 1 : d[j] # NUL)
      /\ e <= Len(d) /\ (e <= Len(d) => d[e] = NUL)
  <2>1. i \in 1 .. Len(d) + 1
    OBVIOUS
  <2> QED  BY <2>1, EndIs
<1> HIDE DEF e
<1>2. e \in i .. Len(d) /\ d[e] = NUL
  BY <1>1
<1>3. e \in S /\ S \subseteq Int
  BY <1>2
<1>4. ASSUME NEW y \in S PROVE e <= y
  <2> SUFFICES ASSUME ~ (e <= y) PROVE FALSE
    OBVIOUS
  <2>1. y \in i .. e - 1 /\ d[y] = NUL
    BY <1>2
  <2> QED  BY <1>1, <2>1
<1>5. Min(S) = e
  <2> HIDE DEF S
  <2> QED  BY <1>3, <1>4, MinIs
<1>6. SaveString(d, i) = SubSeq(d, i, Min(S) - 1)
  BY <1>2 DEF SaveString
<1> QED  BY <1>5, <1>6 DEF e

-----------------------------------------------------------------------------
(* One string of a datagram *)

\* What its first character may be.
FirstChars(lambda) == IF lambda = "saveChannel" THEN NameChars ELSE Printable

Clean(d, i, j, lambda) ==
    /\ i <= j /\ d[i] \in FirstChars(lambda)
    /\ \A k \in i + 1 .. j : d[k] \in Loops[lambda]

\* Between the lambdas p and p + 2 of a type, a string is read.
IsField(t, p, lambda) ==
    /\ t \in Types /\ p \in Nat /\ p + 2 <= Len(Paths[t])
    /\ Entered(t, p) \notin DOMAIN Loops
    /\ lambda \in DOMAIN Loops /\ Paths[t][p + 1] = lambda /\ Paths[t][p + 2] = "scanZero"

LEMMA FirstAccepted ==
    ASSUME NEW lambda \in DOMAIN Loops, NEW c
    PROVE  /\ Accepts(lambda, c) <=> c \in FirstChars(lambda)
           /\ NUL \notin FirstChars(lambda) /\ NUL \notin Loops[lambda]
<1>1. CASE lambda = "saveChannel"
  <2>1. Accepts(lambda, c) <=> c \in NameChars
    BY <1>1, AcceptsIs
  <2> QED  BY <1>1, <2>1, LoopsAre DEF FirstChars
<1>2. CASE lambda \in Typed
  <2>1. Accepts(lambda, c) <=> c \in Printable
    BY <1>2, AcceptsIs
  <2>2. lambda # "saveChannel"
    BY <1>2 DEF Typed
  <2>3. NUL \notin Loops[lambda]
    BY <1>2, LoopsAre DEF Typed
  <2> QED  BY <2>1, <2>2, <2>3, LoopsAre DEF FirstChars
<1> QED  BY <1>1, <1>2, LoopsAre

\* The first character of a string.
LEMMA FieldBegins ==
    ASSUME NEW g, NEW ctl, NEW d, Len(d) \in Nat, IsRun(g, ctl, d), NEW e \in 1 .. Len(d),
           NEW t, NEW p, NEW lambda, IsField(t, p, lambda), NEW c, g[e] = R(t, p, c), e < Len(d)
    PROVE  g[e + 1] = IF d[e + 1] \in FirstChars(lambda)
                      THEN R(t, p + 1, Saved(c, lambda, d, e + 1)) ELSE Halt(t, p, c)
<1> DEFINE k == e + 1
<1>1. t \in Types /\ p < Len(Paths[t]) /\ Entered(t, p) \notin DOMAIN Loops
      /\ Paths[t][p + 1] = lambda
  <2> DEFINE n == Len(Paths[t])
  <2>1. p \in Nat /\ p + 2 <= n /\ n \in Nat
    BY PathType DEF IsField
  <2> HIDE DEF n
  <2>2. p < n
    BY <2>1
  <2> QED  BY <2>2 DEF IsField, n
<1>2. k \in 1 .. Len(d) /\ k - 1 = e
  OBVIOUS
<1> HIDE DEF k
<1>3. g[k - 1] = R(t, p, c)
  BY <1>2
<1>4. g[k] = IF Accepts(Paths[t][p + 1], d[k])
             THEN R(t, p + 1, Saved(c, Paths[t][p + 1], d, k)) ELSE Halt(t, p, c)
  BY <1>1, <1>2, <1>3, Passes
<1>5. Accepts(lambda, d[k]) <=> d[k] \in FirstChars(lambda)
  <2>1. lambda \in DOMAIN Loops
    BY DEF IsField
  <2> QED  BY <2>1, FirstAccepted
<1>6. g[k] = IF d[k] \in FirstChars(lambda)
             THEN R(t, p + 1, Saved(c, lambda, d, k)) ELSE Halt(t, p, c)
  BY <1>1, <1>4, <1>5
<1> QED  BY <1>6 DEF k

\* A character within a string.
LEMMA FieldStep ==
    ASSUME NEW t, NEW p, NEW lambda, IsField(t, p, lambda), NEW c, NEW d, NEW i
    PROVE  Step(R(t, p + 1, c), d, i) =
             IF d[i] \in Loops[lambda] THEN R(t, p + 1, c)
             ELSE IF d[i] = NUL THEN R(t, p + 2, c) ELSE Halt(t, p + 1, c)
<1> DEFINE q == p + 1
           n == Len(Paths[t])
<1>1. /\ t \in Types /\ p \in Nat /\ p + 2 <= n /\ n \in Nat /\ Paths[t][p + 1] = lambda
      /\ Paths[t][p + 2] = "scanZero" /\ lambda \in DOMAIN Loops
  BY PathType DEF IsField
<1>2. q # 0 /\ q + 1 = p + 2 /\ q < n
  <2> HIDE DEF n
  <2> QED  BY <1>1
<1> HIDE DEF q
<1>3. Paths[t][q] = lambda /\ Paths[t][q + 1] = "scanZero"
  BY <1>1, <1>2 DEF q
<1>4. Entered(t, q) = lambda
  BY <1>2, <1>3 DEF Entered
<1>5. Stays(t, q, d[i]) <=> d[i] \in Loops[lambda]
  BY <1>1, <1>4 DEF Stays
<1>6. Leaves(t, q, d[i]) <=> d[i] = NUL
  <2>1. Accepts("scanZero", d[i]) <=> d[i] = NUL
    BY AcceptsIs
  <2> QED  BY <1>2, <1>3, <2>1 DEF Leaves
<1>7. Saved(c, "scanZero", d, i) = c
  BY SavedIs DEF Idle
<1>8. t \in DOMAIN Paths
  BY <1>1, TypesAre
<1>9. Step(R(t, q, c), d, i) =
        IF Stays(t, q, d[i]) THEN R(t, q, c)
        ELSE IF Leaves(t, q, d[i])
        THEN R(t, q + 1, Saved(c, Paths[t][q + 1], d, i))
        ELSE Halt(t, q, c)
  BY <1>8, StepTaken
<1>10. Step(R(t, q, c), d, i) =
         IF d[i] \in Loops[lambda] THEN R(t, q, c)
         ELSE IF d[i] = NUL THEN R(t, q + 1, c) ELSE Halt(t, q, c)
  BY <1>3, <1>5, <1>6, <1>7, <1>9
<1> QED  BY <1>2, <1>10 DEF q

\* The characters of a string up to a position.
LEMMA FieldGoesOn ==
    ASSUME NEW g, NEW ctl, NEW d, Len(d) \in Nat, IsRun(g, ctl, d), NEW i \in 1 .. Len(d),
           NEW z \in i .. Len(d), \A j \in i .. z : d[j] # NUL,
           NEW t, NEW p, NEW lambda, IsField(t, p, lambda), NEW c, g[i] = R(t, p + 1, c)
    PROVE  g[z] = IF \A k \in i + 1 .. z : d[k] \in Loops[lambda]
                  THEN R(t, p + 1, c) ELSE Halt(t, p + 1, c)
<1> DEFINE G(j) == \A k \in i + 1 .. j : d[k] \in Loops[lambda]
           T == {j \in i .. z : g[j] = IF G(j) THEN R(t, p + 1, c) ELSE Halt(t, p + 1, c)}
<1>1. i \in T
  <2>1. G(i) /\ i \in i .. z
    OBVIOUS
  <2> HIDE DEF G
  <2> QED  BY <2>1
<1>2. ASSUME NEW j \in i + 1 .. z, j - 1 \in T PROVE j \in T
  <2>1. /\ j \in 1 .. Len(d) /\ j \in i .. z
        /\ g[j - 1] = IF G(j - 1) THEN R(t, p + 1, c) ELSE Halt(t, p + 1, c)
    BY <1>2
  <2>2. g[j] = Step(g[j - 1], d, j)
    BY <2>1 DEF IsRun
  <2>3. G(j) <=> G(j - 1) /\ d[j] \in Loops[lambda]
    <3>1. i + 1 .. j = (i + 1 .. j - 1) \cup {j}
      OBVIOUS
    <3> QED  BY <3>1
  <2> HIDE DEF G
  <2>4. d[j] # NUL
    BY <2>1
  <2>5. Step(R(t, p + 1, c), d, j) =
          IF d[j] \in Loops[lambda] THEN R(t, p + 1, c)
          ELSE IF d[j] = NUL THEN R(t, p + 2, c) ELSE Halt(t, p + 1, c)
    BY FieldStep
  <2>6. Step(Halt(t, p + 1, c), d, j) = Halt(t, p + 1, c)
    BY StepStopped
  <2>7. g[j] = IF G(j) THEN R(t, p + 1, c) ELSE Halt(t, p + 1, c)
    BY <2>1, <2>2, <2>3, <2>4, <2>5, <2>6
  <2> QED  BY <2>1, <2>7
<1> HIDE DEF T
<1>3. i \in Int /\ z \in Int /\ z \in i .. z
  OBVIOUS
<1>4. \A j \in i .. z : j \in T
  BY <1>1, <1>2, <1>3, Induction
<1>5. z \in T
  BY <1>3, <1>4
<1> QED  BY <1>5 DEF T

LEMMA FieldEnds ==
    ASSUME NEW g, NEW ctl, NEW d, Len(d) \in Nat, IsRun(g, ctl, d), NEW i \in 1 .. Len(d),
           NEW t, NEW p, NEW lambda, IsField(t, p, lambda), NEW c, g[i] = R(t, p + 1, c),
           d[i] \in FirstChars(lambda)
    PROVE  IF End(d, i) <= Len(d) /\ Clean(d, i, End(d, i) - 1, lambda)
           THEN g[End(d, i)] = R(t, p + 2, c) ELSE ~ Terminal(g[Len(d)])
<1> DEFINE z == End(d, i)
           n == Len(d)
           G == \A k \in i + 1 .. z - 1 : d[k] \in Loops[lambda]
           m == Len(Paths[t])
<1>0. lambda \in DOMAIN Loops /\ t \in Types /\ p \in Nat /\ p + 2 <= m /\ m \in Nat
  BY PathType DEF IsField
<1>1. /\ z \in i .. n + 1 /\ (\A j \in i .. z - 1 : d[j] # NUL) /\ (z <= n => d[z] = NUL)
  <2>1. i \in 1 .. n + 1
    OBVIOUS
  <2> QED  BY <2>1, EndIs
<1>2. p + 1 # m
  <2> HIDE DEF m
  <2> QED  BY <1>0
<1>3. NUL \notin FirstChars(lambda) /\ NUL \notin Loops[lambda]
  BY <1>0, FirstAccepted
<1> HIDE DEF z, m, G
<1>4. z # i
  <2> SUFFICES ASSUME z = i PROVE FALSE
    OBVIOUS
  <2> QED  BY <1>1, <1>3
<1>5. z - 1 \in i .. n /\ z - 1 \in 0 .. n
  BY <1>1, <1>4
<1>6. Clean(d, i, z - 1, lambda) <=> G
  BY <1>5 DEF Clean, G
<1> DEFINE y == z - 1
<1>7. y \in i .. n /\ \A j \in i .. y : d[j] # NUL
  BY <1>1, <1>5
<1>8. G <=> \A k \in i + 1 .. y : d[k] \in Loops[lambda]
  BY DEF G
<1>14. z = y + 1
  BY <1>1
<1> HIDE DEF y, n
<1>9. n \in Nat /\ n = Len(d)
  BY DEF n
<1>10. g[y] = IF G THEN R(t, p + 1, c) ELSE Halt(t, p + 1, c)
  BY <1>7, <1>8, <1>9, FieldGoesOn
<1>11. CASE ~ G
  <2>1. g[y] = Halt(t, p + 1, c) /\ y \in 0 .. n
    BY <1>7, <1>10, <1>11, <1>9
  <2>2. ~ Terminal(g[n])
    BY <1>0, <1>2, <1>9, <2>1, HaltsEarly DEF m
  <2> QED  BY <1>6, <1>9, <1>11, <2>2 DEF z
<1>12. CASE G /\ z = n + 1
  <2>1. g[n] \in {R(t, p + 1, c), Halt(t, p + 1, c)}
    <3>1. y = n
      BY <1>7, <1>9, <1>12, <1>14
    <3> QED  BY <1>10, <1>12, <3>1
  <2>2. ~ Terminal(g[n])
    BY <1>0, <1>2, <1>9, <2>1, EndsEarly DEF m
  <2>3. ~ (z <= n)
    BY <1>9, <1>12
  <2> QED  BY <1>9, <2>2, <2>3 DEF z
<1>13. CASE G /\ z <= n
  <2>1. z \in 1 .. n /\ z - 1 = y
    BY <1>7, <1>9, <1>13, <1>14
  <2>2. g[z] = Step(g[y], d, z)
    BY <1>9, <2>1 DEF IsRun
  <2>3. Step(R(t, p + 1, c), d, z) =
          IF d[z] \in Loops[lambda] THEN R(t, p + 1, c)
          ELSE IF d[z] = NUL THEN R(t, p + 2, c) ELSE Halt(t, p + 1, c)
    BY FieldStep
  <2>4. d[z] = NUL /\ d[z] \notin Loops[lambda]
    BY <1>1, <1>3, <1>13
  <2>5. g[z] = R(t, p + 2, c)
    BY <1>10, <1>13, <2>2, <2>3, <2>4
  <2> QED  BY <1>6, <1>9, <1>13, <2>5 DEF z
<1>15. z = n + 1 \/ z <= n
  BY <1>1, <1>9
<1> QED  BY <1>11, <1>12, <1>13, <1>15

LEMMA Field ==
    ASSUME NEW g, NEW ctl, NEW d, Len(d) \in Nat, IsRun(g, ctl, d), NEW e \in 1 .. Len(d),
           NEW t, NEW p, NEW lambda, IsField(t, p, lambda), NEW c, g[e] = R(t, p, c)
    PROVE  IF End(d, e + 1) <= Len(d) /\ Clean(d, e + 1, End(d, e + 1) - 1, lambda)
           THEN g[End(d, e + 1)] = R(t, p + 2, Saved(c, lambda, d, e + 1))
           ELSE ~ Terminal(g[Len(d)])
<1> DEFINE i == e + 1
           m == Len(Paths[t])
<1>0. lambda \in DOMAIN Loops /\ t \in Types /\ p \in Nat /\ p + 2 <= m /\ m \in Nat
  BY PathType DEF IsField
<1>1. p # m
  <2> HIDE DEF m
  <2> QED  BY <1>0
<1>2. CASE e = Len(d)
  <2>1. i \in 1 .. Len(d) + 1 /\ ~ (i <= Len(d))
    BY <1>2
  <2>2. End(d, i) \in i .. Len(d) + 1
    BY <2>1, EndIs
  <2>3. ~ (End(d, i) <= Len(d))
    BY <2>1, <2>2
  <2>4. g[Len(d)] \in {R(t, p, c), Halt(t, p, c)}
    BY <1>2
  <2>5. ~ Terminal(g[Len(d)])
    BY <1>0, <1>1, <2>4, EndsEarly
  <2> QED  BY <2>3, <2>5
<1>3. ASSUME e < Len(d)
      PROVE  /\ i \in 1 .. Len(d)
             /\ g[i] = IF d[i] \in FirstChars(lambda)
                       THEN R(t, p + 1, Saved(c, lambda, d, i)) ELSE Halt(t, p, c)
  BY <1>3, FieldBegins
<1> HIDE DEF i, m
<1>4. CASE e < Len(d) /\ d[i] \notin FirstChars(lambda)
  <2>1. g[i] = Halt(t, p, c) /\ i \in 0 .. Len(d)
    BY <1>3, <1>4
  <2>2. ~ Terminal(g[Len(d)])
    BY <1>0, <1>1, <2>1, HaltsEarly DEF m
  <2>3. ~ Clean(d, i, End(d, i) - 1, lambda)
    BY <1>4 DEF Clean
  <2> QED  BY <2>2, <2>3 DEF i
<1>5. CASE e < Len(d) /\ d[i] \in FirstChars(lambda)
  <2> DEFINE c2 == Saved(c, lambda, d, i)
  <2>1. i \in 1 .. Len(d) /\ g[i] = R(t, p + 1, c2) /\ d[i] \in FirstChars(lambda)
    BY <1>3, <1>5
  <2> HIDE DEF c2
  <2>2. IF End(d, i) <= Len(d) /\ Clean(d, i, End(d, i) - 1, lambda)
        THEN g[End(d, i)] = R(t, p + 2, c2) ELSE ~ Terminal(g[Len(d)])
    BY <2>1, FieldEnds
  <2> QED  BY <2>2 DEF c2, i
<1> QED  BY <1>2, <1>4, <1>5

-----------------------------------------------------------------------------
(* The strings of a datagram, one after the other *)

\* A string that begins at position i is ended, and has the right characters.
Sound(d, i, lambda) == End(d, i) <= Len(d) /\ Clean(d, i, End(d, i) - 1, lambda)

\* The run has passed every lambda of a type.
Stop(g, d, t, c) ==
    g[Len(d)] \in {R(t, Len(Paths[t]), c), Halt(t, Len(Paths[t]), c)}

LEMMA Fields1 ==
    ASSUME NEW g, NEW ctl, NEW d, Len(d) \in Nat, IsRun(g, ctl, d), NEW e \in 1 .. Len(d),
           NEW t, NEW p, NEW lambda, IsField(t, p, lambda), p + 2 = Len(Paths[t]),
           NEW c, g[e] = R(t, p, c)
    PROVE  IF Sound(d, e + 1, lambda) THEN Stop(g, d, t, Saved(c, lambda, d, e + 1))
           ELSE ~ Terminal(g[Len(d)])
<1> DEFINE z == End(d, e + 1)
           s == Saved(c, lambda, d, e + 1)
<1>1. IF z <= Len(d) /\ Clean(d, e + 1, z - 1, lambda) THEN g[z] = R(t, p + 2, s)
      ELSE ~ Terminal(g[Len(d)])
  BY Field
<1>2. z \in e + 1 .. Len(d) + 1
  <2>1. e + 1 \in 1 .. Len(d) + 1
    OBVIOUS
  <2> QED  BY <2>1, EndIs
<1>3. Sound(d, e + 1, lambda) <=> z <= Len(d) /\ Clean(d, e + 1, z - 1, lambda)
  BY DEF Sound
<1>4. t \in Types
  BY DEF IsField
<1> HIDE DEF z, s
<1>5. CASE z <= Len(d) /\ Clean(d, e + 1, z - 1, lambda)
  <2>1. z \in 0 .. Len(d) /\ g[z] = R(t, Len(Paths[t]), s)
    BY <1>1, <1>2, <1>5
  <2>2. Stop(g, d, t, s)
    BY <1>4, <2>1, FinalStays DEF Stop
  <2> QED  BY <1>3, <1>5, <2>2 DEF s
<1>6. CASE ~ (z <= Len(d) /\ Clean(d, e + 1, z - 1, lambda))
  BY <1>1, <1>3, <1>6
<1> QED  BY <1>5, <1>6

LEMMA Fields2 ==
    ASSUME NEW g, NEW ctl, NEW d, Len(d) \in Nat, IsRun(g, ctl, d), NEW e \in 1 .. Len(d),
           NEW t, NEW p, NEW l1, NEW l2, IsField(t, p, l1), IsField(t, p + 2, l2),
           p + 4 = Len(Paths[t]), NEW c, g[e] = R(t, p, c)
    PROVE  IF Sound(d, e + 1, l1) /\ Sound(d, End(d, e + 1) + 1, l2)
           THEN Stop(g, d, t, Saved(Saved(c, l1, d, e + 1), l2, d, End(d, e + 1) + 1))
           ELSE ~ Terminal(g[Len(d)])
<1> DEFINE z == End(d, e + 1)
           s == Saved(c, l1, d, e + 1)
           q == p + 2
<1>1. IF z <= Len(d) /\ Clean(d, e + 1, z - 1, l1) THEN g[z] = R(t, q, s)
      ELSE ~ Terminal(g[Len(d)])
  BY Field
<1>2. z \in e + 1 .. Len(d) + 1
  <2>1. e + 1 \in 1 .. Len(d) + 1
    OBVIOUS
  <2> QED  BY <2>1, EndIs
<1>3. Sound(d, e + 1, l1) <=> z <= Len(d) /\ Clean(d, e + 1, z - 1, l1)
  BY DEF Sound
<1>4. q + 2 = Len(Paths[t]) /\ IsField(t, q, l2)
  <2>1. p \in Nat
    BY DEF IsField
  <2> QED  BY <2>1
<1> HIDE DEF z, s, q
<1>5. CASE z <= Len(d) /\ Clean(d, e + 1, z - 1, l1)
  <2>1. z \in 1 .. Len(d) /\ g[z] = R(t, q, s)
    BY <1>1, <1>2, <1>5
  <2>2. IF Sound(d, z + 1, l2) THEN Stop(g, d, t, Saved(s, l2, d, z + 1))
        ELSE ~ Terminal(g[Len(d)])
    BY <1>4, <2>1, Fields1
  <2> QED  BY <1>3, <1>5, <2>2 DEF s, z
<1>6. CASE ~ (z <= Len(d) /\ Clean(d, e + 1, z - 1, l1))
  BY <1>1, <1>3, <1>6
<1> QED  BY <1>5, <1>6

LEMMA Fields3 ==
    ASSUME NEW g, NEW ctl, NEW d, Len(d) \in Nat, IsRun(g, ctl, d), NEW e \in 1 .. Len(d),
           NEW t, NEW p, NEW l1, NEW l2, NEW l3, IsField(t, p, l1), IsField(t, p + 2, l2),
           IsField(t, p + 4, l3), p + 6 = Len(Paths[t]), NEW c, g[e] = R(t, p, c)
    PROVE  IF /\ Sound(d, e + 1, l1) /\ Sound(d, End(d, e + 1) + 1, l2)
              /\ Sound(d, End(d, End(d, e + 1) + 1) + 1, l3)
           THEN Stop(g, d, t, Saved(Saved(Saved(c, l1, d, e + 1), l2, d, End(d, e + 1) + 1),
                                    l3, d, End(d, End(d, e + 1) + 1) + 1))
           ELSE ~ Terminal(g[Len(d)])
<1> DEFINE z == End(d, e + 1)
           s == Saved(c, l1, d, e + 1)
           q == p + 2
<1>1. IF z <= Len(d) /\ Clean(d, e + 1, z - 1, l1) THEN g[z] = R(t, q, s)
      ELSE ~ Terminal(g[Len(d)])
  BY Field
<1>2. z \in e + 1 .. Len(d) + 1
  <2>1. e + 1 \in 1 .. Len(d) + 1
    OBVIOUS
  <2> QED  BY <2>1, EndIs
<1>3. Sound(d, e + 1, l1) <=> z <= Len(d) /\ Clean(d, e + 1, z - 1, l1)
  BY DEF Sound
<1>4. q + 4 = Len(Paths[t]) /\ IsField(t, q, l2) /\ IsField(t, q + 2, l3)
  <2>1. p \in Nat
    BY DEF IsField
  <2>2. q + 2 = p + 4 /\ q + 4 = p + 6
    BY <2>1
  <2> QED  BY <2>2
<1> HIDE DEF z, s, q
<1>5. CASE z <= Len(d) /\ Clean(d, e + 1, z - 1, l1)
  <2>1. z \in 1 .. Len(d) /\ g[z] = R(t, q, s)
    BY <1>1, <1>2, <1>5
  <2>2. IF Sound(d, z + 1, l2) /\ Sound(d, End(d, z + 1) + 1, l3)
        THEN Stop(g, d, t, Saved(Saved(s, l2, d, z + 1), l3, d, End(d, z + 1) + 1))
        ELSE ~ Terminal(g[Len(d)])
    BY <1>4, <2>1, Fields2
  <2> QED  BY <1>3, <1>5, <2>2 DEF s, z
<1>6. CASE ~ (z <= Len(d) /\ Clean(d, e + 1, z - 1, l1))
  BY <1>1, <1>3, <1>6
<1> QED  BY <1>5, <1>6

-----------------------------------------------------------------------------
(* The layout that a datagram holds *)

CharsOf(lambda) == <<FirstChars(lambda), Loops[lambda]>>

LEMMA CharsAre ==
    /\ CharsOf("saveDispName") = <<Printable, Printable>>
    /\ CharsOf("saveContent") = <<Printable, Printable>>
    /\ CharsOf("saveUsername") = <<Printable, NameChars>>
    /\ CharsOf("saveSecret") = <<Printable, NameChars>>
    /\ CharsOf("saveChannel") = <<NameChars, NameChars>>
<1>1. /\ Loops["saveContent"] = Printable /\ Loops["saveDispName"] = Printable
      /\ Loops["saveUsername"] = NameChars /\ Loops["saveSecret"] = NameChars
      /\ Loops["saveChannel"] = NameChars
  BY LoopsAre
<1>2. /\ FirstChars("saveContent") = Printable /\ FirstChars("saveDispName") = Printable
      /\ FirstChars("saveUsername") = Printable /\ FirstChars("saveSecret") = Printable
      /\ FirstChars("saveChannel") = NameChars
  BY DEF FirstChars
<1> QED  BY <1>1, <1>2 DEF CharsOf

LEMMA FieldCharsAre ==
    ASSUME NEW t \in Types
    PROVE  /\ t \in {"CONFIRM", "PING"} => FieldChars(t) = <<>>
           /\ t = "BYE" => FieldChars(t) = <<CharsOf("saveDispName")>>
           /\ t = "REPLY" => FieldChars(t) = <<CharsOf("saveContent")>>
           /\ t \in {"MSG", "ERR"} =>
                FieldChars(t) = <<CharsOf("saveDispName"), CharsOf("saveContent")>>
           /\ t = "JOIN" => FieldChars(t) = <<CharsOf("saveChannel"), CharsOf("saveDispName")>>
           /\ t = "AUTH" => FieldChars(t) = <<CharsOf("saveUsername"), CharsOf("saveDispName"),
                                              CharsOf("saveSecret")>>
<1>1. ASSUME t \in {"CONFIRM", "PING"} PROVE FieldChars(t) = <<>>
  <2>1. /\ t \notin {"MSG", "ERR"} /\ t # "AUTH" /\ t # "JOIN" /\ t \notin {"BYE", "REPLY"}
    BY <1>1
  <2> QED  BY <2>1, Zenon DEF FieldChars
<1>2. ASSUME t = "BYE" PROVE FieldChars(t) = <<CharsOf("saveDispName")>>
  <2>1. FieldChars(t) = <<<<Printable, Printable>>>>
    BY <1>2 DEF FieldChars
  <2> QED  BY <2>1, CharsAre
<1>3. ASSUME t = "REPLY" PROVE FieldChars(t) = <<CharsOf("saveContent")>>
  <2>1. FieldChars(t) = <<<<Printable, Printable>>>>
    BY <1>3 DEF FieldChars
  <2> QED  BY <2>1, CharsAre
<1>4. ASSUME t \in {"MSG", "ERR"}
      PROVE  FieldChars(t) = <<CharsOf("saveDispName"), CharsOf("saveContent")>>
  <2>1. FieldChars(t) = <<<<Printable, Printable>>, <<Printable, Printable>>>>
    BY <1>4 DEF FieldChars
  <2> QED  BY <2>1, CharsAre
<1>5. ASSUME t = "JOIN" PROVE FieldChars(t) = <<CharsOf("saveChannel"), CharsOf("saveDispName")>>
  <2>1. FieldChars(t) = <<<<NameChars, NameChars>>, <<Printable, Printable>>>>
    BY <1>5 DEF FieldChars
  <2> QED  BY <2>1, CharsAre
<1>6. ASSUME t = "AUTH"
      PROVE  FieldChars(t) = <<CharsOf("saveUsername"), CharsOf("saveDispName"),
                               CharsOf("saveSecret")>>
  <2>1. FieldChars(t) = <<<<Printable, NameChars>>, <<Printable, Printable>>,
                          <<Printable, NameChars>>>>
    BY <1>6 DEF FieldChars
  <2> QED  BY <2>1, CharsAre
<1> QED  BY <1>1, <1>2, <1>3, <1>4, <1>5, <1>6

\* What is read as a string is what the layout allows for it.
LEMMA SoundIs ==
    ASSUME NEW d \in Seq(Int), NEW i \in 1 .. Len(d) + 1, NEW lambda
    PROVE  Sound(d, i, lambda) <=>
             /\ End(d, i) <= Len(d)
             /\ Allowed(SubSeq(d, i, End(d, i) - 1), CharsOf(lambda))
<1> SUFFICES ASSUME End(d, i) <= Len(d)
             PROVE  Clean(d, i, End(d, i) - 1, lambda) <=>
                      Allowed(SubSeq(d, i, End(d, i) - 1), CharsOf(lambda))
  BY DEF Sound
<1> DEFINE y == End(d, i) - 1
           s == SubSeq(d, i, y)
           first == FirstChars(lambda)
           others == Loops[lambda]
<1>1. Len(d) \in Nat
  BY SeqType
<1>2. End(d, i) \in i .. Len(d) + 1
  BY <1>1, EndIs
<1>3. i \in Int /\ 1 <= i /\ y \in Int /\ y <= Len(d) /\ i - 1 <= y
  BY <1>1, <1>2
<1> HIDE DEF y, first, others
<1>4. /\ s \in Seq(Int) /\ Len(s) = IF i <= y THEN y - i + 1 ELSE 0
      /\ \A k \in 1 .. y - i + 1 : s[k] = d[i + k - 1]
  BY <1>3, Piece
<1> HIDE DEF s
<1>5. Len(s) = y - i + 1
  BY <1>3, <1>4
<1>6. s # <<>> <=> i <= y
  <2>1. s = <<>> <=> Len(s) = 0
    BY <1>4, SeqType
  <2> QED  BY <1>3, <1>5, <2>1
<1>7. i <= y => s[1] = d[i]
  <2>1. i <= y => 1 \in 1 .. y - i + 1 /\ i + 1 - 1 = i
    BY <1>3
  <2> QED  BY <1>4, <2>1
<1>8. (\A k \in i + 1 .. y : d[k] \in others) <=> (\A k \in 2 .. Len(s) : s[k] \in others)
  <2>1. ASSUME \A k \in i + 1 .. y : d[k] \in others, NEW k \in 2 .. Len(s)
        PROVE  s[k] \in others
    <3>1. k \in 1 .. y - i + 1 /\ i + k - 1 \in i + 1 .. y
      BY <1>3, <1>5
    <3> QED  BY <1>4, <2>1, <3>1
  <2>2. ASSUME \A k \in 2 .. Len(s) : s[k] \in others, NEW k \in i + 1 .. y
        PROVE  d[k] \in others
    <3> DEFINE j == k - i + 1
    <3>1. j \in 2 .. Len(s) /\ j \in 1 .. y - i + 1 /\ i + j - 1 = k
      BY <1>3, <1>5
    <3> HIDE DEF j
    <3>2. s[j] = d[k]
      BY <1>4, <3>1
    <3> QED  BY <2>2, <3>1, <3>2
  <2> QED  BY <2>1, <2>2
<1>9. Allowed(s, CharsOf(lambda)) <=>
        s # <<>> /\ s[1] \in first /\ \A k \in 2 .. Len(s) : s[k] \in others
  BY DEF Allowed, CharsOf, first, others
<1>10. Clean(d, i, y, lambda) <=>
         i <= y /\ d[i] \in first /\ \A k \in i + 1 .. y : d[k] \in others
  BY DEF Clean, first, others
<1>11. Clean(d, i, y, lambda) <=> Allowed(s, CharsOf(lambda))
  BY <1>6, <1>7, <1>8, <1>9, <1>10
<1> QED  BY <1>11 DEF s, y

LEMMA EndsAre ==
    ASSUME NEW d, NEW i
    PROVE  /\ Ends(d, i)[1] = End(d, i)
           /\ Ends(d, i)[2] = End(d, End(d, i) + 1)
           /\ Ends(d, i)[3] = End(d, End(d, End(d, i) + 1) + 1)
           /\ Cut(d, i)[1] = SubSeq(d, i, End(d, i) - 1)
           /\ Cut(d, i)[2] = SubSeq(d, End(d, i) + 1, End(d, End(d, i) + 1) - 1)
           /\ Cut(d, i)[3] = SubSeq(d, End(d, End(d, i) + 1) + 1,
                                    End(d, End(d, End(d, i) + 1) + 1) - 1)
<1>1. /\ Ends(d, i)[1] = End(d, i)
      /\ Ends(d, i)[2] = End(d, End(d, i) + 1)
      /\ Ends(d, i)[3] = End(d, End(d, End(d, i) + 1) + 1)
  BY DEF Ends
<1>2. \A k \in 1 .. 3 : Cut(d, i)[k] = SubSeq(d, IF k = 1 THEN i ELSE Ends(d, i)[k - 1] + 1,
                                              Ends(d, i)[k] - 1)
  BY DEF Cut
<1>3. Cut(d, i)[1] = SubSeq(d, i, Ends(d, i)[1] - 1)
  BY <1>2
<1>4. Cut(d, i)[2] = SubSeq(d, Ends(d, i)[1] + 1, Ends(d, i)[2] - 1)
  <2>1. 2 - 1 = 1 /\ 2 \in 1 .. 3 /\ 2 # 1
    OBVIOUS
  <2> QED  BY <1>2, <2>1
<1>5. Cut(d, i)[3] = SubSeq(d, Ends(d, i)[2] + 1, Ends(d, i)[3] - 1)
  <2>1. 3 - 1 = 2 /\ 3 \in 1 .. 3 /\ 3 # 1
    OBVIOUS
  <2> QED  BY <1>2, <2>1
<1> QED  BY <1>1, <1>3, <1>4, <1>5

\* The k-th string of a datagram, from position i on.
Part(d, i, k, chars) == Ends(d, i)[k] <= Len(d) /\ Allowed(Cut(d, i)[k], chars)

LEMMA HoldsIs ==
    ASSUME NEW d, NEW t
    PROVE  Holds(d, t) <=>
             /\ Headed(t, d) /\ d[1] = Codes[t]
             /\ \A k \in 1 .. Len(FieldChars(t)) :
                  Part(d, Header(t) + 1, k, FieldChars(t)[k])
BY DEF Holds, Headed, Part

LEMMA HeaderType ==
    ASSUME NEW d \in Seq(Int), NEW t, Headed(t, d)
    PROVE  /\ Header(t) \in 1 .. Len(d) /\ Header(t) + 1 \in 1 .. Len(d) + 1
           /\ Len(d) \in Nat /\ Len(d) >= 1
<1>1. Len(d) \in Nat
  BY SeqType
<1>2. Header(t) \in {3, 6} /\ Len(d) >= Header(t)
  BY DEF Headed, Header
<1> QED  BY <1>1, <1>2

LEMMA PartIs ==
    ASSUME NEW d \in Seq(Int), NEW i \in 1 .. Len(d) + 1
    PROVE  /\ \A l1 : Part(d, i, 1, CharsOf(l1)) <=> Sound(d, i, l1)
           /\ \A l1, l2 : Sound(d, i, l1) =>
                (Part(d, i, 2, CharsOf(l2)) <=> Sound(d, End(d, i) + 1, l2))
           /\ \A l1, l2, l3 : Sound(d, i, l1) /\ Sound(d, End(d, i) + 1, l2) =>
                (Part(d, i, 3, CharsOf(l3)) <=> Sound(d, End(d, End(d, i) + 1) + 1, l3))
<1>0. Len(d) \in Nat
  BY SeqType
<1> DEFINE e1 == End(d, i)
           i2 == e1 + 1
           e2 == End(d, i2)
           i3 == e2 + 1
<1>1. ASSUME NEW l1 PROVE Part(d, i, 1, CharsOf(l1)) <=> Sound(d, i, l1)
  <2>1. Part(d, i, 1, CharsOf(l1)) <=>
          End(d, i) <= Len(d) /\ Allowed(SubSeq(d, i, End(d, i) - 1), CharsOf(l1))
    BY EndsAre DEF Part
  <2> HIDE DEF e1
  <2> QED  BY <2>1, SoundIs
<1>2. e1 \in i .. Len(d) + 1
  BY <1>0, EndIs
<1>3. ASSUME NEW l1, Sound(d, i, l1) PROVE i2 \in 1 .. Len(d) + 1
  <2>1. e1 <= Len(d)
    BY <1>3 DEF Sound
  <2> HIDE DEF e1
  <2> QED  BY <1>0, <1>2, <2>1
<1>4. ASSUME NEW l1, NEW l2, Sound(d, i, l1)
      PROVE  Part(d, i, 2, CharsOf(l2)) <=> Sound(d, i2, l2)
  <2>1. i2 \in 1 .. Len(d) + 1
    BY <1>3, <1>4
  <2>2. Part(d, i, 2, CharsOf(l2)) <=>
          End(d, i2) <= Len(d) /\ Allowed(SubSeq(d, i2, End(d, i2) - 1), CharsOf(l2))
    BY EndsAre DEF Part
  <2> HIDE DEF i2
  <2> QED  BY <2>1, <2>2, SoundIs
<1>5. ASSUME NEW l1, NEW l2, NEW l3, Sound(d, i, l1), Sound(d, i2, l2)
      PROVE  Part(d, i, 3, CharsOf(l3)) <=> Sound(d, i3, l3)
  <2>1. i2 \in 1 .. Len(d) + 1
    BY <1>3, <1>5
  <2>2. e2 <= Len(d)
    BY <1>5 DEF Sound
  <2>3. Part(d, i, 3, CharsOf(l3)) <=>
          End(d, i3) <= Len(d) /\ Allowed(SubSeq(d, i3, End(d, i3) - 1), CharsOf(l3))
    BY EndsAre DEF Part
  <2> HIDE DEF i2
  <2>4. e2 \in i2 .. Len(d) + 1
    BY <1>0, <2>1, EndIs
  <2> HIDE DEF e2
  <2>5. i3 \in 1 .. Len(d) + 1
    BY <1>0, <2>1, <2>2, <2>4
  <2> HIDE DEF i3
  <2> QED  BY <2>3, <2>5, SoundIs
<1> QED  BY <1>1, <1>4, <1>5

\* A datagram with one, two or three sound strings.
Strung1(d, t, l1) == Headed(t, d) /\ d[1] = Codes[t] /\ Sound(d, Header(t) + 1, l1)
Strung2(d, t, l1, l2) == Strung1(d, t, l1) /\ Sound(d, End(d, Header(t) + 1) + 1, l2)
Strung3(d, t, l1, l2, l3) ==
    Strung2(d, t, l1, l2) /\ Sound(d, End(d, End(d, Header(t) + 1) + 1) + 1, l3)

LEMMA Holds0 ==
    ASSUME NEW d \in Seq(Int), NEW t, FieldChars(t) = <<>>
    PROVE  Holds(d, t) <=> Headed(t, d) /\ d[1] = Codes[t]
<1>1. 1 .. Len(FieldChars(t)) = {}
  OBVIOUS
<1> QED  BY <1>1, HoldsIs

LEMMA Holds1 ==
    ASSUME NEW d \in Seq(Int), NEW t, NEW l1, FieldChars(t) = <<CharsOf(l1)>>
    PROVE  Holds(d, t) <=> Strung1(d, t, l1)
<1> DEFINE i == Header(t) + 1
           P(k) == Part(d, i, k, FieldChars(t)[k])
<1>1. (\A k \in 1 .. Len(FieldChars(t)) : P(k)) <=> P(1)
  <2>1. 1 .. Len(FieldChars(t)) = {1}
    OBVIOUS
  <2> HIDE DEF P
  <2> QED  BY <2>1
<1>2. P(1) <=> Part(d, i, 1, CharsOf(l1))
  OBVIOUS
<1> HIDE DEF i
<1>3. Headed(t, d) => i \in 1 .. Len(d) + 1
  BY HeaderType DEF i
<1>4. Headed(t, d) => (Part(d, i, 1, CharsOf(l1)) <=> Sound(d, i, l1))
  BY <1>3, PartIs
<1>5. Holds(d, t) <=> Headed(t, d) /\ d[1] = Codes[t] /\ P(1)
  BY <1>1, HoldsIs DEF i
<1> HIDE DEF P
<1> QED  BY <1>2, <1>4, <1>5 DEF i, Strung1

LEMMA Holds2 ==
    ASSUME NEW d \in Seq(Int), NEW t, NEW l1, NEW l2,
           FieldChars(t) = <<CharsOf(l1), CharsOf(l2)>>
    PROVE  Holds(d, t) <=> Strung2(d, t, l1, l2)
<1> DEFINE i == Header(t) + 1
           P(k) == Part(d, i, k, FieldChars(t)[k])
<1>1. (\A k \in 1 .. Len(FieldChars(t)) : P(k)) <=> P(1) /\ P(2)
  <2>1. 1 .. Len(FieldChars(t)) = {1, 2}
    OBVIOUS
  <2> HIDE DEF P
  <2> QED  BY <2>1
<1>2. /\ P(1) <=> Part(d, i, 1, CharsOf(l1))
      /\ P(2) <=> Part(d, i, 2, CharsOf(l2))
  OBVIOUS
<1> HIDE DEF i
<1>3. Headed(t, d) => i \in 1 .. Len(d) + 1
  BY HeaderType DEF i
<1>4. Headed(t, d) => (Part(d, i, 1, CharsOf(l1)) <=> Sound(d, i, l1))
  BY <1>3, PartIs
<1>6. Headed(t, d) /\ Sound(d, i, l1) =>
        (Part(d, i, 2, CharsOf(l2)) <=> Sound(d, End(d, i) + 1, l2))
  BY <1>3, PartIs
<1>5. Holds(d, t) <=> Headed(t, d) /\ d[1] = Codes[t] /\ P(1) /\ P(2)
  BY <1>1, HoldsIs DEF i
<1> HIDE DEF P
<1> QED  BY <1>2, <1>4, <1>5, <1>6 DEF i, Strung1, Strung2

LEMMA Holds3 ==
    ASSUME NEW d \in Seq(Int), NEW t, NEW l1, NEW l2, NEW l3,
           FieldChars(t) = <<CharsOf(l1), CharsOf(l2), CharsOf(l3)>>
    PROVE  Holds(d, t) <=> Strung3(d, t, l1, l2, l3)
<1> DEFINE i == Header(t) + 1
           P(k) == Part(d, i, k, FieldChars(t)[k])
<1>1. (\A k \in 1 .. Len(FieldChars(t)) : P(k)) <=> P(1) /\ P(2) /\ P(3)
  <2>1. 1 .. Len(FieldChars(t)) = {1, 2, 3}
    OBVIOUS
  <2> HIDE DEF P
  <2> QED  BY <2>1
<1>2. /\ P(1) <=> Part(d, i, 1, CharsOf(l1))
      /\ P(2) <=> Part(d, i, 2, CharsOf(l2))
      /\ P(3) <=> Part(d, i, 3, CharsOf(l3))
  OBVIOUS
<1> HIDE DEF i
<1>3. Headed(t, d) => i \in 1 .. Len(d) + 1
  BY HeaderType DEF i
<1>4. Headed(t, d) => (Part(d, i, 1, CharsOf(l1)) <=> Sound(d, i, l1))
  BY <1>3, PartIs
<1>6. Headed(t, d) /\ Sound(d, i, l1) =>
        (Part(d, i, 2, CharsOf(l2)) <=> Sound(d, End(d, i) + 1, l2))
  BY <1>3, PartIs
<1>7. Headed(t, d) /\ Sound(d, i, l1) /\ Sound(d, End(d, i) + 1, l2) =>
        (Part(d, i, 3, CharsOf(l3)) <=> Sound(d, End(d, End(d, i) + 1) + 1, l3))
  BY <1>3, PartIs
<1>5. Holds(d, t) <=> Headed(t, d) /\ d[1] = Codes[t] /\ P(1) /\ P(2) /\ P(3)
  BY <1>1, HoldsIs DEF i
<1> HIDE DEF P
<1> QED  BY <1>2, <1>4, <1>5, <1>6, <1>7 DEF i, Strung1, Strung2, Strung3

LEMMA FieldsAre ==
    ASSUME NEW t \in Types
    PROVE  /\ t \in {"CONFIRM", "PING"} => Len(Paths[t]) = 2
           /\ t = "BYE" =>
                /\ IsField(t, 2, "saveDispName")
                /\ Len(Paths[t]) = 2 + 2
           /\ t = "REPLY" =>
                /\ IsField(t, 5, "saveContent")
                /\ Len(Paths[t]) = 5 + 2
           /\ t \in {"MSG", "ERR"} =>
                /\ IsField(t, 2, "saveDispName")
                /\ IsField(t, 2 + 2, "saveContent")
                /\ Len(Paths[t]) = 2 + 4
           /\ t = "JOIN" =>
                /\ IsField(t, 2, "saveChannel")
                /\ IsField(t, 2 + 2, "saveDispName")
                /\ Len(Paths[t]) = 2 + 4
           /\ t = "AUTH" =>
                /\ IsField(t, 2, "saveUsername")
                /\ IsField(t, 2 + 2, "saveDispName")
                /\ IsField(t, 2 + 4, "saveSecret")
                /\ Len(Paths[t]) = 2 + 6
<1>0. /\ \A lambda \in {"saveDispName", "saveContent", "saveChannel", "saveUsername",
                          "saveSecret"} : lambda \in DOMAIN Loops
      /\ \A x \in {"saveID", "saveReplyID", "scanZero"} : x \notin DOMAIN Loops
  BY LoopsAre DEF Typed
<1>1. t \in {"CONFIRM", "PING"} => Len(Paths[t]) = 2
  BY PathStarts
<1>2. ASSUME t = "BYE"
      PROVE  /\ IsField(t, 2, "saveDispName")
             /\ Len(Paths[t]) = 2 + 2
  <2> DEFINE n == Len(Paths[t])
  <2>1. /\ n = 4 /\ Paths[t][2] = "saveID"
        /\ Paths[t][3] = "saveDispName" /\ Paths[t][4] = "scanZero"
    BY <1>2, PathStarts
  <2> HIDE DEF n
  <2>2. IsField(t, 2, "saveDispName")
    <3>1. Entered(t, 2) \notin DOMAIN Loops
      BY <1>0, <2>1 DEF Entered
    <3>2. 2 \in Nat /\ 2 + 2 <= n /\ 2 + 1 = 3 /\ 2 + 2 = 4
      BY <2>1
    <3> QED  BY <1>0, <2>1, <3>1, <3>2 DEF IsField, n
  <2> QED
    <3>1. 2 + 2 = 4
      OBVIOUS
    <3> QED  BY <2>1, <2>2, <3>1 DEF n
<1>3. ASSUME t = "REPLY"
      PROVE  /\ IsField(t, 5, "saveContent")
             /\ Len(Paths[t]) = 5 + 2
  <2> DEFINE n == Len(Paths[t])
  <2>1. /\ n = 7 /\ Paths[t][5] = "saveReplyID"
        /\ Paths[t][6] = "saveContent" /\ Paths[t][7] = "scanZero"
    BY <1>3, PathStarts
  <2> HIDE DEF n
  <2>2. IsField(t, 5, "saveContent")
    <3>1. Entered(t, 5) \notin DOMAIN Loops
      BY <1>0, <2>1 DEF Entered
    <3>2. 5 \in Nat /\ 5 + 2 <= n /\ 5 + 1 = 6 /\ 5 + 2 = 7
      BY <2>1
    <3> QED  BY <1>0, <2>1, <3>1, <3>2 DEF IsField, n
  <2> QED
    <3>1. 5 + 2 = 7
      OBVIOUS
    <3> QED  BY <2>1, <2>2, <3>1 DEF n
<1>4. ASSUME t \in {"MSG", "ERR"}
      PROVE  /\ IsField(t, 2, "saveDispName")
             /\ IsField(t, 2 + 2, "saveContent")
             /\ Len(Paths[t]) = 2 + 4
  <2> DEFINE n == Len(Paths[t])
  <2>1. /\ n = 6 /\ Paths[t][2] = "saveID"
        /\ Paths[t][3] = "saveDispName" /\ Paths[t][4] = "scanZero"
        /\ Paths[t][5] = "saveContent" /\ Paths[t][6] = "scanZero"
    BY <1>4, PathStarts
  <2> HIDE DEF n
  <2>2. IsField(t, 2, "saveDispName")
    <3>1. Entered(t, 2) \notin DOMAIN Loops
      BY <1>0, <2>1 DEF Entered
    <3>2. 2 \in Nat /\ 2 + 2 <= n /\ 2 + 1 = 3 /\ 2 + 2 = 4
      BY <2>1
    <3> QED  BY <1>0, <2>1, <3>1, <3>2 DEF IsField, n
  <2>3. IsField(t, 4, "saveContent")
    <3>1. Entered(t, 4) \notin DOMAIN Loops
      BY <1>0, <2>1 DEF Entered
    <3>2. 4 \in Nat /\ 4 + 2 <= n /\ 4 + 1 = 5 /\ 4 + 2 = 6
      BY <2>1
    <3> QED  BY <1>0, <2>1, <3>1, <3>2 DEF IsField, n
  <2> QED
    <3>1. 2 + 2 = 4 /\ 2 + 4 = 6
      OBVIOUS
    <3> QED  BY <2>1, <2>2, <2>3, <3>1 DEF n
<1>5. ASSUME t = "JOIN"
      PROVE  /\ IsField(t, 2, "saveChannel")
             /\ IsField(t, 2 + 2, "saveDispName")
             /\ Len(Paths[t]) = 2 + 4
  <2> DEFINE n == Len(Paths[t])
  <2>1. /\ n = 6 /\ Paths[t][2] = "saveID"
        /\ Paths[t][3] = "saveChannel" /\ Paths[t][4] = "scanZero"
        /\ Paths[t][5] = "saveDispName" /\ Paths[t][6] = "scanZero"
    BY <1>5, PathStarts
  <2> HIDE DEF n
  <2>2. IsField(t, 2, "saveChannel")
    <3>1. Entered(t, 2) \notin DOMAIN Loops
      BY <1>0, <2>1 DEF Entered
    <3>2. 2 \in Nat /\ 2 + 2 <= n /\ 2 + 1 = 3 /\ 2 + 2 = 4
      BY <2>1
    <3> QED  BY <1>0, <2>1, <3>1, <3>2 DEF IsField, n
  <2>3. IsField(t, 4, "saveDispName")
    <3>1. Entered(t, 4) \notin DOMAIN Loops
      BY <1>0, <2>1 DEF Entered
    <3>2. 4 \in Nat /\ 4 + 2 <= n /\ 4 + 1 = 5 /\ 4 + 2 = 6
      BY <2>1
    <3> QED  BY <1>0, <2>1, <3>1, <3>2 DEF IsField, n
  <2> QED
    <3>1. 2 + 2 = 4 /\ 2 + 4 = 6
      OBVIOUS
    <3> QED  BY <2>1, <2>2, <2>3, <3>1 DEF n
<1>6. ASSUME t = "AUTH"
      PROVE  /\ IsField(t, 2, "saveUsername")
             /\ IsField(t, 2 + 2, "saveDispName")
             /\ IsField(t, 2 + 4, "saveSecret")
             /\ Len(Paths[t]) = 2 + 6
  <2> DEFINE n == Len(Paths[t])
  <2>1. /\ n = 8 /\ Paths[t][2] = "saveID"
        /\ Paths[t][3] = "saveUsername" /\ Paths[t][4] = "scanZero"
        /\ Paths[t][5] = "saveDispName" /\ Paths[t][6] = "scanZero"
        /\ Paths[t][7] = "saveSecret" /\ Paths[t][8] = "scanZero"
    BY <1>6, PathStarts
  <2> HIDE DEF n
  <2>2. IsField(t, 2, "saveUsername")
    <3>1. Entered(t, 2) \notin DOMAIN Loops
      BY <1>0, <2>1 DEF Entered
    <3>2. 2 \in Nat /\ 2 + 2 <= n /\ 2 + 1 = 3 /\ 2 + 2 = 4
      BY <2>1
    <3> QED  BY <1>0, <2>1, <3>1, <3>2 DEF IsField, n
  <2>3. IsField(t, 4, "saveDispName")
    <3>1. Entered(t, 4) \notin DOMAIN Loops
      BY <1>0, <2>1 DEF Entered
    <3>2. 4 \in Nat /\ 4 + 2 <= n /\ 4 + 1 = 5 /\ 4 + 2 = 6
      BY <2>1
    <3> QED  BY <1>0, <2>1, <3>1, <3>2 DEF IsField, n
  <2>4. IsField(t, 6, "saveSecret")
    <3>1. Entered(t, 6) \notin DOMAIN Loops
      BY <1>0, <2>1 DEF Entered
    <3>2. 6 \in Nat /\ 6 + 2 <= n /\ 6 + 1 = 7 /\ 6 + 2 = 8
      BY <2>1
    <3> QED  BY <1>0, <2>1, <3>1, <3>2 DEF IsField, n
  <2> QED
    <3>1. 2 + 2 = 4 /\ 2 + 4 = 6 /\ 2 + 6 = 8
      OBVIOUS
    <3> QED  BY <2>1, <2>2, <2>3, <2>4, <3>1 DEF n
<1> QED  BY <1>1, <1>2, <1>3, <1>4, <1>5, <1>6

-----------------------------------------------------------------------------
(* What a datagram is decoded to *)

\* The controls after the strings.
Contents(t, ctl, d) ==
    LET h == Heading(t, ctl, d)
        i == Header(t) + 1
        j == End(d, i) + 1
        k == End(d, j) + 1
    IN  CASE t \in {"MSG", "ERR"} -> Saved(Saved(h, "saveDispName", d, i), "saveContent", d, j)
          [] t = "AUTH" -> Saved(Saved(Saved(h, "saveUsername", d, i), "saveDispName", d, j),
                                 "saveSecret", d, k)
          [] t = "JOIN" -> Saved(Saved(h, "saveChannel", d, i), "saveDispName", d, j)
          [] t = "BYE" -> Saved(h, "saveDispName", d, i)
          [] t = "REPLY" -> Saved(h, "saveContent", d, i)
          [] OTHER -> h

\* The automaton recognises exactly the datagrams that hold a message.
LEMMA Decoded ==
    ASSUME NEW g, NEW ctl, NEW d \in Seq(Int), IsRun(g, ctl, d), NEW t \in Types,
           Len(d) >= 1, d[1] = Codes[t]
    PROVE  IF Holds(d, t) THEN Stop(g, d, t, Contents(t, ctl, d)) ELSE ~ Terminal(g[Len(d)])
<1> DEFINE h == Heading(t, ctl, d)
           e == Header(t)
<1>0. Len(d) \in Nat
  BY SeqType
<1>1. IF Headed(t, d) THEN g[e] = R(t, Before(t), h) ELSE ~ Terminal(g[Len(d)])
  BY <1>0, ReadsHeader
<1>2. Headed(t, d) => e \in 1 .. Len(d)
  BY HeaderType
<1>3. CASE ~ Headed(t, d)
  <2>1. ~ Holds(d, t)
    BY <1>3, HoldsIs
  <2> QED  BY <1>1, <1>3, <2>1
<1> HIDE DEF e, h
<1>4. CASE Headed(t, d) /\ t \in {"CONFIRM", "PING"}
  <2>1. Before(t) = 2 /\ Len(Paths[t]) = 2 /\ FieldChars(t) = <<>>
    BY <1>4, FieldsAre, FieldCharsAre DEF Before
  <2>2. Holds(d, t)
    BY <1>4, <2>1, Holds0
  <2>3. g[e] = R(t, Len(Paths[t]), h) /\ e \in 0 .. Len(d)
    BY <1>1, <1>2, <1>4, <2>1
  <2>4. Stop(g, d, t, h)
    BY <1>0, <2>3, FinalStays DEF Stop
  <2>5. Contents(t, ctl, d) = h
    <3>1. t \notin {"MSG", "ERR"} /\ t # "AUTH" /\ t # "JOIN" /\ t # "BYE" /\ t # "REPLY"
      BY <1>4
    <3> QED  BY <3>1, Zenon DEF Contents, h
  <2> QED  BY <2>2, <2>4, <2>5
<1>5. CASE Headed(t, d) /\ t = "BYE"
  <2>1. /\ Before(t) = 2 /\ 2 + 2 = Len(Paths[t])
        /\ IsField(t, 2, "saveDispName")
    BY <1>5, FieldsAre DEF Before
  <2>2. FieldChars(t) = <<CharsOf("saveDispName")>>
    BY <1>5, FieldCharsAre
  <2> DEFINE s1 == Saved(h, "saveDispName", d, e + 1)
  <2>3. Holds(d, t) <=>
          Sound(d, e + 1, "saveDispName")
    <3>1. Holds(d, t) <=> Strung1(d, t, "saveDispName")
      BY <2>2, Holds1
    <3> QED  BY <1>5, <3>1 DEF e, Strung1
  <2>4. g[e] = R(t, 2, h) /\ e \in 1 .. Len(d)
    BY <1>1, <1>2, <1>5, <2>1
  <2>5. IF Sound(d, e + 1, "saveDispName")
        THEN Stop(g, d, t, s1) ELSE ~ Terminal(g[Len(d)])
    BY <1>0, <2>1, <2>4, Fields1
  <2>6. Contents(t, ctl, d) = s1
    BY <1>5 DEF Contents, h, e
  <2> QED  BY <2>3, <2>5, <2>6
<1>6. CASE Headed(t, d) /\ t = "REPLY"
  <2>1. /\ Before(t) = 5 /\ 5 + 2 = Len(Paths[t])
        /\ IsField(t, 5, "saveContent")
    BY <1>6, FieldsAre DEF Before
  <2>2. FieldChars(t) = <<CharsOf("saveContent")>>
    BY <1>6, FieldCharsAre
  <2> DEFINE s1 == Saved(h, "saveContent", d, e + 1)
  <2>3. Holds(d, t) <=>
          Sound(d, e + 1, "saveContent")
    <3>1. Holds(d, t) <=> Strung1(d, t, "saveContent")
      BY <2>2, Holds1
    <3> QED  BY <1>6, <3>1 DEF e, Strung1
  <2>4. g[e] = R(t, 5, h) /\ e \in 1 .. Len(d)
    BY <1>1, <1>2, <1>6, <2>1
  <2>5. IF Sound(d, e + 1, "saveContent")
        THEN Stop(g, d, t, s1) ELSE ~ Terminal(g[Len(d)])
    BY <1>0, <2>1, <2>4, Fields1
  <2>6. Contents(t, ctl, d) = s1
    BY <1>6 DEF Contents, h, e
  <2> QED  BY <2>3, <2>5, <2>6
<1>7. CASE Headed(t, d) /\ t \in {"MSG", "ERR"}
  <2>1. /\ Before(t) = 2 /\ 2 + 4 = Len(Paths[t])
        /\ IsField(t, 2, "saveDispName")
        /\ IsField(t, 2 + 2, "saveContent")
    BY <1>7, FieldsAre DEF Before
  <2>2. FieldChars(t) = <<CharsOf("saveDispName"), CharsOf("saveContent")>>
    BY <1>7, FieldCharsAre
  <2> DEFINE s1 == Saved(h, "saveDispName", d, e + 1)
             s2 == Saved(s1, "saveContent", d, End(d, e + 1) + 1)
  <2>3. Holds(d, t) <=>
          /\ Sound(d, e + 1, "saveDispName")
          /\ Sound(d, End(d, e + 1) + 1, "saveContent")
    <3>1. Holds(d, t) <=> Strung2(d, t, "saveDispName", "saveContent")
      BY <2>2, Holds2
    <3> QED  BY <1>7, <3>1 DEF e, Strung1, Strung2
  <2>4. g[e] = R(t, 2, h) /\ e \in 1 .. Len(d)
    BY <1>1, <1>2, <1>7, <2>1
  <2>5. IF /\ Sound(d, e + 1, "saveDispName")
           /\ Sound(d, End(d, e + 1) + 1, "saveContent")
        THEN Stop(g, d, t, s2) ELSE ~ Terminal(g[Len(d)])
    BY <1>0, <2>1, <2>4, Fields2
  <2>6. Contents(t, ctl, d) = s2
    BY <1>7 DEF Contents, h, e
  <2> QED  BY <2>3, <2>5, <2>6
<1>8. CASE Headed(t, d) /\ t = "JOIN"
  <2>1. /\ Before(t) = 2 /\ 2 + 4 = Len(Paths[t])
        /\ IsField(t, 2, "saveChannel")
        /\ IsField(t, 2 + 2, "saveDispName")
    BY <1>8, FieldsAre DEF Before
  <2>2. FieldChars(t) = <<CharsOf("saveChannel"), CharsOf("saveDispName")>>
    BY <1>8, FieldCharsAre
  <2> DEFINE s1 == Saved(h, "saveChannel", d, e + 1)
             s2 == Saved(s1, "saveDispName", d, End(d, e + 1) + 1)
  <2>3. Holds(d, t) <=>
          /\ Sound(d, e + 1, "saveChannel")
          /\ Sound(d, End(d, e + 1) + 1, "saveDispName")
    <3>1. Holds(d, t) <=> Strung2(d, t, "saveChannel", "saveDispName")
      BY <2>2, Holds2
    <3> QED  BY <1>8, <3>1 DEF e, Strung1, Strung2
  <2>4. g[e] = R(t, 2, h) /\ e \in 1 .. Len(d)
    BY <1>1, <1>2, <1>8, <2>1
  <2>5. IF /\ Sound(d, e + 1, "saveChannel")
           /\ Sound(d, End(d, e + 1) + 1, "saveDispName")
        THEN Stop(g, d, t, s2) ELSE ~ Terminal(g[Len(d)])
    BY <1>0, <2>1, <2>4, Fields2
  <2>6. Contents(t, ctl, d) = s2
    BY <1>8 DEF Contents, h, e
  <2> QED  BY <2>3, <2>5, <2>6
<1>9. CASE Headed(t, d) /\ t = "AUTH"
  <2>1. /\ Before(t) = 2 /\ 2 + 6 = Len(Paths[t])
        /\ IsField(t, 2, "saveUsername")
        /\ IsField(t, 2 + 2, "saveDispName")
        /\ IsField(t, 2 + 4, "saveSecret")
    BY <1>9, FieldsAre DEF Before
  <2>2. FieldChars(t) = <<CharsOf("saveUsername"), CharsOf("saveDispName"),
            CharsOf("saveSecret")>>
    BY <1>9, FieldCharsAre
  <2> DEFINE s1 == Saved(h, "saveUsername", d, e + 1)
             s2 == Saved(s1, "saveDispName", d, End(d, e + 1) + 1)
             s3 == Saved(s2, "saveSecret", d, End(d, End(d, e + 1) + 1) + 1)
  <2>3. Holds(d, t) <=>
          /\ Sound(d, e + 1, "saveUsername")
          /\ Sound(d, End(d, e + 1) + 1, "saveDispName")
          /\ Sound(d, End(d, End(d, e + 1) + 1) + 1, "saveSecret")
    <3>1. Holds(d, t) <=> Strung3(d, t, "saveUsername", "saveDispName", "saveSecret")
      BY <2>2, Holds3
    <3> QED  BY <1>9, <3>1 DEF e, Strung1, Strung2, Strung3
  <2>4. g[e] = R(t, 2, h) /\ e \in 1 .. Len(d)
    BY <1>1, <1>2, <1>9, <2>1
  <2>5. IF /\ Sound(d, e + 1, "saveUsername")
           /\ Sound(d, End(d, e + 1) + 1, "saveDispName")
           /\ Sound(d, End(d, End(d, e + 1) + 1) + 1, "saveSecret")
        THEN Stop(g, d, t, s3) ELSE ~ Terminal(g[Len(d)])
    BY <1>0, <2>1, <2>4, Fields3
  <2>6. Contents(t, ctl, d) = s3
    BY <1>9 DEF Contents, h, e
  <2> QED  BY <2>3, <2>5, <2>6
<1> QED  BY <1>3, <1>4, <1>5, <1>6, <1>7, <1>8, <1>9 DEF Types

-----------------------------------------------------------------------------
(* What the message is made of *)

\* A lambda that saves a string changes one field of the controls.
NameRead(saved, c, V, s) ==
    /\ saved \in Rec(V \cup {s}) /\ saved.dispName = s
    /\ saved.messageID = c.messageID /\ saved.replyID = c.replyID
    /\ saved.status = c.status /\ saved.username = c.username
    /\ saved.channelID = c.channelID
    /\ saved.content = c.content /\ saved.secret = c.secret

LEMMA NameSaved ==
    ASSUME NEW V, NEW c \in Rec(V), NEW lambda \in {"saveDispName", "saveChannel"}, NEW d, NEW i
    PROVE  NameRead(Saved(c, lambda, d, i), c, V, SaveString(d, i))
<1> DEFINE s == SaveString(d, i)
           saved == Saved(c, lambda, d, i)
           W == V \cup {s}
<1>1. c \in Rec(W) /\ s \in W
  <2>1. V \subseteq W /\ s \in W
    OBVIOUS
  <2> HIDE DEF W
  <2> QED  BY <2>1 DEF Rec
<1>2. saved = [c EXCEPT !.dispName = s]
  BY SavedIs
<1> HIDE DEF s, W, saved
<1>3. NameRead(saved, c, V, s)
  <2>1. saved \in Rec(W)
    BY <1>1, <1>2 DEF Rec
  <2>2. /\ saved.dispName = s
        /\ saved.messageID = c.messageID /\ saved.replyID = c.replyID
        /\ saved.status = c.status /\ saved.username = c.username
        /\ saved.channelID = c.channelID
        /\ saved.content = c.content /\ saved.secret = c.secret
    BY <1>1, <1>2 DEF Rec
  <2> QED  BY <2>1, <2>2 DEF NameRead, W
<1> QED  BY <1>3 DEF saved, s

TextRead(saved, c, V, s) ==
    /\ saved \in Rec(V \cup {s}) /\ saved.content = s
    /\ saved.messageID = c.messageID /\ saved.replyID = c.replyID
    /\ saved.status = c.status /\ saved.username = c.username
    /\ saved.channelID = c.channelID
    /\ saved.dispName = c.dispName /\ saved.secret = c.secret

LEMMA TextSaved ==
    ASSUME NEW V, NEW c \in Rec(V), NEW lambda \in {"saveContent"}, NEW d, NEW i
    PROVE  TextRead(Saved(c, lambda, d, i), c, V, SaveString(d, i))
<1> DEFINE s == SaveString(d, i)
           saved == Saved(c, lambda, d, i)
           W == V \cup {s}
<1>1. c \in Rec(W) /\ s \in W
  <2>1. V \subseteq W /\ s \in W
    OBVIOUS
  <2> HIDE DEF W
  <2> QED  BY <2>1 DEF Rec
<1>2. saved = [c EXCEPT !.content = s]
  BY SavedIs
<1> HIDE DEF s, W, saved
<1>3. TextRead(saved, c, V, s)
  <2>1. saved \in Rec(W)
    BY <1>1, <1>2 DEF Rec
  <2>2. /\ saved.content = s
        /\ saved.messageID = c.messageID /\ saved.replyID = c.replyID
        /\ saved.status = c.status /\ saved.username = c.username
        /\ saved.channelID = c.channelID
        /\ saved.dispName = c.dispName /\ saved.secret = c.secret
    BY <1>1, <1>2 DEF Rec
  <2> QED  BY <2>1, <2>2 DEF TextRead, W
<1> QED  BY <1>3 DEF saved, s

SecretRead(saved, c, V, s) ==
    /\ saved \in Rec(V \cup {s}) /\ saved.secret = s
    /\ saved.messageID = c.messageID /\ saved.replyID = c.replyID
    /\ saved.status = c.status /\ saved.username = c.username
    /\ saved.channelID = c.channelID
    /\ saved.dispName = c.dispName /\ saved.content = c.content

LEMMA SecretSaved ==
    ASSUME NEW V, NEW c \in Rec(V), NEW lambda \in {"saveSecret", "saveUsername"}, NEW d, NEW i
    PROVE  SecretRead(Saved(c, lambda, d, i), c, V, SaveString(d, i))
<1> DEFINE s == SaveString(d, i)
           saved == Saved(c, lambda, d, i)
           W == V \cup {s}
<1>1. c \in Rec(W) /\ s \in W
  <2>1. V \subseteq W /\ s \in W
    OBVIOUS
  <2> HIDE DEF W
  <2> QED  BY <2>1 DEF Rec
<1>2. saved = [c EXCEPT !.secret = s]
  BY SavedIs
<1> HIDE DEF s, W, saved
<1>3. SecretRead(saved, c, V, s)
  <2>1. saved \in Rec(W)
    BY <1>1, <1>2 DEF Rec
  <2>2. /\ saved.secret = s
        /\ saved.messageID = c.messageID /\ saved.replyID = c.replyID
        /\ saved.status = c.status /\ saved.username = c.username
        /\ saved.channelID = c.channelID
        /\ saved.dispName = c.dispName /\ saved.content = c.content
    BY <1>1, <1>2 DEF Rec
  <2> QED  BY <2>1, <2>2 DEF SecretRead, W
<1> QED  BY <1>3 DEF saved, s

HeadRead(h, c, V, t, d) ==
    /\ h \in Rec(V \cup {ReadID(d, 3), d[4], ReadID(d, 6)})
    /\ h.messageID = ReadID(d, 3)
    /\ h.username = c.username /\ h.channelID = c.channelID
    /\ t = "REPLY" => h.status = d[4] /\ h.replyID = ReadID(d, 6)

LEMMA HeadingIs ==
    ASSUME NEW V, NEW c \in Rec(V), NEW t, NEW d
    PROVE  HeadRead(Heading(t, c, d), c, V, t, d)
<1> DEFINE x == ReadID(d, 3)
           y == d[4]
           z == ReadID(d, 6)
           W == V \cup {x, y, z}
           id == Saved(c, "saveID", d, 3)
           status == Saved(id, "saveStatus", d, 4)
           ref == Saved(status, "saveReplyID", d, 6)
<1>1. x \in W /\ y \in W /\ z \in W /\ c \in Rec(W)
  <2>1. V \subseteq W
    OBVIOUS
  <2>2. x \in W /\ y \in W /\ z \in W
    OBVIOUS
  <2> HIDE DEF W
  <2>3. c \in Rec(W)
    BY <2>1 DEF Rec
  <2> QED  BY <2>2, <2>3
<1>2. Heading(t, c, d) = IF t = "REPLY" THEN ref ELSE id
  BY DEF Heading
<1>3. id = [c EXCEPT !.messageID = x]
  BY SavedIs
<1>4. status = [id EXCEPT !.status = y]
  BY SavedIs
<1>5. ref = [status EXCEPT !.replyID = z]
  BY SavedIs
<1> HIDE DEF x, y, z, id, status, ref
<1>6. /\ id \in Rec(W) /\ id.messageID = x /\ id.username = c.username
      /\ id.channelID = c.channelID
  <2> HIDE DEF W
  <2> QED  BY <1>1, <1>3 DEF Rec
<1>7. /\ status \in Rec(W) /\ status.messageID = x /\ status.username = c.username
      /\ status.channelID = c.channelID /\ status.status = y
  <2> HIDE DEF W
  <2> QED  BY <1>1, <1>4, <1>6 DEF Rec
<1>8. /\ ref \in Rec(W) /\ ref.messageID = x /\ ref.username = c.username
      /\ ref.channelID = c.channelID /\ ref.status = y /\ ref.replyID = z
  <2> HIDE DEF W
  <2> QED  BY <1>1, <1>5, <1>7 DEF Rec
<1> DEFINE h == Heading(t, c, d)
<1>9. /\ h \in Rec(W) /\ h.messageID = x /\ h.username = c.username
      /\ h.channelID = c.channelID /\ (t = "REPLY" => h.status = y /\ h.replyID = z)
  <2> HIDE DEF h, W
  <2>1. h = IF t = "REPLY" THEN ref ELSE id
    BY <1>2 DEF h
  <2> QED  BY <1>6, <1>8, <2>1
<1> QED  BY <1>9 DEF HeadRead, x, y, z

LEMMA PartsAre ==
    ASSUME NEW t \in Types, NEW f
    PROVE  /\ t \in {"MSG", "ERR"} => NamePart(t, f) = f[1] /\ TextPart(t, f) = f[2]
           /\ t = "BYE" => NamePart(t, f) = f[1] /\ TextPart(t, f) = <<>>
           /\ t = "JOIN" => NamePart(t, f) = f[2] /\ TextPart(t, f) = <<>>
           /\ t = "AUTH" => NamePart(t, f) = <<>> /\ TextPart(t, f) = f[3]
           /\ t = "REPLY" => NamePart(t, f) = <<>> /\ TextPart(t, f) = f[1]
           /\ t \in {"CONFIRM", "PING"} => NamePart(t, f) = <<>> /\ TextPart(t, f) = <<>>
<1>1. t \in {"MSG", "ERR", "BYE"} => NamePart(t, f) = f[1]
  BY DEF NamePart
<1>2. t = "JOIN" => NamePart(t, f) = f[2]
  BY DEF NamePart
<1>3. ASSUME t \in {"AUTH", "REPLY", "CONFIRM", "PING"} PROVE NamePart(t, f) = <<>>
  <2>1. t \notin {"MSG", "ERR", "BYE"} /\ t # "JOIN"
    BY <1>3
  <2> QED  BY <2>1, Zenon DEF NamePart
<1>4. t = "REPLY" => TextPart(t, f) = f[1]
  BY DEF TextPart
<1>5. t \in {"MSG", "ERR"} => TextPart(t, f) = f[2]
  BY DEF TextPart
<1>6. t = "AUTH" => TextPart(t, f) = f[3]
  BY DEF TextPart
<1>7. ASSUME t \in {"JOIN", "BYE", "CONFIRM", "PING"} PROVE TextPart(t, f) = <<>>
  <2>1. t # "REPLY" /\ t \notin {"MSG", "ERR"} /\ t # "AUTH"
    BY <1>7
  <2> QED  BY <2>1, Zenon DEF TextPart
<1> QED  BY <1>1, <1>2, <1>3, <1>4, <1>5, <1>6, <1>7

LEMMA AuthorTextAre ==
    ASSUME NEW run, run.type \in Types
    PROVE  /\ run.type \in {"MSG", "ERR"} =>
                Author(run) = run.controls.dispName /\ Text(run) = run.controls.content
           /\ run.type = "BYE" => Author(run) = run.controls.dispName /\ Text(run) = <<>>
           /\ run.type = "JOIN" =>
                Author(run) = run.controls.dispName /\ Text(run) = run.controls.channelID
           /\ run.type = "AUTH" =>
                Author(run) = run.controls.username /\ Text(run) = run.controls.secret
           /\ run.type = "REPLY" => Author(run) = <<>> /\ Text(run) = run.controls.content
           /\ run.type \in {"CONFIRM", "PING"} => Author(run) = <<>> /\ Text(run) = <<>>
<1> DEFINE t == run.type
<1>1. t \in {"MSG", "ERR", "BYE", "JOIN"} => Author(run) = run.controls.dispName
  BY DEF Author
<1>2. t = "AUTH" => Author(run) = run.controls.username
  BY DEF Author
<1>3. ASSUME t \in {"REPLY", "CONFIRM", "PING"} PROVE Author(run) = <<>>
  <2>1. t \notin {"MSG", "ERR", "BYE", "JOIN"} /\ t # "AUTH"
    BY <1>3
  <2> QED  BY <2>1, Zenon DEF Author
<1>4. t \in {"REPLY", "MSG", "ERR"} => Text(run) = run.controls.content
  BY DEF Text
<1>5. t = "JOIN" => Text(run) = run.controls.channelID
  BY DEF Text
<1>6. t = "AUTH" => Text(run) = run.controls.secret
  BY DEF Text
<1>7. ASSUME t \in {"BYE", "CONFIRM", "PING"} PROVE Text(run) = <<>>
  <2>1. t \notin {"REPLY", "MSG", "ERR"} /\ t # "JOIN" /\ t # "AUTH"
    BY <1>7
  <2> QED  BY <2>1, Zenon DEF Text
<1> QED  BY <1>1, <1>2, <1>3, <1>4, <1>5, <1>6, <1>7

LEMMA SoundSaves ==
    ASSUME NEW d \in Seq(Int), NEW i \in 1 .. Len(d) + 1, NEW lambda, Sound(d, i, lambda)
    PROVE  /\ SaveString(d, i) = SubSeq(d, i, End(d, i) - 1)
           /\ End(d, i) + 1 \in 1 .. Len(d) + 1
           /\ SubSeq(d, i, End(d, i) - 1) \in Seq(Int)
<1> DEFINE e == End(d, i)
<1>0. Len(d) \in Nat
  BY SeqType
<1>1. e <= Len(d) /\ i <= e - 1
  BY DEF Sound, Clean
<1>2. e \in i .. Len(d) + 1
  BY <1>0, EndIs
<1> HIDE DEF e
<1>3. e + 1 \in 1 .. Len(d) + 1 /\ i \in 1 .. Len(d)
  BY <1>0, <1>1, <1>2
<1>4. SaveString(d, i) = SubSeq(d, i, e - 1)
  BY <1>0, <1>1, <1>3, SavesString DEF e
<1>5. i \in Int /\ e - 1 \in Int /\ 1 <= i /\ e - 1 <= Len(d)
  BY <1>0, <1>1, <1>2
<1>6. SubSeq(d, i, e - 1) \in Seq(Int)
  BY <1>5, Piece
<1> QED  BY <1>3, <1>4, <1>6 DEF e

\* The fields that translate takes from the controls are those of the datagram.
Faithful(run, d, t) ==
    /\ Author(run) = Read(d, t).author /\ Text(run) = Read(d, t).text
    /\ Read(d, t).author \in Seq(Int) /\ Read(d, t).text \in Seq(Int)
    /\ run.controls.messageID = ReadID(d, 3)
    /\ t = "REPLY" => run.controls.status = d[4] /\ run.controls.replyID = ReadID(d, 6)

LEMMA ContentsAre ==
    ASSUME NEW V, NEW ctl \in Rec(V), ctl.username = <<>>, ctl.channelID = <<>>,
           NEW d \in Seq(Int), NEW t \in Types, Holds(d, t),
           NEW run, run.type = t, run.controls = Contents(t, ctl, d)
    PROVE  Faithful(run, d, t)
<1> DEFINE h == Heading(t, ctl, d)
           W == V \cup {ReadID(d, 3), d[4], ReadID(d, 6)}
           i == Header(t) + 1
           f == Cut(d, i)
           c == run.controls
<1>1. /\ h \in Rec(W) /\ h.messageID = ReadID(d, 3) /\ h.username = <<>>
      /\ h.channelID = <<>>
      /\ t = "REPLY" => h.status = d[4] /\ h.replyID = ReadID(d, 6)
  <2>1. HeadRead(h, ctl, V, t, d)
    BY HeadingIs
  <2> HIDE DEF h
  <2> QED  BY <2>1 DEF HeadRead, W
<1>2. Headed(t, d) /\ i \in 1 .. Len(d) + 1
  BY HoldsIs, HeaderType
<1>3. Read(d, t).author = NamePart(t, f) /\ Read(d, t).text = TextPart(t, f)
  BY DEF Read
<1>11. <<>> \in Seq(Int)
  OBVIOUS
<1> HIDE DEF h, W, i, f
<1>4. CASE t \in {"CONFIRM", "PING"}
  <2>1. c = h
    <3>1. t \notin {"MSG", "ERR"} /\ t # "AUTH" /\ t # "JOIN" /\ t # "BYE" /\ t # "REPLY"
      BY <1>4
    <3> QED  BY <3>1, Zenon DEF Contents, h
  <2>2. Author(run) = <<>> /\ Text(run) = <<>>
    BY <1>4, AuthorTextAre
  <2>3. NamePart(t, f) = <<>> /\ TextPart(t, f) = <<>>
    BY <1>4, PartsAre
  <2> QED  BY <1>1, <1>3, <1>4, <1>11, <2>1, <2>2, <2>3 DEF Faithful
<1>5. CASE t = "BYE"
  <2> DEFINE j == End(d, i) + 1
             k == End(d, j) + 1
             s1 == Saved(h, "saveDispName", d, i)
  <2>1. Sound(d, i, "saveDispName")
    <3>1. FieldChars(t) = <<CharsOf("saveDispName")>>
      BY <1>5, FieldCharsAre
    <3>2. Strung1(d, t, "saveDispName")
      BY <3>1, Holds1
    <3> QED  BY <3>2 DEF i, Strung1
  <2>2. c = s1
    BY <1>5 DEF Contents, h, i
  <2>3. /\ SaveString(d, i) = f[1]
        /\ End(d, i) + 1 \in 1 .. Len(d) + 1 /\ f[1] \in Seq(Int)
    <3>1. i \in 1 .. Len(d) + 1
      BY <1>2
    <3>2. f[1] = SubSeq(d, i, End(d, i) - 1)
      BY EndsAre DEF f
    <3> QED  BY <2>1, <3>1, <3>2, SoundSaves
  <2> HIDE DEF j, k
  <2>4. /\ s1 \in Rec(W \cup {f[1]}) /\ s1.messageID = h.messageID
        /\ s1.replyID = h.replyID /\ s1.status = h.status /\ s1.username = h.username
        /\ s1.channelID = h.channelID
        /\ s1.dispName = f[1]
    <3> DEFINE V0 == W
    <3>1. h \in Rec(V0)
      BY <1>1
    <3> HIDE DEF V0
    <3>2. "saveDispName" \in {"saveDispName", "saveChannel"}
      OBVIOUS
    <3>3. NameRead(s1, h, V0, SaveString(d, i))
      BY <3>1, <3>2, NameSaved
    <3> HIDE DEF s1
    <3> QED  BY <2>3, <3>3 DEF V0, NameRead
  <2> HIDE DEF s1
  <2>5. Author(run) = c.dispName /\ Text(run) = <<>>
    BY <1>5, AuthorTextAre
  <2>6. NamePart(t, f) = f[1] /\ TextPart(t, f) = <<>>
    BY <1>5, PartsAre
  <2> QED  BY <1>1, <1>3, <1>5, <1>11, <2>2, <2>3, <2>4, <2>5, <2>6 DEF Faithful
<1>6. CASE t = "REPLY"
  <2> DEFINE j == End(d, i) + 1
             k == End(d, j) + 1
             s1 == Saved(h, "saveContent", d, i)
  <2>1. Sound(d, i, "saveContent")
    <3>1. FieldChars(t) = <<CharsOf("saveContent")>>
      BY <1>6, FieldCharsAre
    <3>2. Strung1(d, t, "saveContent")
      BY <3>1, Holds1
    <3> QED  BY <3>2 DEF i, Strung1
  <2>2. c = s1
    BY <1>6 DEF Contents, h, i
  <2>3. /\ SaveString(d, i) = f[1]
        /\ End(d, i) + 1 \in 1 .. Len(d) + 1 /\ f[1] \in Seq(Int)
    <3>1. i \in 1 .. Len(d) + 1
      BY <1>2
    <3>2. f[1] = SubSeq(d, i, End(d, i) - 1)
      BY EndsAre DEF f
    <3> QED  BY <2>1, <3>1, <3>2, SoundSaves
  <2> HIDE DEF j, k
  <2>4. /\ s1 \in Rec(W \cup {f[1]}) /\ s1.messageID = h.messageID
        /\ s1.replyID = h.replyID /\ s1.status = h.status /\ s1.username = h.username
        /\ s1.channelID = h.channelID
        /\ s1.content = f[1]
    <3> DEFINE V0 == W
    <3>1. h \in Rec(V0)
      BY <1>1
    <3> HIDE DEF V0
    <3>2. "saveContent" \in {"saveContent"}
      OBVIOUS
    <3>3. TextRead(s1, h, V0, SaveString(d, i))
      BY <3>1, <3>2, TextSaved
    <3> HIDE DEF s1
    <3> QED  BY <2>3, <3>3 DEF V0, TextRead
  <2> HIDE DEF s1
  <2>5. Author(run) = <<>> /\ Text(run) = c.content
    BY <1>6, AuthorTextAre
  <2>6. NamePart(t, f) = <<>> /\ TextPart(t, f) = f[1]
    BY <1>6, PartsAre
  <2> QED  BY <1>1, <1>3, <1>6, <1>11, <2>2, <2>3, <2>4, <2>5, <2>6 DEF Faithful
<1>7. CASE t \in {"MSG", "ERR"}
  <2> DEFINE j == End(d, i) + 1
             k == End(d, j) + 1
             s1 == Saved(h, "saveDispName", d, i)
             s2 == Saved(s1, "saveContent", d, j)
  <2>1. /\ Sound(d, i, "saveDispName")
        /\ Sound(d, j, "saveContent")
    <3>1. FieldChars(t) = <<CharsOf("saveDispName"), CharsOf("saveContent")>>
      BY <1>7, FieldCharsAre
    <3>2. Strung2(d, t, "saveDispName", "saveContent")
      BY <3>1, Holds2
    <3> QED  BY <3>2 DEF i, Strung1, Strung2
  <2>2. c = s2
    BY <1>7 DEF Contents, h, i
  <2>3. /\ SaveString(d, i) = f[1]
        /\ End(d, i) + 1 \in 1 .. Len(d) + 1 /\ f[1] \in Seq(Int)
    <3>1. i \in 1 .. Len(d) + 1
      BY <1>2
    <3>2. f[1] = SubSeq(d, i, End(d, i) - 1)
      BY EndsAre DEF f
    <3> QED  BY <2>1, <3>1, <3>2, SoundSaves
  <2>4. /\ SaveString(d, j) = f[2]
        /\ End(d, j) + 1 \in 1 .. Len(d) + 1 /\ f[2] \in Seq(Int)
    <3>1. j \in 1 .. Len(d) + 1
      BY <2>3
    <3>2. f[2] = SubSeq(d, j, End(d, j) - 1)
      BY EndsAre DEF f
    <3>3. Sound(d, j, "saveContent")
      BY <2>1
    <3> HIDE DEF j
    <3> QED  BY <3>1, <3>2, <3>3, SoundSaves
  <2> HIDE DEF j, k
  <2>5. /\ s1 \in Rec(W \cup {f[1]}) /\ s1.messageID = h.messageID
        /\ s1.replyID = h.replyID /\ s1.status = h.status /\ s1.username = h.username
        /\ s1.channelID = h.channelID
        /\ s1.dispName = f[1]
    <3> DEFINE V0 == W
    <3>1. h \in Rec(V0)
      BY <1>1
    <3> HIDE DEF V0
    <3>2. "saveDispName" \in {"saveDispName", "saveChannel"}
      OBVIOUS
    <3>3. NameRead(s1, h, V0, SaveString(d, i))
      BY <3>1, <3>2, NameSaved
    <3> HIDE DEF s1
    <3> QED  BY <2>3, <3>3 DEF V0, NameRead
  <2>6. /\ s2 \in Rec(W \cup {f[1]} \cup {f[2]}) /\ s2.messageID = h.messageID
        /\ s2.replyID = h.replyID /\ s2.status = h.status /\ s2.username = h.username
        /\ s2.channelID = h.channelID
        /\ s2.dispName = f[1] /\ s2.content = f[2]
    <3> DEFINE V0 == W \cup {f[1]}
    <3>1. s1 \in Rec(V0)
      BY <2>5
    <3> HIDE DEF s1
    <3> HIDE DEF V0
    <3>2. "saveContent" \in {"saveContent"}
      OBVIOUS
    <3>3. TextRead(s2, s1, V0, SaveString(d, j))
      BY <3>1, <3>2, TextSaved
    <3> HIDE DEF s2
    <3> QED  BY <2>4, <3>3, <2>5 DEF V0, TextRead
  <2> HIDE DEF s1, s2
  <2>7. Author(run) = c.dispName /\ Text(run) = c.content
    BY <1>7, AuthorTextAre
  <2>8. NamePart(t, f) = f[1] /\ TextPart(t, f) = f[2]
    BY <1>7, PartsAre
  <2> QED  BY <1>1, <1>3, <1>7, <1>11, <2>2, <2>3, <2>4, <2>6, <2>7, <2>8 DEF Faithful
<1>8. CASE t = "JOIN"
  <2> DEFINE j == End(d, i) + 1
             k == End(d, j) + 1
             s1 == Saved(h, "saveChannel", d, i)
             s2 == Saved(s1, "saveDispName", d, j)
  <2>1. /\ Sound(d, i, "saveChannel")
        /\ Sound(d, j, "saveDispName")
    <3>1. FieldChars(t) = <<CharsOf("saveChannel"), CharsOf("saveDispName")>>
      BY <1>8, FieldCharsAre
    <3>2. Strung2(d, t, "saveChannel", "saveDispName")
      BY <3>1, Holds2
    <3> QED  BY <3>2 DEF i, Strung1, Strung2
  <2>2. c = s2
    BY <1>8 DEF Contents, h, i
  <2>3. /\ SaveString(d, i) = f[1]
        /\ End(d, i) + 1 \in 1 .. Len(d) + 1 /\ f[1] \in Seq(Int)
    <3>1. i \in 1 .. Len(d) + 1
      BY <1>2
    <3>2. f[1] = SubSeq(d, i, End(d, i) - 1)
      BY EndsAre DEF f
    <3> QED  BY <2>1, <3>1, <3>2, SoundSaves
  <2>4. /\ SaveString(d, j) = f[2]
        /\ End(d, j) + 1 \in 1 .. Len(d) + 1 /\ f[2] \in Seq(Int)
    <3>1. j \in 1 .. Len(d) + 1
      BY <2>3
    <3>2. f[2] = SubSeq(d, j, End(d, j) - 1)
      BY EndsAre DEF f
    <3>3. Sound(d, j, "saveDispName")
      BY <2>1
    <3> HIDE DEF j
    <3> QED  BY <3>1, <3>2, <3>3, SoundSaves
  <2> HIDE DEF j, k
  <2>5. /\ s1 \in Rec(W \cup {f[1]}) /\ s1.messageID = h.messageID
        /\ s1.replyID = h.replyID /\ s1.status = h.status /\ s1.username = h.username
        /\ s1.channelID = h.channelID
        /\ s1.dispName = f[1]
    <3> DEFINE V0 == W
    <3>1. h \in Rec(V0)
      BY <1>1
    <3> HIDE DEF V0
    <3>2. "saveChannel" \in {"saveDispName", "saveChannel"}
      OBVIOUS
    <3>3. NameRead(s1, h, V0, SaveString(d, i))
      BY <3>1, <3>2, NameSaved
    <3> HIDE DEF s1
    <3> QED  BY <2>3, <3>3 DEF V0, NameRead
  <2>6. /\ s2 \in Rec(W \cup {f[1]} \cup {f[2]}) /\ s2.messageID = h.messageID
        /\ s2.replyID = h.replyID /\ s2.status = h.status /\ s2.username = h.username
        /\ s2.channelID = h.channelID
        /\ s2.dispName = f[2]
    <3> DEFINE V0 == W \cup {f[1]}
    <3>1. s1 \in Rec(V0)
      BY <2>5
    <3> HIDE DEF s1
    <3> HIDE DEF V0
    <3>2. "saveDispName" \in {"saveDispName", "saveChannel"}
      OBVIOUS
    <3>3. NameRead(s2, s1, V0, SaveString(d, j))
      BY <3>1, <3>2, NameSaved
    <3> HIDE DEF s2
    <3> QED  BY <2>4, <3>3, <2>5 DEF V0, NameRead
  <2> HIDE DEF s1, s2
  <2>7. Author(run) = c.dispName /\ Text(run) = c.channelID
    BY <1>8, AuthorTextAre
  <2>8. NamePart(t, f) = f[2] /\ TextPart(t, f) = <<>>
    BY <1>8, PartsAre
  <2> QED  BY <1>1, <1>3, <1>8, <1>11, <2>2, <2>3, <2>4, <2>6, <2>7, <2>8 DEF Faithful
<1>9. CASE t = "AUTH"
  <2> DEFINE j == End(d, i) + 1
             k == End(d, j) + 1
             s1 == Saved(h, "saveUsername", d, i)
             s2 == Saved(s1, "saveDispName", d, j)
             s3 == Saved(s2, "saveSecret", d, k)
  <2>1. /\ Sound(d, i, "saveUsername")
        /\ Sound(d, j, "saveDispName")
        /\ Sound(d, k, "saveSecret")
    <3>1. FieldChars(t) = <<CharsOf("saveUsername"), CharsOf("saveDispName"),
              CharsOf("saveSecret")>>
      BY <1>9, FieldCharsAre
    <3>2. Strung3(d, t, "saveUsername", "saveDispName", "saveSecret")
      BY <3>1, Holds3
    <3> QED  BY <3>2 DEF i, Strung1, Strung2, Strung3
  <2>2. c = s3
    BY <1>9 DEF Contents, h, i
  <2>3. /\ SaveString(d, i) = f[1]
        /\ End(d, i) + 1 \in 1 .. Len(d) + 1 /\ f[1] \in Seq(Int)
    <3>1. i \in 1 .. Len(d) + 1
      BY <1>2
    <3>2. f[1] = SubSeq(d, i, End(d, i) - 1)
      BY EndsAre DEF f
    <3> QED  BY <2>1, <3>1, <3>2, SoundSaves
  <2>4. /\ SaveString(d, j) = f[2]
        /\ End(d, j) + 1 \in 1 .. Len(d) + 1 /\ f[2] \in Seq(Int)
    <3>1. j \in 1 .. Len(d) + 1
      BY <2>3
    <3>2. f[2] = SubSeq(d, j, End(d, j) - 1)
      BY EndsAre DEF f
    <3>3. Sound(d, j, "saveDispName")
      BY <2>1
    <3> HIDE DEF j
    <3> QED  BY <3>1, <3>2, <3>3, SoundSaves
  <2>5. /\ SaveString(d, k) = f[3]
        /\ End(d, k) + 1 \in 1 .. Len(d) + 1 /\ f[3] \in Seq(Int)
    <3>1. k \in 1 .. Len(d) + 1
      BY <2>4
    <3>2. f[3] = SubSeq(d, k, End(d, k) - 1)
      BY EndsAre DEF f
    <3>3. Sound(d, k, "saveSecret")
      BY <2>1
    <3> HIDE DEF k
    <3> QED  BY <3>1, <3>2, <3>3, SoundSaves
  <2> HIDE DEF j, k
  <2>6. /\ s1 \in Rec(W \cup {f[1]}) /\ s1.messageID = h.messageID
        /\ s1.replyID = h.replyID /\ s1.status = h.status /\ s1.username = h.username
        /\ s1.channelID = h.channelID
        /\ s1.secret = f[1]
    <3> DEFINE V0 == W
    <3>1. h \in Rec(V0)
      BY <1>1
    <3> HIDE DEF V0
    <3>2. "saveUsername" \in {"saveSecret", "saveUsername"}
      OBVIOUS
    <3>3. SecretRead(s1, h, V0, SaveString(d, i))
      BY <3>1, <3>2, SecretSaved
    <3> HIDE DEF s1
    <3> QED  BY <2>3, <3>3 DEF V0, SecretRead
  <2>7. /\ s2 \in Rec(W \cup {f[1]} \cup {f[2]}) /\ s2.messageID = h.messageID
        /\ s2.replyID = h.replyID /\ s2.status = h.status /\ s2.username = h.username
        /\ s2.channelID = h.channelID
        /\ s2.dispName = f[2] /\ s2.secret = f[1]
    <3> DEFINE V0 == W \cup {f[1]}
    <3>1. s1 \in Rec(V0)
      BY <2>6
    <3> HIDE DEF s1
    <3> HIDE DEF V0
    <3>2. "saveDispName" \in {"saveDispName", "saveChannel"}
      OBVIOUS
    <3>3. NameRead(s2, s1, V0, SaveString(d, j))
      BY <3>1, <3>2, NameSaved
    <3> HIDE DEF s2
    <3> QED  BY <2>4, <3>3, <2>6 DEF V0, NameRead
  <2>8. /\ s3 \in Rec(W \cup {f[1]} \cup {f[2]} \cup {f[3]}) /\ s3.messageID = h.messageID
        /\ s3.replyID = h.replyID /\ s3.status = h.status /\ s3.username = h.username
        /\ s3.channelID = h.channelID
        /\ s3.dispName = f[2] /\ s3.secret = f[3]
    <3> DEFINE V0 == W \cup {f[1]} \cup {f[2]}
    <3>1. s2 \in Rec(V0)
      BY <2>7
    <3> HIDE DEF s2
    <3> HIDE DEF V0
    <3>2. "saveSecret" \in {"saveSecret", "saveUsername"}
      OBVIOUS
    <3>3. SecretRead(s3, s2, V0, SaveString(d, k))
      BY <3>1, <3>2, SecretSaved
    <3> HIDE DEF s3
    <3> QED  BY <2>5, <3>3, <2>7 DEF V0, SecretRead
  <2> HIDE DEF s1, s2, s3
  <2>9. Author(run) = c.username /\ Text(run) = c.secret
    BY <1>9, AuthorTextAre
  <2>10. NamePart(t, f) = <<>> /\ TextPart(t, f) = f[3]
    BY <1>9, PartsAre
  <2> QED  BY <1>1, <1>3, <1>9, <1>11, <2>2, <2>3, <2>4, <2>5, <2>8, <2>9, <2>10 DEF Faithful
<1> QED  BY <1>4, <1>5, <1>6, <1>7, <1>8, <1>9 DEF Types

LEMMA MalformedIs ==
    ASSUME NEW m, "type" \in DOMAIN m
    PROVE  Malformed(m).type = "ERR_INTERNAL"
BY DEF Malformed

LEMMA FilledIs ==
    ASSUME NEW d \in Seq(Int), NEW t \in Types, Headed(t, d), NEW c,
           NEW run \in {R(t, Len(Paths[t]), c), Halt(t, Len(Paths[t]), c)}, Faithful(run, d, t)
    PROVE  Filled(run) = Read(d, t)
<1> DEFINE n == Len(Paths[t])
           s == <<t, n>>
           f == Cut(d, Header(t) + 1)
           author == Author(run)
           text == Text(run)
           reply == t = "REPLY"
           ok == reply /\ d[4] = 1
<1>1. run.type = t /\ run.passed = n /\ run.controls = c
  BY DEF R, Halt
<1>2. translationMap[output(run)] = t
  <2>1. output(run) = s
    BY <1>1 DEF output
  <2>2. s \in {<<u, Len(Paths[u])>> : u \in DOMAIN Paths}
    BY TypesAre
  <2>3. s[1] = t
    OBVIOUS
  <2> HIDE DEF s
  <2>4. translationMap[s] = s[1]
    BY <2>2 DEF translationMap
  <2> QED  BY <2>1, <2>3, <2>4
<1>3. /\ run.controls.messageID = 256 * d[2] + d[3]
      /\ reply => run.controls.replyID = 256 * d[5] + d[6]
  <2>1. Len(d) \in Nat /\ \A i \in 1 .. Len(d) : d[i] \in Int
    BY SeqType
  <2>2. Len(d) >= 3 /\ (reply => Len(d) >= 6)
    BY DEF Headed, Header
  <2>3. d[2] \in Int /\ d[3] \in Int
    BY <2>1, <2>2
  <2>4. reply => d[5] \in Int /\ d[6] \in Int
    BY <2>1, <2>2
  <2>5. ReadID(d, 3) = 256 * d[2] + d[3]
    <3>1. 3 - 1 = 2
      OBVIOUS
    <3>2. ReadID(d, 3) = d[2] * 256 + d[3]
      BY <3>1 DEF ReadID
    <3> QED  BY <3>2, <2>3
  <2>6. reply => ReadID(d, 6) = 256 * d[5] + d[6]
    <3>1. 6 - 1 = 5
      OBVIOUS
    <3>2. ReadID(d, 6) = d[5] * 256 + d[6]
      BY <3>1 DEF ReadID
    <3> QED  BY <3>2, <2>4
  <2>7. /\ run.controls.messageID = ReadID(d, 3)
        /\ reply => run.controls.replyID = ReadID(d, 6)
    BY DEF Faithful
  <2> HIDE DEF reply
  <2> QED  BY <2>5, <2>6, <2>7
<1>4. (run.type = "REPLY" /\ run.controls.status = 1) = ok
  BY <1>1 DEF Faithful
<1>5. author = NamePart(t, f) /\ text = TextPart(t, f)
  BY DEF Faithful, Read
<1>6. Read(d, t) = [type |-> t, id |-> 256 * d[2] + d[3],
                    ref |-> IF reply THEN 256 * d[5] + d[6] ELSE 0, ok |-> ok,
                    author |-> author, text |-> text]
  BY <1>5, Zenon DEF Read
<1>7. Filled(run) = [type |-> t, id |-> run.controls.messageID,
                     ref |-> IF reply THEN run.controls.replyID ELSE 0, ok |-> ok,
                     author |-> author, text |-> text]
  BY <1>1, <1>2, <1>4, Zenon DEF Filled
<1>8. (IF reply THEN run.controls.replyID ELSE 0) = (IF reply THEN 256 * d[5] + d[6] ELSE 0)
  BY <1>3
<1> HIDE DEF author, text, ok, reply
<1> QED  BY <1>3, <1>6, <1>7, <1>8

\* A datagram that holds a message is decoded to it, if its strings are not too long.
LEMMA TranslatedIs ==
    ASSUME NEW d \in Seq(Int), NEW t \in Types, Headed(t, d), NEW c,
           NEW run \in {R(t, Len(Paths[t]), c), Halt(t, Len(Paths[t]), c)}, Faithful(run, d, t)
    PROVE  IF Fits(Read(d, t)) THEN Translated(run) = Read(d, t)
           ELSE Translated(run).type = "ERR_INTERNAL"
<1>1. Filled(run) = Read(d, t)
  BY FilledIs
<1>2. Terminal(run)
  BY TerminalIs
<1>3. Author(run) = Read(d, t).author /\ Text(run) = Read(d, t).text
      /\ Len(Read(d, t).author) \in Nat /\ Len(Read(d, t).text) \in Nat
  BY SeqType DEF Faithful
<1>4. Fits(Read(d, t)) <=> ~ (Len(Author(run)) > NameLimit \/ Len(Text(run)) > TextLimit)
  BY <1>3, LimitsAssumption DEF Fits
<1>5. CASE Fits(Read(d, t))
  BY <1>1, <1>2, <1>4, <1>5 DEF Translated
<1>6. CASE ~ Fits(Read(d, t))
  <2>1. Translated(run) = Malformed(Read(d, t))
    BY <1>1, <1>2, <1>4, <1>6 DEF Translated
  <2>2. "type" \in DOMAIN Read(d, t)
    BY DEF Read
  <2> QED  BY <1>6, <2>1, <2>2, MalformedIs
<1> QED  BY <1>5, <1>6

LEMMA Untranslated ==
    ASSUME NEW run, ~ Terminal(run)
    PROVE  Translated(run).type = "ERR_INTERNAL"
<1>1. Translated(run) = Malformed(Blank)
  BY DEF Translated
<1>2. "type" \in DOMAIN Blank
  BY DEF Blank
<1> QED  BY <1>1, <1>2, MalformedIs

-----------------------------------------------------------------------------
(* A datagram as a whole *)

\* The controls that a decoder may keep between two datagrams.
Kept(ctl) == (\E V : ctl \in Rec(V)) /\ ctl.username = <<>> /\ ctl.channelID = <<>>

LEMMA CodesDiffer ==
    ASSUME NEW t \in Types, NEW u \in Types, Codes[t] = Codes[u]
    PROVE  t = u
BY DEF Types, Codes

LEMMA HoldsHead ==
    ASSUME NEW d, NEW t, Holds(d, t)
    PROVE  Len(d) >= Header(t) /\ d[1] = Codes[t] /\ Headed(t, d)
BY DEF Holds, Headed

LEMMA Decodes ==
    ASSUME NEW ctl, Kept(ctl), NEW d \in Seq(Int), NEW t \in Types, Holds(d, t)
    PROVE  IF Fits(Read(d, t)) THEN Translated(Automaton(ctl, d)) = Read(d, t)
           ELSE Translated(Automaton(ctl, d)).type = "ERR_INTERNAL"
<1>1. PICK V : ctl \in Rec(V)
  BY DEF Kept
<1>2. ctl.username = <<>> /\ ctl.channelID = <<>>
  BY DEF Kept
<1>3. Len(d) \in Nat
  BY SeqType
<1>4. PICK g : IsRun(g, ctl, d) /\ Automaton(ctl, d) = g[Len(d)]
  BY <1>1, <1>3, RunExists
<1>5. Len(d) >= 1 /\ d[1] = Codes[t] /\ Headed(t, d)
  BY HoldsHead, <1>3 DEF Header
<1> DEFINE run == g[Len(d)]
           c == Contents(t, ctl, d)
<1>6. Stop(g, d, t, c)
  BY <1>4, <1>5, Decoded
<1>7. run \in {R(t, Len(Paths[t]), c), Halt(t, Len(Paths[t]), c)}
  BY <1>6 DEF Stop
<1> HIDE DEF run
<1>8. run.type = t /\ run.controls = c
  BY <1>7 DEF R, Halt
<1>9. Faithful(run, d, t)
  BY <1>1, <1>2, <1>8, ContentsAre
<1>10. IF Fits(Read(d, t)) THEN Translated(run) = Read(d, t)
       ELSE Translated(run).type = "ERR_INTERNAL"
  <2> HIDE DEF c
  <2> QED  BY <1>5, <1>7, <1>9, TranslatedIs
<1>11. Automaton(ctl, d) = run
  BY <1>4 DEF run
<1> QED  BY <1>10, <1>11

LEMMA DecodesNothing ==
    ASSUME NEW ctl, Kept(ctl), NEW d \in Seq(Int), \A t \in Types : ~ Holds(d, t)
    PROVE  Translated(Automaton(ctl, d)).type = "ERR_INTERNAL"
<1>1. PICK V : ctl \in Rec(V)
  BY DEF Kept
<1>2. Len(d) \in Nat
  BY SeqType
<1>3. PICK g : IsRun(g, ctl, d) /\ Automaton(ctl, d) = g[Len(d)]
  BY <1>1, <1>2, RunExists
<1>4. CASE Len(d) = 0 \/ (\A t \in Types : d[1] # Codes[t])
  <2>1. ~ Terminal(g[Len(d)])
    BY <1>2, <1>3, <1>4, ReadsType
  <2> QED  BY <1>3, <2>1, Untranslated
<1>5. ASSUME NEW t \in Types, Len(d) >= 1, d[1] = Codes[t]
      PROVE  Translated(Automaton(ctl, d)).type = "ERR_INTERNAL"
  <2>1. ~ Terminal(g[Len(d)])
    <3>1. IF Holds(d, t) THEN Stop(g, d, t, Contents(t, ctl, d)) ELSE ~ Terminal(g[Len(d)])
      BY <1>3, <1>5, Decoded
    <3> QED  BY <3>1
  <2> QED  BY <1>3, <2>1, Untranslated
<1>6. Len(d) = 0 \/ Len(d) >= 1
  BY <1>2
<1> QED  BY <1>4, <1>5, <1>6

\* What DecodesLayout says of the last call, for every datagram.
LEMMA DecodesAll ==
    ASSUME NEW ctl, Kept(ctl), NEW d \in Seq(Int), NEW m, m = Translated(Automaton(ctl, d))
    PROVE  LET types == {t \in DOMAIN Paths : Holds(d, t)}
           IN  IF \E t \in types : Fits(Read(d, t))
               THEN \E t \in types : m = Read(d, t)
               ELSE m.type = "ERR_INTERNAL"
<1> DEFINE types == {t \in DOMAIN Paths : Holds(d, t)}
<1>1. \A t : t \in types <=> t \in Types /\ Holds(d, t)
  BY TypesAre
<1> HIDE DEF types
<1>2. ASSUME types = {} PROVE m.type = "ERR_INTERNAL"
  <2>1. \A t \in Types : ~ Holds(d, t)
    BY <1>1, <1>2
  <2>2. Translated(Automaton(ctl, d)).type = "ERR_INTERNAL"
    BY <2>1, DecodesNothing
  <2> QED  BY <2>2
<1>3. ASSUME NEW t \in types
      PROVE  IF \E u \in types : Fits(Read(d, u))
             THEN \E u \in types : m = Read(d, u)
             ELSE m.type = "ERR_INTERNAL"
  <2>1. t \in Types /\ Holds(d, t)
    BY <1>1
  <2>2. \A u \in types : u = t
    <3> SUFFICES ASSUME NEW u \in types PROVE u = t
      OBVIOUS
    <3>1. d[1] = Codes[t] /\ d[1] = Codes[u] /\ u \in Types
      BY <1>1, <2>1, HoldsHead
    <3> QED  BY <2>1, <3>1, CodesDiffer
  <2>3. IF Fits(Read(d, t)) THEN m = Read(d, t) ELSE m.type = "ERR_INTERNAL"
    BY <2>1, Decodes
  <2> QED  BY <2>2, <2>3
<1>4. IF \E t \in types : Fits(Read(d, t))
      THEN \E t \in types : m = Read(d, t)
      ELSE m.type = "ERR_INTERNAL"
  <2>1. CASE types = {}
    BY <1>2, <2>1
  <2>2. CASE types # {}
    BY <1>3, <2>2
  <2> QED  BY <2>1, <2>2
<1> QED  BY <1>4 DEF types

-----------------------------------------------------------------------------
(* What the decoder keeps *)

Ids == 0 .. NoId
Legible == {s \in Seq(Int) : s # <<>> => Head(s) \in Printable}
ControlsType == [messageID : Ids, replyID : Ids, status : {0, 1}, dispName : Legible,
                 channelID : {<<>>}, content : Legible, secret : Legible, username : {<<>>}]

\* Bytes where a message has its numbers.
Numeric(d) ==
    /\ d \in Seq(Int)
    /\ Len(d) >= 3 => d[2] \in 0 .. 255 /\ d[3] \in 0 .. 255
    /\ Len(d) >= 6 /\ d[1] = Codes["REPLY"] => d[5] \in 0 .. 255 /\ d[6] \in 0 .. 255

LEMMA NumberType ==
    ASSUME NEW x \in 0 .. 255, NEW y \in 0 .. 255
    PROVE  x * 256 + y \in Ids
<1>1. x \in Nat /\ y \in Nat /\ x <= 255 /\ y <= 255
  OBVIOUS
<1>2. x * 256 + y \in Nat /\ x * 256 + y <= 65535
  BY <1>1
<1>3. 65535 = NoId
  BY DEF NoId
<1> QED  BY <1>2, <1>3 DEF Ids

LEMMA IdRead ==
    ASSUME NEW d, Numeric(d), NEW i \in 1 .. Len(d),
           i = 3 \/ (i = 6 /\ d[1] = Codes["REPLY"])
    PROVE  ReadID(d, i) \in Ids
<1>1. Len(d) \in Nat
  BY SeqType DEF Numeric
<1>2. CASE i = 3
  <2>1. d[2] \in 0 .. 255 /\ d[3] \in 0 .. 255
    BY <1>1, <1>2 DEF Numeric
  <2>2. i - 1 = 2 /\ ReadID(d, i) = d[i - 1] * 256 + d[i]
    BY <1>2 DEF ReadID
  <2>3. d[2] * 256 + d[3] \in Ids
    BY <2>1, NumberType
  <2> QED  BY <1>2, <2>2, <2>3
<1>3. CASE i = 6 /\ d[1] = Codes["REPLY"]
  <2>1. d[5] \in 0 .. 255 /\ d[6] \in 0 .. 255
    BY <1>1, <1>3 DEF Numeric
  <2>2. i - 1 = 5 /\ ReadID(d, i) = d[i - 1] * 256 + d[i]
    BY <1>3 DEF ReadID
  <2>3. d[5] * 256 + d[6] \in Ids
    BY <2>1, NumberType
  <2> QED  BY <1>3, <2>2, <2>3
<1> QED  BY <1>2, <1>3

\* A string that is kept begins with the character whose edge kept it.
LEMMA KeptString ==
    ASSUME NEW d \in Seq(Int), NEW i \in 1 .. Len(d), d[i] \in Printable
    PROVE  SaveString(d, i) \in Legible
<1> DEFINE n == Len(d)
           S == {z \in i .. n : d[z] = NUL}
<1>1. n \in Nat /\ d[i] # NUL
  BY SeqType, LoopsAre
<1>2. CASE S # {}
  <2> DEFINE e == Min(S)
             s == SubSeq(d, i, e - 1)
  <2>1. S \in SUBSET Nat
    BY <1>1
  <2>2. e \in S
    BY <1>2, <2>1, HasMin
  <2> HIDE DEF e
  <2>3. e \in i + 1 .. n
    BY <1>1, <2>2
  <2>4. i \in 1 .. n /\ e - 1 \in i .. n
    BY <1>1, <2>3
  <2>5. s \in Seq(Int) /\ Len(s) = e - i /\ s[1] = d[i]
    BY <1>1, <2>3, <2>4
  <2>6. SaveString(d, i) = s
    BY <1>2 DEF SaveString, e
  <2> HIDE DEF s
  <2>7. Head(s) \in Printable
    BY <2>5
  <2> QED  BY <2>5, <2>6, <2>7 DEF Legible
<1>3. CASE S = {}
  <2> DEFINE s == SubSeq(d, i, n)
  <2>1. s \in Seq(Int) /\ Len(s) = n - i + 1 /\ s[1] = d[i]
    BY <1>1
  <2>2. SaveString(d, i) = Append(s, Beyond)
    BY <1>3 DEF SaveString
  <2> HIDE DEF s
  <2>3. Len(s) >= 1
    BY <1>1, <2>1
  <2>4. Append(s, Beyond) \in Seq(Int) /\ Append(s, Beyond)[1] = s[1]
    BY <2>1, <2>3 DEF Beyond
  <2>5. Head(Append(s, Beyond)) = d[i]
    BY <2>1, <2>4
  <2> QED  BY <2>2, <2>4, <2>5 DEF Legible
<1> QED  BY <1>2, <1>3

LEMMA SavedLegible ==
    ASSUME NEW ctl \in ControlsType, NEW lambda \in Lambdas, NEW d \in Seq(Int),
           NEW i \in 1 .. Len(d), Accepts(lambda, d[i]),
           lambda \in {"saveID", "saveReplyID"} => ReadID(d, i) \in Ids
    PROVE  Saved(ctl, lambda, d, i) \in ControlsType
<1>1. /\ \A v \in Ids : /\ [ctl EXCEPT !.messageID = v] \in ControlsType
                        /\ [ctl EXCEPT !.replyID = v] \in ControlsType
      /\ \A v \in {0, 1} : [ctl EXCEPT !.status = v] \in ControlsType
      /\ \A v \in Legible : /\ [ctl EXCEPT !.content = v] \in ControlsType
                            /\ [ctl EXCEPT !.secret = v] \in ControlsType
                            /\ [ctl EXCEPT !.dispName = v] \in ControlsType
  <2>1. ASSUME NEW v \in Ids
        PROVE  [ctl EXCEPT !.messageID = v] \in ControlsType
               /\ [ctl EXCEPT !.replyID = v] \in ControlsType
    BY DEF ControlsType
  <2>2. ASSUME NEW v \in {0, 1} PROVE [ctl EXCEPT !.status = v] \in ControlsType
    BY DEF ControlsType
  <2>3. ASSUME NEW v \in Legible
        PROVE  /\ [ctl EXCEPT !.content = v] \in ControlsType
               /\ [ctl EXCEPT !.secret = v] \in ControlsType
               /\ [ctl EXCEPT !.dispName = v] \in ControlsType
    BY DEF ControlsType
  <2> QED  BY <2>1, <2>2, <2>3
<1>2. \/ lambda = "saveID" \/ lambda = "saveReplyID" \/ lambda = "saveStatus"
      \/ lambda = "saveContent" \/ lambda \in {"saveSecret", "saveUsername"}
      \/ lambda \in {"saveDispName", "saveChannel"} \/ lambda \in Idle
  BY DEF Lambdas, Idle
<1> DEFINE s == SaveString(d, i)
<1>3. lambda \in {"saveContent", "saveSecret", "saveUsername", "saveDispName", "saveChannel"}
        => s \in Legible
  <2> SUFFICES ASSUME lambda \in {"saveContent", "saveSecret", "saveUsername",
                                  "saveDispName", "saveChannel"}
               PROVE  d[i] \in Printable
    BY KeptString
  <2>1. lambda \in Typed \/ lambda = "saveChannel"
    BY DEF Typed
  <2> QED  BY <2>1, AcceptsIs, LoopsAre
<1> HIDE DEF s
<1>4. CASE lambda = "saveID"
  <2>1. Saved(ctl, lambda, d, i) = [ctl EXCEPT !.messageID = ReadID(d, i)]
    BY <1>4, SavedIs
  <2> QED  BY <1>1, <1>4, <2>1
<1>5. CASE lambda = "saveReplyID"
  <2>1. Saved(ctl, lambda, d, i) = [ctl EXCEPT !.replyID = ReadID(d, i)]
    BY <1>5, SavedIs
  <2> QED  BY <1>1, <1>5, <2>1
<1>6. CASE lambda = "saveStatus"
  <2>1. Saved(ctl, lambda, d, i) = [ctl EXCEPT !.status = d[i]]
    BY <1>6, SavedIs
  <2>2. d[i] \in {0, 1}
    BY <1>6, AcceptsIs
  <2> QED  BY <1>1, <2>1, <2>2
<1>7. CASE lambda = "saveContent"
  <2>1. Saved(ctl, lambda, d, i) = [ctl EXCEPT !.content = s]
    BY <1>7, SavedIs DEF s
  <2> QED  BY <1>1, <1>3, <1>7, <2>1
<1>8. CASE lambda \in {"saveSecret", "saveUsername"}
  <2>1. Saved(ctl, lambda, d, i) = [ctl EXCEPT !.secret = s]
    BY <1>8, SavedIs DEF s
  <2> QED  BY <1>1, <1>3, <1>8, <2>1
<1>9. CASE lambda \in {"saveDispName", "saveChannel"}
  <2>1. Saved(ctl, lambda, d, i) = [ctl EXCEPT !.dispName = s]
    BY <1>9, SavedIs DEF s
  <2> QED  BY <1>1, <1>3, <1>9, <2>1
<1>10. CASE lambda \in Idle
  <2>1. Saved(ctl, lambda, d, i) = ctl
    BY <1>10, SavedIs
  <2> QED  BY <2>1
<1> QED  BY <1>2, <1>4, <1>5, <1>6, <1>7, <1>8, <1>9, <1>10

\* Only the lambdas that follow the type byte at once read numbers.
LEMMA WhereNumbersAre ==
    ASSUME NEW t \in Types, NEW n, n = Len(Paths[t]), NEW q \in 1 .. n
    PROVE  /\ Paths[t][q] = "saveID" => q = 2
           /\ Paths[t][q] = "saveReplyID" => t = "REPLY" /\ q = 5
<1> DEFINE path == Paths[t]
           Right == /\ path[q] = "saveID" => q = 2
                    /\ path[q] = "saveReplyID" => t = "REPLY" /\ q = 5
<1>2. ASSUME t \in {"CONFIRM", "PING"} PROVE Right
  <2>1. n = 2
    BY <1>2, PathStarts
  <2>2. q = 1 \/ q = 2
    BY <2>1
  <2>3. /\ path[1] = "tautology" /\ path[2] = "saveID"
    BY <1>2, PathStarts
  <2> HIDE DEF path
  <2> QED  BY <1>2, <2>2, <2>3
<1>3. ASSUME t = "BYE" PROVE Right
  <2>1. n = 4
    BY <1>3, PathStarts
  <2>2. q = 1 \/ q = 2 \/ q = 3 \/ q = 4
    BY <2>1
  <2>3. /\ path[1] = "tautology" /\ path[2] = "saveID" /\ path[3] = "saveDispName"
        /\ path[4] = "scanZero"
    BY <1>3, PathStarts
  <2> HIDE DEF path
  <2> QED  BY <1>3, <2>2, <2>3
<1>4. ASSUME t \in {"MSG", "ERR"} PROVE Right
  <2>1. n = 6
    BY <1>4, PathStarts
  <2>2. q = 1 \/ q = 2 \/ q = 3 \/ q = 4 \/ q = 5 \/ q = 6
    BY <2>1
  <2>3. /\ path[1] = "tautology" /\ path[2] = "saveID" /\ path[3] = "saveDispName"
        /\ path[4] = "scanZero" /\ path[5] = "saveContent" /\ path[6] = "scanZero"
    BY <1>4, PathStarts
  <2> HIDE DEF path
  <2> QED  BY <1>4, <2>2, <2>3
<1>5. ASSUME t = "JOIN" PROVE Right
  <2>1. n = 6
    BY <1>5, PathStarts
  <2>2. q = 1 \/ q = 2 \/ q = 3 \/ q = 4 \/ q = 5 \/ q = 6
    BY <2>1
  <2>3. /\ path[1] = "tautology" /\ path[2] = "saveID" /\ path[3] = "saveChannel"
        /\ path[4] = "scanZero" /\ path[5] = "saveDispName" /\ path[6] = "scanZero"
    BY <1>5, PathStarts
  <2> HIDE DEF path
  <2> QED  BY <1>5, <2>2, <2>3
<1>6. ASSUME t = "AUTH" PROVE Right
  <2>1. n = 8
    BY <1>6, PathStarts
  <2>2. q = 1 \/ q = 2 \/ q = 3 \/ q = 4 \/ q = 5 \/ q = 6 \/ q = 7 \/ q = 8
    BY <2>1
  <2>3. /\ path[1] = "tautology" /\ path[2] = "saveID" /\ path[3] = "saveUsername"
        /\ path[4] = "scanZero" /\ path[5] = "saveDispName" /\ path[6] = "scanZero"
        /\ path[7] = "saveSecret" /\ path[8] = "scanZero"
    BY <1>6, PathStarts
  <2> HIDE DEF path
  <2> QED  BY <1>6, <2>2, <2>3
<1>7. ASSUME t = "REPLY" PROVE Right
  <2>1. n = 7
    BY <1>7, PathStarts
  <2>2. q = 1 \/ q = 2 \/ q = 3 \/ q = 4 \/ q = 5 \/ q = 6 \/ q = 7
    BY <2>1
  <2>3. /\ path[1] = "tautology" /\ path[2] = "saveID" /\ path[3] = "saveStatus"
        /\ path[4] = "tautology" /\ path[5] = "saveReplyID" /\ path[6] = "saveContent"
        /\ path[7] = "scanZero"
    BY <1>7, PathStarts
  <2> HIDE DEF path
  <2> QED  BY <1>7, <2>2, <2>3
<1>8. Right
  <2> HIDE DEF Right
  <2> QED  BY <1>2, <1>3, <1>4, <1>5, <1>6, <1>7 DEF Types
<1> QED  BY <1>8

-----------------------------------------------------------------------------
(* The run, state by state *)

State(t, p) == (t = "INIT" /\ p = 0) \/ (t \in Types /\ p \in 0 .. Len(Paths[t]))

\* As long as the run reads the numbers, its state tells where it is.
Position(d, i, t, p) ==
    IF t = "INIT" THEN i = 0
    ELSE d[1] = Codes[t] /\ (p <= Before(t) => i = p + 1)

Good(run, d, i) ==
    \E t, p, c : /\ State(t, p) /\ c \in ControlsType
                 /\ run = Halt(t, p, c) \/ (run = R(t, p, c) /\ Position(d, i, t, p))

LEMMA NoLoopBefore ==
    ASSUME NEW t \in Types, NEW p \in Nat, p <= Before(t)
    PROVE  Entered(t, p) \notin DOMAIN Loops
<1>1. CASE t # "REPLY"
  <2>1. p = 0 \/ p = 1 \/ p = 2
    BY <1>1 DEF Before
  <2> QED  BY <2>1, Unlooped
<1>2. CASE t = "REPLY"
  <2>1. p = 0 \/ p = 1 \/ p = 2 \/ p = 3 \/ p = 4 \/ p = 5
    BY <1>2 DEF Before
  <2> QED  BY <1>2, <2>1, Unlooped
<1> QED  BY <1>1, <1>2

LEMMA GoodStart ==
    ASSUME NEW ctl \in ControlsType, NEW d
    PROVE  Good(Start(ctl), d, 0)
<1>1. Start(ctl) = R("INIT", 0, ctl)
  BY DEF Start, R
<1>2. State("INIT", 0) /\ Position(d, 0, "INIT", 0)
  BY DEF State, Position
<1> QED  BY <1>1, <1>2 DEF Good

LEMMA GoodFirst ==
    ASSUME NEW c \in ControlsType, NEW d
    PROVE  Good(Step(R("INIT", 0, c), d, 1), d, 1)
<1>1. Start(c) = R("INIT", 0, c)
  BY DEF Start, R
<1>2. ASSUME NEW t \in Types, Codes[t] = d[1] PROVE Good(Step(Start(c), d, 1), d, 1)
  <2>1. Step(Start(c), d, 1) = R(t, 0, c)
    BY <1>2, StepFirst, TypesAre
  <2>2. State(t, 0)
    BY PathType DEF State
  <2>3. Position(d, 1, t, 0)
    BY <1>2 DEF Position, Types
  <2> QED  BY <2>1, <2>2, <2>3 DEF Good
<1>3. ASSUME \A t \in Types : Codes[t] # d[1] PROVE Good(Step(Start(c), d, 1), d, 1)
  <2>1. Step(Start(c), d, 1) = Halt("INIT", 0, c)
    BY <1>3, StepNowhere, TypesAre
  <2>2. State("INIT", 0)
    BY DEF State
  <2> QED  BY <2>1, <2>2 DEF Good
<1> QED  BY <1>1, <1>2, <1>3

LEMMA GoodTaken ==
    ASSUME NEW c \in ControlsType, NEW d, Numeric(d), NEW i \in 1 .. Len(d),
           NEW t \in Types, NEW p \in 0 .. Len(Paths[t]), Position(d, i - 1, t, p)
    PROVE  Good(Step(R(t, p, c), d, i), d, i)
<1> DEFINE n == Len(Paths[t])
           lambda == Paths[t][p + 1]
           saved == Saved(c, lambda, d, i)
<1>1. n \in Nat /\ p \in Nat /\ t \in DOMAIN Paths /\ t # "INIT"
  BY PathType, TypesAre DEF Types
<1>2. Step(R(t, p, c), d, i) =
        IF Stays(t, p, d[i]) THEN R(t, p, c)
        ELSE IF Leaves(t, p, d[i]) THEN R(t, p + 1, saved) ELSE Halt(t, p, c)
  BY <1>1, StepTaken
<1>3. d[1] = Codes[t] /\ (p <= Before(t) => i - 1 = p + 1) /\ State(t, p)
  BY <1>1 DEF Position, State
<1>4. i \in Int
  OBVIOUS
<1>5. CASE Stays(t, p, d[i])
  <2>1. ~ (p <= Before(t))
    BY <1>1, <1>5, NoLoopBefore DEF Stays
  <2>2. Position(d, i, t, p)
    BY <1>1, <1>3, <2>1 DEF Position
  <2>3. Step(R(t, p, c), d, i) = R(t, p, c)
    BY <1>2, <1>5
  <2> QED  BY <1>3, <2>2, <2>3 DEF Good
<1>6. CASE ~ Stays(t, p, d[i]) /\ Leaves(t, p, d[i])
  <2>1. p < n /\ Accepts(lambda, d[i])
    BY <1>6 DEF Leaves
  <2>2. p + 1 \in 1 .. n
    <3> HIDE DEF n
    <3> QED  BY <1>1, <2>1
  <2>3. lambda \in Lambdas
    BY <2>2, PathType
  <2>4. /\ lambda = "saveID" => p + 1 = 2
        /\ lambda = "saveReplyID" => t = "REPLY" /\ p + 1 = 5
    BY <2>2, WhereNumbersAre
  <2> HIDE DEF lambda
  <2>5. lambda \in {"saveID", "saveReplyID"} => ReadID(d, i) \in Ids
    <3> SUFFICES ASSUME lambda \in {"saveID", "saveReplyID"} PROVE ReadID(d, i) \in Ids
      OBVIOUS
    <3>1. CASE lambda = "saveID"
      <4>1. p = 1
        BY <1>1, <2>4, <3>1
      <4>2. p <= Before(t)
        BY <4>1 DEF Before
      <4>3. i = 3
        BY <1>3, <1>4, <4>1, <4>2
      <4> QED  BY <4>3, IdRead
    <3>2. CASE lambda = "saveReplyID"
      <4>1. t = "REPLY" /\ p = 4
        BY <1>1, <2>4, <3>2
      <4>2. p <= Before(t)
        BY <4>1 DEF Before
      <4>3. i = 6 /\ d[1] = Codes["REPLY"]
        BY <1>3, <1>4, <4>1, <4>2
      <4> QED  BY <4>3, IdRead
    <3> QED  BY <3>1, <3>2
  <2>6. saved \in ControlsType
    <3>1. d \in Seq(Int)
      BY DEF Numeric
    <3> QED  BY <2>1, <2>3, <2>5, <3>1, SavedLegible
  <2>7. Step(R(t, p, c), d, i) = R(t, p + 1, saved)
    BY <1>2, <1>6
  <2> HIDE DEF saved
  <2>8. Position(d, i, t, p + 1)
    <3>1. Before(t) \in Int
      BY DEF Before
    <3>2. p + 1 <= Before(t) => i = (p + 1) + 1
      BY <1>1, <1>3, <1>4, <3>1
    <3> QED  BY <1>1, <1>3, <3>2 DEF Position
  <2>9. State(t, p + 1)
    BY <2>2 DEF State
  <2> QED  BY <2>6, <2>7, <2>8, <2>9 DEF Good
<1>7. CASE ~ Stays(t, p, d[i]) /\ ~ Leaves(t, p, d[i])
  <2>1. Step(R(t, p, c), d, i) = Halt(t, p, c)
    BY <1>2, <1>7
  <2> QED  BY <1>3, <2>1 DEF Good
<1> QED  BY <1>5, <1>6, <1>7

LEMMA GoodStep ==
    ASSUME NEW run, NEW d, Numeric(d), NEW i \in 1 .. Len(d), Good(run, d, i - 1)
    PROVE  Good(Step(run, d, i), d, i)
<1>1. PICK t, p, c : /\ State(t, p) /\ c \in ControlsType
                     /\ run = Halt(t, p, c) \/ (run = R(t, p, c) /\ Position(d, i - 1, t, p))
  BY DEF Good
<1>2. CASE run = Halt(t, p, c)
  <2>1. Step(run, d, i) = Halt(t, p, c)
    BY <1>2, StepStopped
  <2> QED  BY <1>1, <2>1 DEF Good
<1>3. CASE run = R(t, p, c) /\ Position(d, i - 1, t, p) /\ t = "INIT"
  <2>1. p = 0
    BY <1>1, <1>3 DEF State, Types
  <2>2. i = 1
    <3>1. i - 1 = 0
      BY <1>3 DEF Position
    <3> QED  BY <3>1
  <2> QED  BY <1>1, <1>3, <2>1, <2>2, GoodFirst
<1>4. CASE run = R(t, p, c) /\ Position(d, i - 1, t, p) /\ t # "INIT"
  <2>1. t \in Types /\ p \in 0 .. Len(Paths[t])
    BY <1>1, <1>4 DEF State
  <2> QED  BY <1>1, <1>4, <2>1, GoodTaken
<1> QED  BY <1>1, <1>2, <1>3, <1>4

LEMMA StateIs ==
    ASSUME NEW t, NEW p, State(t, p)
    PROVE  <<t, p>> \in states
<1>1. CASE t = "INIT" /\ p = 0
  BY <1>1 DEF states
<1>2. CASE t \in Types /\ p \in 0 .. Len(Paths[t])
  <2>1. t \in DOMAIN Paths
    BY <1>2, TypesAre
  <2> QED  BY <1>2, <2>1 DEF states
<1> QED  BY <1>1, <1>2 DEF State

LEMMA RecordShape ==
    ASSUME NEW ctl \in ControlsType
    PROVE  Kept(ctl)
<1> DEFINE V == Ids \cup {0, 1} \cup Legible \cup {<<>>}
<1>1. ctl \in Rec(V)
  BY DEF Rec, ControlsType
<1>2. ctl.username = <<>> /\ ctl.channelID = <<>>
  BY DEF ControlsType
<1> HIDE DEF V
<1> QED  BY <1>1, <1>2 DEF Kept

\* A run ends in a state of the automaton, with controls of their types.
LEMMA RunKept ==
    ASSUME NEW ctl \in ControlsType, NEW d, Numeric(d)
    PROVE  /\ output(Automaton(ctl, d)) \in states
           /\ Automaton(ctl, d).controls \in ControlsType
<1>1. Len(d) \in Nat
  BY SeqType DEF Numeric
<1>2. PICK V : ctl \in Rec(V)
  BY RecordShape DEF Kept
<1>3. PICK g : IsRun(g, ctl, d) /\ Automaton(ctl, d) = g[Len(d)]
  BY <1>1, <1>2, RunExists
<1> DEFINE n == Len(d)
           T == {j \in 0 .. n : Good(g[j], d, j)}
<1>4. 0 \in T
  <2>1. Good(Start(ctl), d, 0)
    BY GoodStart
  <2> QED  BY <1>1, <1>3, <2>1 DEF IsRun
<1>5. ASSUME NEW j \in 0 + 1 .. n, j - 1 \in T PROVE j \in T
  <2>1. j \in 1 .. n /\ j \in 0 .. n /\ Good(g[j - 1], d, j - 1)
    BY <1>1, <1>5
  <2>2. g[j] = Step(g[j - 1], d, j)
    BY <1>3, <2>1 DEF IsRun
  <2>3. Good(g[j], d, j)
    BY <2>1, <2>2, GoodStep
  <2> QED  BY <2>1, <2>3
<1> HIDE DEF T
<1>6. \A j \in 0 .. n : j \in T
  <2>1. 0 \in Int /\ n \in Int
    BY <1>1
  <2> HIDE DEF n
  <2> QED  BY <1>4, <1>5, <2>1, Induction
<1>7. Good(g[n], d, n)
  BY <1>1, <1>6 DEF T
<1>8. PICK t, p, c : /\ State(t, p) /\ c \in ControlsType
                     /\ g[n] = Halt(t, p, c) \/ g[n] = R(t, p, c)
  BY <1>7 DEF Good
<1> DEFINE run == g[n]
<1>9. run = Halt(t, p, c) \/ run = R(t, p, c)
  BY <1>8
<1> HIDE DEF run
<1>10. run.type = t /\ run.passed = p /\ run.controls = c
  BY <1>9 DEF R, Halt
<1>11. output(run) \in states /\ run.controls \in ControlsType
  BY <1>8, <1>10, StateIs DEF output
<1>12. Automaton(ctl, d) = run
  BY <1>3 DEF run
<1> QED  BY <1>11, <1>12

-----------------------------------------------------------------------------
(* The numbers of an encoded message *)

LEMMA TwoBytes ==
    ASSUME NEW x \in Nat, x <= 65535
    PROVE  /\ x \div 256 \in 0 .. 255 /\ x % 256 \in 0 .. 255
           /\ 256 * (x \div 256) + (x % 256) = x
<1>1. x % 256 \in 0 .. 255 /\ x = 256 * (x \div 256) + (x % 256) /\ x \div 256 \in Int
  OBVIOUS
<1> DEFINE q == x \div 256
           r == x % 256
<1> HIDE DEF q, r
<1>2. r \in 0 .. 255 /\ x = 256 * q + r /\ q \in Int
  BY <1>1 DEF q, r
<1>3. q \in 0 .. 255
  BY <1>2
<1> QED  BY <1>2, <1>3 DEF q, r

LEMMA SwappedType ==
    ASSUME NEW x \in Nat, x <= 65535
    PROVE  Swapped(x) \in Nat /\ Swapped(x) <= 65535
<1>1. x \div 256 \in 0 .. 255 /\ x % 256 \in 0 .. 255
  BY TwoBytes
<1> DEFINE q == x \div 256
           r == x % 256
<1>2. Swapped(x) = r * 256 + q
  BY DEF Swapped
<1>3. q \in 0 .. 255 /\ r \in 0 .. 255
  BY <1>1
<1> HIDE DEF q, r
<1>4. r * 256 + q \in Nat /\ r * 256 + q <= 65535
  BY <1>3
<1> QED  BY <1>2, <1>4

LEMMA OnWireType ==
    ASSUME NEW m \in Messages, NEW n \in 0 .. NoId
    PROVE  OnWire(m, n) \in Nat /\ OnWire(m, n) <= 65535
<1>1. \A x \in 0 .. NoId : x \in Nat /\ x <= 65535
  <2>1. NoId = 65535
    BY DEF NoId
  <2>2. NoId \in Int
    BY <2>1
  <2>3. ASSUME NEW x \in 0 .. NoId PROVE x \in Nat /\ x <= NoId
    BY <2>2
  <2>4. ASSUME NEW x, x \in Nat, x <= NoId PROVE x <= 65535
    BY <2>1, <2>4
  <2> QED  BY <2>3, <2>4
<1>2. m.id \in 0 .. NoId /\ m.ref \in 0 .. NoId
  BY DEF Messages
<1> DEFINE x == IF m.id = NoId THEN n ELSE m.id
<1>3. x \in Nat /\ x <= 65535 /\ m.ref \in Nat /\ m.ref <= 65535
  BY <1>1, <1>2
<1>4. OnWire(m, n) = IF m.type = "CONFIRM" THEN m.ref ELSE Swapped(x)
  BY DEF OnWire
<1> HIDE DEF x
<1> QED  BY <1>3, <1>4, SwappedType

\* The types that are sent.
Sendable == {"CONFIRM", "PING", "MSG", "ERR", "BYE", "JOIN", "AUTH"}

LEMMA MessageType ==
    ASSUME NEW m \in Messages
    PROVE  m.type \in Sendable \/ m.type \in {"REPLY", "NONE"}
<1>1. m.type \in DOMAIN Codes
  BY DEF Messages
<1>2. DOMAIN Codes = {"CONFIRM", "REPLY", "AUTH", "JOIN", "MSG", "NONE", "PING", "ERR", "BYE"}
  BY DEF Codes
<1> QED  BY <1>1, <1>2 DEF Sendable

\* The strings of each type.
LEMMA FieldsOf ==
    ASSUME NEW m, NEW config
    PROVE  /\ m.type \in {"CONFIRM", "PING"} => Fields(m, config) = <<>>
           /\ m.type = "BYE" => Fields(m, config) = <<m.author>>
           /\ m.type \in {"MSG", "ERR"} => Fields(m, config) = <<m.author, m.text>>
           /\ m.type = "JOIN" => Fields(m, config) = <<config.channel, m.author>>
           /\ m.type = "AUTH" =>
                Fields(m, config) = <<config.username, m.author, config.secret>>
<1>1. ASSUME m.type \in {"CONFIRM", "PING"} PROVE Fields(m, config) = <<>>
  <2>1. /\ m.type \notin {"MSG", "ERR"} /\ m.type # "AUTH" /\ m.type # "JOIN" /\ m.type # "BYE"
    BY <1>1
  <2> QED  BY <2>1, Zenon DEF Fields
<1>2. ASSUME m.type = "BYE" PROVE Fields(m, config) = <<m.author>>
  BY <1>2 DEF Fields
<1>3. ASSUME m.type \in {"MSG", "ERR"} PROVE Fields(m, config) = <<m.author, m.text>>
  BY <1>3 DEF Fields
<1>4. ASSUME m.type = "JOIN" PROVE Fields(m, config) = <<config.channel, m.author>>
  BY <1>4 DEF Fields
<1>5. ASSUME m.type = "AUTH"
      PROVE  Fields(m, config) = <<config.username, m.author, config.secret>>
  BY <1>5 DEF Fields
<1> QED  BY <1>1, <1>2, <1>3, <1>4, <1>5

\* At most three strings.
Some(ss) ==
    \/ ss = <<>>
    \/ \E x \in Seq(Int) : ss = <<x>>
    \/ \E x, y \in Seq(Int) : ss = <<x, y>>
    \/ \E x, y, z \in Seq(Int) : ss = <<x, y, z>>

LEMMA TypedTexts ==
    ASSUME NEW m \in Messages, NEW config \in Configs
    PROVE  /\ m.author \in Seq(Int) /\ m.text \in Seq(Int)
           /\ config.username \in Seq(Int) /\ config.secret \in Seq(Int)
           /\ config.channel \in Seq(Int)
<1>1. /\ DisplayName \in TextWords /\ MessageContent \in TextWords /\ Username \in TextWords
      /\ Secret \in TextWords /\ ChannelID \in TextWords
  BY DEF TextWords
<1>2. \A w \in TextWords : Texts(m, config)[w] \in Seq(Int)
  BY TextsType
<1> QED  BY <1>1, <1>2, TextsAre

LEMMA FieldsType ==
    ASSUME NEW m \in Messages, NEW config \in Configs, m.type \in Sendable
    PROVE  Some(Fields(m, config))
<1>1. /\ m.author \in Seq(Int) /\ m.text \in Seq(Int)
      /\ config.username \in Seq(Int) /\ config.secret \in Seq(Int)
      /\ config.channel \in Seq(Int)
  BY TypedTexts
<1>2. CASE m.type \in {"CONFIRM", "PING"}
  BY <1>2, FieldsOf DEF Some
<1>3. CASE m.type = "BYE"
  BY <1>1, <1>3, FieldsOf DEF Some
<1>4. CASE m.type \in {"MSG", "ERR"}
  BY <1>1, <1>4, FieldsOf DEF Some
<1>5. CASE m.type = "JOIN"
  BY <1>1, <1>5, FieldsOf DEF Some
<1>6. CASE m.type = "AUTH"
  BY <1>1, <1>6, FieldsOf DEF Some
<1> QED  BY <1>2, <1>3, <1>4, <1>5, <1>6 DEF Sendable

LEMMA StringsType ==
    ASSUME NEW ss, Some(ss)
    PROVE  Strings(ss) \in Seq(Int)
<1>1. \A x \in Seq(Int) : Append(x, NUL) \in Seq(Int)
  BY DEF NUL
<1>2. <<>> \in Seq(Int)
  OBVIOUS
<1>3. \A x, y \in Seq(Int) : x \o y \in Seq(Int)
  BY Concat
<1>4. CASE ss = <<>>
  <2>1. Strings(ss) = <<>> \o (<<>> \o <<>>)
    BY <1>4 DEF Strings, Ended
  <2> QED  BY <1>2, <1>3, <2>1
<1>5. ASSUME NEW x \in Seq(Int), ss = <<x>> PROVE Strings(ss) \in Seq(Int)
  <2>1. Strings(ss) = Append(x, NUL) \o (<<>> \o <<>>)
    BY <1>5, Strings1
  <2> QED  BY <1>1, <1>2, <1>3, <2>1
<1>6. ASSUME NEW x \in Seq(Int), NEW y \in Seq(Int), ss = <<x, y>>
      PROVE  Strings(ss) \in Seq(Int)
  <2>1. Strings(ss) = Append(x, NUL) \o (Append(y, NUL) \o <<>>)
    BY <1>6, Strings2
  <2> QED  BY <1>1, <1>2, <1>3, <2>1
<1>7. ASSUME NEW x \in Seq(Int), NEW y \in Seq(Int), NEW z \in Seq(Int), ss = <<x, y, z>>
      PROVE  Strings(ss) \in Seq(Int)
  <2>1. Strings(ss) = Append(x, NUL) \o (Append(y, NUL) \o Append(z, NUL))
    BY <1>7, Strings3
  <2> QED  BY <1>1, <1>2, <1>3, <2>1
<1> QED  BY <1>4, <1>5, <1>6, <1>7 DEF Some

\* What comes before the strings.
Lead(m, n) == <<Codes[m.type]>> \o Word(OnWire(m, n))

LEMMA LeadIs ==
    ASSUME NEW m \in Messages, NEW n \in 0 .. NoId
    PROVE  /\ Lead(m, n) \in Seq(Int) /\ Len(Lead(m, n)) = 3
           /\ Lead(m, n)[1] = Codes[m.type] /\ Lead(m, n)[2] = OnWire(m, n) \div 256
           /\ Lead(m, n)[3] = OnWire(m, n) % 256
<1> DEFINE a == Codes[m.type]
           b == OnWire(m, n) \div 256
           c == OnWire(m, n) % 256
<1>1. a \in Int
  BY DEF Messages, Codes
<1>2. b \in Int /\ c \in Int
  BY OnWireType
<1>3. Lead(m, n) = <<a>> \o <<b, c>>
  BY DEF Lead, Word
<1> HIDE DEF a, b, c
<1> DEFINE p == <<a>>
           q == <<b, c>>
<1>4. p \in Seq(Int) /\ q \in Seq(Int)
  BY <1>1, <1>2
<1>5. Len(p) = 1 /\ p[1] = a /\ Len(q) = 2 /\ q[1] = b /\ q[2] = c
  OBVIOUS
<1> HIDE DEF p, q
<1>6. /\ p \o q \in Seq(Int) /\ Len(p \o q) = Len(p) + Len(q)
      /\ \A i \in 1 .. Len(p) : (p \o q)[i] = p[i]
      /\ \A i \in 1 .. Len(q) : (p \o q)[Len(p) + i] = q[i]
  BY <1>4, Concat
<1> DEFINE l == p \o q
<1>7. /\ l \in Seq(Int) /\ Len(l) = Len(p) + Len(q)
      /\ \A i \in 1 .. Len(p) : l[i] = p[i]
      /\ \A i \in 1 .. Len(q) : l[Len(p) + i] = q[i]
  BY <1>6
<1> HIDE DEF l
<1>8. Len(l) = 3 /\ l[1] = a
  BY <1>5, <1>7
<1>9. l[2] = b /\ l[3] = c
  <2>1. 1 \in 1 .. Len(q) /\ 2 \in 1 .. Len(q) /\ Len(p) + 1 = 2 /\ Len(p) + 2 = 3
    BY <1>5
  <2> QED  BY <1>5, <1>7, <2>1
<1>10. Lead(m, n) = l
  BY <1>3 DEF l, p, q
<1> QED  BY <1>7, <1>8, <1>9, <1>10 DEF a, b, c

LEMMA LayoutIs ==
    ASSUME NEW m \in Messages, NEW config \in Configs, NEW n \in 0 .. NoId, m.type \in Sendable
    PROVE  LET d == Layout(m, config, n)
           IN  /\ d = Lead(m, n) \o Strings(Fields(m, config))
               /\ d \in Seq(Int) /\ Len(d) >= 3
               /\ d[1] = Codes[m.type] /\ d[2] \in 0 .. 255 /\ d[3] \in 0 .. 255
               /\ 256 * d[2] + d[3] = OnWire(m, n)
<1> DEFINE a == Lead(m, n)
           b == Strings(Fields(m, config))
           d == Layout(m, config, n)
           w == OnWire(m, n)
<1>1. d = a \o b
  BY DEF Layout, Lead
<1>2. /\ a \in Seq(Int) /\ Len(a) = 3 /\ a[1] = Codes[m.type] /\ a[2] = w \div 256
      /\ a[3] = w % 256
  BY LeadIs
<1>3. b \in Seq(Int) /\ Len(b) \in Nat
  <2>1. b \in Seq(Int)
    BY FieldsType, StringsType
  <2> HIDE DEF b
  <2> QED  BY <2>1, SeqType
<1>4. w \in Nat /\ w <= 65535
  BY OnWireType
<1> HIDE DEF a, b, d, w
<1>5. /\ a \o b \in Seq(Int) /\ Len(a \o b) = Len(a) + Len(b)
      /\ \A i \in 1 .. Len(a) : (a \o b)[i] = a[i]
  <2>1. a \in Seq(Int) /\ b \in Seq(Int)
    BY <1>2, <1>3
  <2> QED  BY <2>1, Concat
<1>6. d[1] = a[1] /\ d[2] = a[2] /\ d[3] = a[3]
  BY <1>1, <1>2, <1>5
<1>7. Len(d) >= 3 /\ d \in Seq(Int)
  BY <1>1, <1>2, <1>3, <1>5
<1>8. w \div 256 \in 0 .. 255 /\ w % 256 \in 0 .. 255 /\ 256 * (w \div 256) + (w % 256) = w
  BY <1>4, TwoBytes
<1>9. d[2] \in 0 .. 255 /\ d[3] \in 0 .. 255 /\ 256 * d[2] + d[3] = w /\ d[1] = Codes[m.type]
  <2> DEFINE q == w \div 256
             r == w % 256
  <2>1. q \in 0 .. 255 /\ r \in 0 .. 255 /\ 256 * q + r = w
    BY <1>8
  <2>2. d[2] = q /\ d[3] = r /\ d[1] = Codes[m.type]
    BY <1>2, <1>6
  <2> HIDE DEF q, r
  <2> QED  BY <2>1, <2>2
<1> QED  BY <1>1, <1>7, <1>9 DEF a, b, d, w

LEMMA EncodedNumeric ==
    ASSUME NEW m \in Messages, NEW config \in Configs, NEW n \in 0 .. NoId
    PROVE  Numeric(EncodeBinary(m, config, n))
<1> DEFINE d == EncodeBinary(m, config, n)
<1>0. n \in Int
  BY DEF NoId
<1>1. CASE m.type \in Sendable
  <2>1. d = Layout(m, config, n)
    <3>1. m.type \notin {"REPLY", "NONE"}
      BY <1>1 DEF Sendable
    <3> QED  BY <1>0, <3>1, Encoded
  <2>2. /\ d \in Seq(Int) /\ d[1] = Codes[m.type] /\ d[2] \in 0 .. 255 /\ d[3] \in 0 .. 255
    <3> DEFINE e == Layout(m, config, n)
    <3>1. /\ e \in Seq(Int) /\ e[1] = Codes[m.type] /\ e[2] \in 0 .. 255
          /\ e[3] \in 0 .. 255
      BY <1>1, LayoutIs
    <3> HIDE DEF e
    <3>2. d = e
      BY <2>1 DEF e
    <3> HIDE DEF d
    <3> QED  BY <3>1, <3>2
  <2>3. d[1] # Codes["REPLY"]
    <3>1. Codes[m.type] # Codes["REPLY"]
      BY <1>1 DEF Sendable, Codes
    <3> QED  BY <2>2, <3>1
  <2> HIDE DEF d
  <2>4. Numeric(d)
    BY <2>2, <2>3 DEF Numeric
  <2> QED  BY <2>4 DEF d
<1>2. CASE m.type \in {"REPLY", "NONE"}
  <2>1. d = <<>>
    BY <1>0, <1>2, Encoded
  <2>2. <<>> \in Seq(Int) /\ ~ (Len(<<>>) >= 3) /\ ~ (Len(<<>>) >= 6)
    OBVIOUS
  <2> HIDE DEF d
  <2>3. Numeric(d)
    BY <2>1, <2>2 DEF Numeric
  <2> QED  BY <2>3 DEF d
<1> QED  BY <1>1, <1>2, MessageType

-----------------------------------------------------------------------------
(* The strings of an encoded message, as they are found again *)

\* From position i on a text has string x, and a zero behind it.
HasAt(d, i, x) ==
    /\ 1 <= i /\ i + Len(x) <= Len(d) /\ d[i + Len(x)] = NUL
    /\ \A k \in 1 .. Len(x) : d[i + k - 1] = x[k]

Plain(x) == \A k \in 1 .. Len(x) : x[k] # NUL

LEMMA AtFront ==
    ASSUME NEW a \in Seq(Int), NEW x \in Seq(Int), NEW r \in Seq(Int)
    PROVE  HasAt(a \o (Append(x, NUL) \o r), Len(a) + 1, x)
<1> DEFINE y == Append(x, NUL)
           b == y \o r
           d == a \o b
<1>1. Len(a) \in Nat /\ Len(x) \in Nat /\ Len(r) \in Nat
  BY SeqType
<1>2. /\ y \in Seq(Int) /\ Len(y) = Len(x) + 1 /\ y[Len(x) + 1] = NUL
      /\ \A k \in 1 .. Len(x) : y[k] = x[k]
  BY <1>1 DEF NUL
<1> HIDE DEF y
<1>3. /\ b \in Seq(Int) /\ Len(b) = Len(y) + Len(r)
      /\ \A k \in 1 .. Len(y) : b[k] = y[k]
  BY <1>2, Concat
<1> HIDE DEF b
<1>4. /\ Len(d) = Len(a) + Len(b)
      /\ \A k \in 1 .. Len(b) : d[Len(a) + k] = b[k]
  <2>1. b \in Seq(Int)
    BY <1>3
  <2>2. /\ a \o b \in Seq(Int) /\ Len(a \o b) = Len(a) + Len(b)
        /\ \A k \in 1 .. Len(a) : (a \o b)[k] = a[k]
        /\ \A k \in 1 .. Len(b) : (a \o b)[Len(a) + k] = b[k]
    BY <2>1, Concat
  <2> QED  BY <2>2
<1> HIDE DEF d
<1>5. ASSUME NEW k \in 1 .. Len(x) PROVE d[Len(a) + 1 + k - 1] = x[k]
  <2>1. k \in 1 .. Len(y) /\ k \in 1 .. Len(b) /\ Len(a) + 1 + k - 1 = Len(a) + k
    BY <1>1, <1>2, <1>3
  <2> QED  BY <1>2, <1>3, <1>4, <2>1
<1>6. d[Len(a) + 1 + Len(x)] = NUL
  <2> DEFINE k == Len(x) + 1
  <2>1. k \in 1 .. Len(y) /\ k \in 1 .. Len(b) /\ Len(a) + 1 + Len(x) = Len(a) + k
    BY <1>1, <1>2, <1>3
  <2>2. y[k] = NUL
    BY <1>2
  <2> HIDE DEF k
  <2> QED  BY <1>3, <1>4, <2>1, <2>2
<1>7. 1 <= Len(a) + 1 /\ Len(a) + 1 + Len(x) <= Len(d)
  BY <1>1, <1>2, <1>3, <1>4
<1>8. HasAt(d, Len(a) + 1, x)
  BY <1>5, <1>6, <1>7 DEF HasAt
<1> QED  BY <1>8 DEF d, b, y

LEMMA EndAt ==
    ASSUME NEW d \in Seq(Int), NEW i \in Int, NEW x \in Seq(Int), HasAt(d, i, x), Plain(x)
    PROVE  End(d, i) = i + Len(x) /\ End(d, i) <= Len(d) /\ SubSeq(d, i, End(d, i) - 1) = x
<1> DEFINE e == i + Len(x)
           s == SubSeq(d, i, e - 1)
<1>1. Len(d) \in Nat /\ Len(x) \in Nat
  BY SeqType
<1>2. /\ 1 <= i /\ e <= Len(d) /\ d[e] = NUL
      /\ \A k \in 1 .. Len(x) : d[i + k - 1] = x[k]
  BY DEF HasAt
<1>3. ASSUME NEW j \in i .. e - 1 PROVE d[j] # NUL
  <2> DEFINE k == j - i + 1
  <2>1. k \in 1 .. Len(x) /\ i + k - 1 = j
    BY <1>1
  <2> HIDE DEF k
  <2>2. d[j] = x[k] /\ x[k] # NUL
    BY <1>2, <2>1 DEF Plain
  <2> QED  BY <2>2
<1>4. i \in 1 .. Len(d) /\ e \in i .. Len(d)
  BY <1>1, <1>2
<1>5. End(d, i) = e
  <2> HIDE DEF e
  <2> QED  BY <1>1, <1>2, <1>3, <1>4, EndFound
<1>6. s = x
  <2>1. e - 1 \in Int /\ e - 1 <= Len(d) /\ 1 <= i
    BY <1>1, <1>2
  <2>2. /\ s \in Seq(Int) /\ Len(s) = IF i <= e - 1 THEN e - 1 - i + 1 ELSE 0
        /\ \A k \in 1 .. e - 1 - i + 1 : s[k] = d[i + k - 1]
    <3> HIDE DEF e
    <3> QED  BY <2>1, Piece
  <2> HIDE DEF s
  <2>3. Len(s) = Len(x) /\ e - 1 - i + 1 = Len(x)
    BY <1>1, <1>2, <2>2
  <2>4. \A k \in 1 .. Len(s) : s[k] = x[k]
    BY <1>2, <2>2, <2>3
  <2> QED  BY <2>2, <2>3, <2>4, Equal
<1> QED  BY <1>2, <1>5, <1>6

\* The strings of a datagram are those of a list.
Cuts(d, i, ss) ==
    \A k \in 1 .. Len(ss) : Ends(d, i)[k] <= Len(d) /\ Cut(d, i)[k] = ss[k]

LEMMA Cuts1 ==
    ASSUME NEW a \in Seq(Int), NEW x \in Seq(Int), Plain(x), NEW r \in Seq(Int)
    PROVE  Cuts(a \o (Append(x, NUL) \o r), Len(a) + 1, <<x>>)
<1> DEFINE d == a \o (Append(x, NUL) \o r)
           i == Len(a) + 1
<1>1. HasAt(d, i, x)
  BY AtFront
<1>2. d \in Seq(Int) /\ i \in Int
  <2>1. Append(x, NUL) \in Seq(Int)
    BY DEF NUL
  <2>2. Append(x, NUL) \o r \in Seq(Int)
    BY <2>1, Concat
  <2>3. Len(a) \in Nat
    BY SeqType
  <2> QED  BY <2>2, <2>3, Concat
<1> HIDE DEF d, i
<1>3. End(d, i) <= Len(d) /\ SubSeq(d, i, End(d, i) - 1) = x
  BY <1>1, <1>2, EndAt
<1>4. Ends(d, i)[1] = End(d, i) /\ Cut(d, i)[1] = SubSeq(d, i, End(d, i) - 1)
  BY EndsAre
<1>5. 1 .. Len(<<x>>) = {1} /\ <<x>>[1] = x
  OBVIOUS
<1> DEFINE ss == <<x>>
<1> HIDE DEF ss
<1>6. Cuts(d, i, ss)
  BY <1>3, <1>4, <1>5 DEF Cuts, ss
<1> QED  BY <1>6 DEF ss, d, i

Grouped(p, q, r) == (p \o q) \o r = p \o (q \o r)

LEMMA GroupedIs ==
    ASSUME NEW p \in Seq(Int), NEW q \in Seq(Int), NEW r \in Seq(Int)
    PROVE  Grouped(p, q, r)
BY Assoc DEF Grouped

LEMMA Cuts2 ==
    ASSUME NEW a \in Seq(Int), NEW x \in Seq(Int), Plain(x), NEW y \in Seq(Int), Plain(y),
           NEW r \in Seq(Int)
    PROVE  Cuts(a \o (Append(x, NUL) \o (Append(y, NUL) \o r)), Len(a) + 1, <<x, y>>)
<1> DEFINE X == Append(x, NUL)
           Y == Append(y, NUL)
           d == a \o (X \o (Y \o r))
           i == Len(a) + 1
           j == Len(a \o X) + 1
<1>1. X \in Seq(Int) /\ Y \in Seq(Int) /\ Len(X) = Len(x) + 1
  BY DEF NUL
<1>2. Y \o r \in Seq(Int) /\ a \o X \in Seq(Int)
  <2> HIDE DEF X, Y
  <2> QED  BY <1>1, Concat
<1>3. d = (a \o X) \o (Y \o r) /\ d \in Seq(Int)
  <2> HIDE DEF X, Y
  <2>1. X \o (Y \o r) \in Seq(Int)
    BY <1>1, <1>2, Concat
  <2>2. a \o (X \o (Y \o r)) \in Seq(Int)
    BY <2>1, Concat
  <2> DEFINE s == Y \o r
  <2>3. s \in Seq(Int)
    BY <1>2
  <2> HIDE DEF s
  <2>4. Grouped(a, X, s)
    <3> HIDE DEF X
    <3> QED  BY <1>1, <2>3, GroupedIs
  <2>5. (a \o X) \o s = a \o (X \o s)
    BY <2>4 DEF Grouped
  <2> QED  BY <2>2, <2>5 DEF s
<1>4. HasAt(d, i, x)
  BY <1>2, AtFront
<1>5. HasAt(d, j, y)
  <2>1. HasAt((a \o X) \o (Append(y, NUL) \o r), Len(a \o X) + 1, y)
    BY <1>2, AtFront
  <2> QED  BY <1>3, <2>1
<1>6. Len(a) \in Nat /\ Len(x) \in Nat
  BY SeqType
<1>7. Len(a \o X) = Len(a) + Len(X)
  <2> HIDE DEF X
  <2> QED  BY <1>1, Concat
<1>8. i \in Int /\ j \in Int /\ j = i + Len(x) + 1
  BY <1>1, <1>6, <1>7
<1> HIDE DEF d, i, j
<1>9. End(d, i) = i + Len(x) /\ End(d, i) <= Len(d) /\ SubSeq(d, i, End(d, i) - 1) = x
  BY <1>3, <1>4, <1>8, EndAt
<1>10. End(d, j) <= Len(d) /\ SubSeq(d, j, End(d, j) - 1) = y
  BY <1>3, <1>5, <1>8, EndAt
<1>11. j = End(d, i) + 1
  BY <1>8, <1>9
<1>12. /\ Ends(d, i)[1] = End(d, i) /\ Ends(d, i)[2] = End(d, End(d, i) + 1)
       /\ Cut(d, i)[1] = SubSeq(d, i, End(d, i) - 1)
       /\ Cut(d, i)[2] = SubSeq(d, End(d, i) + 1, End(d, End(d, i) + 1) - 1)
  BY EndsAre
<1>13. /\ Ends(d, i)[1] <= Len(d) /\ Ends(d, i)[2] <= Len(d)
       /\ Cut(d, i)[1] = x /\ Cut(d, i)[2] = y
  BY <1>9, <1>10, <1>11, <1>12
<1> DEFINE ss == <<x, y>>
<1>14. 1 .. Len(ss) = {1, 2} /\ ss[1] = x /\ ss[2] = y
  OBVIOUS
<1> HIDE DEF ss
<1>15. Cuts(d, i, ss)
  BY <1>13, <1>14 DEF Cuts
<1> QED  BY <1>15 DEF ss, d, i

LEMMA Cuts3 ==
    ASSUME NEW a \in Seq(Int), NEW x \in Seq(Int), Plain(x), NEW y \in Seq(Int), Plain(y),
           NEW z \in Seq(Int), Plain(z)
    PROVE  Cuts(a \o (Append(x, NUL) \o (Append(y, NUL) \o Append(z, NUL))),
                Len(a) + 1, <<x, y, z>>)
<1> DEFINE X == Append(x, NUL)
           Y == Append(y, NUL)
           Z == Append(z, NUL)
           d == a \o (X \o (Y \o Z))
           i == Len(a) + 1
           b == a \o X
           c == b \o Y
           j == Len(b) + 1
           k == Len(c) + 1
<1>1. /\ X \in Seq(Int) /\ Y \in Seq(Int) /\ Z \in Seq(Int)
      /\ Len(X) = Len(x) + 1 /\ Len(Y) = Len(y) + 1
  BY DEF NUL
<1>2. /\ Y \o Z \in Seq(Int) /\ b \in Seq(Int) /\ Len(b) = Len(a) + Len(X)
      /\ <<>> \in Seq(Int)
  <2> HIDE DEF X, Y, Z
  <2>1. Y \o Z \in Seq(Int)
    BY <1>1, Concat
  <2>2. a \o X \in Seq(Int) /\ Len(a \o X) = Len(a) + Len(X)
    BY <1>1, Concat
  <2> QED  BY <2>1, <2>2
<1>3. c \in Seq(Int) /\ Len(c) = Len(b) + Len(Y)
  <2> HIDE DEF b, Y
  <2> QED  BY <1>1, <1>2, Concat
<1>4. X \o (Y \o Z) \in Seq(Int)
  <2> DEFINE s == Y \o Z
  <2>1. s \in Seq(Int)
    BY <1>2
  <2> HIDE DEF X, s
  <2>2. X \o s \in Seq(Int)
    BY <1>1, <2>1, Concat
  <2> QED  BY <2>2 DEF s
<1>5. d \in Seq(Int)
  <2> DEFINE s == X \o (Y \o Z)
  <2>1. s \in Seq(Int)
    BY <1>4
  <2> HIDE DEF s
  <2>2. a \o s \in Seq(Int)
    BY <2>1, Concat
  <2> QED  BY <2>2 DEF s
<1>6. d = b \o (Y \o Z)
  <2> DEFINE s == Y \o Z
  <2>1. s \in Seq(Int)
    BY <1>2
  <2> HIDE DEF X, s
  <2>2. Grouped(a, X, s)
    BY <1>1, <2>1, GroupedIs
  <2>3. (a \o X) \o s = a \o (X \o s)
    BY <2>2 DEF Grouped
  <2> QED  BY <2>3 DEF s
<1>7. d = c \o (Z \o <<>>)
  <2> HIDE DEF d, b, Y, Z
  <2>1. Grouped(b, Y, Z)
    BY <1>1, <1>2, GroupedIs
  <2>2. (b \o Y) \o Z = b \o (Y \o Z)
    BY <2>1 DEF Grouped
  <2>3. Z \o <<>> = Z
    BY <1>1, NoPart
  <2> QED  BY <1>6, <2>2, <2>3
<1>8. HasAt(d, i, x)
  BY <1>2, AtFront
<1>9. HasAt(d, j, y)
  <2> HIDE DEF d, b, Z
  <2>1. HasAt(b \o (Append(y, NUL) \o Z), Len(b) + 1, y)
    BY <1>1, <1>2, AtFront
  <2> QED  BY <1>6, <2>1
<1>10. HasAt(d, k, z)
  <2> HIDE DEF d, c
  <2>1. HasAt(c \o (Append(z, NUL) \o <<>>), Len(c) + 1, z)
    BY <1>2, <1>3, AtFront
  <2> QED  BY <1>7, <2>1
<1>11. Len(a) \in Nat /\ Len(x) \in Nat /\ Len(y) \in Nat
  BY SeqType
<1>12. /\ i \in Int /\ j \in Int /\ k \in Int
       /\ j = i + Len(x) + 1 /\ k = j + Len(y) + 1
  <2> HIDE DEF b, c, X, Y
  <2> QED  BY <1>1, <1>2, <1>3, <1>11
<1> HIDE DEF d, i, j, k
<1>13. End(d, i) = i + Len(x) /\ End(d, i) <= Len(d) /\ SubSeq(d, i, End(d, i) - 1) = x
  BY <1>5, <1>8, <1>12, EndAt
<1>14. End(d, j) = j + Len(y) /\ End(d, j) <= Len(d) /\ SubSeq(d, j, End(d, j) - 1) = y
  BY <1>5, <1>9, <1>12, EndAt
<1>15. End(d, k) <= Len(d) /\ SubSeq(d, k, End(d, k) - 1) = z
  BY <1>5, <1>10, <1>12, EndAt
<1>16. j = End(d, i) + 1 /\ k = End(d, j) + 1
  BY <1>12, <1>13, <1>14
<1>17. /\ Ends(d, i)[1] = End(d, i) /\ Ends(d, i)[2] = End(d, End(d, i) + 1)
       /\ Ends(d, i)[3] = End(d, End(d, End(d, i) + 1) + 1)
       /\ Cut(d, i)[1] = SubSeq(d, i, End(d, i) - 1)
       /\ Cut(d, i)[2] = SubSeq(d, End(d, i) + 1, End(d, End(d, i) + 1) - 1)
       /\ Cut(d, i)[3] = SubSeq(d, End(d, End(d, i) + 1) + 1,
                                End(d, End(d, End(d, i) + 1) + 1) - 1)
  BY EndsAre
<1>18. /\ Ends(d, i)[1] <= Len(d) /\ Ends(d, i)[2] <= Len(d) /\ Ends(d, i)[3] <= Len(d)
       /\ Cut(d, i)[1] = x /\ Cut(d, i)[2] = y /\ Cut(d, i)[3] = z
  BY <1>13, <1>14, <1>15, <1>16, <1>17
<1> DEFINE ss == <<x, y, z>>
<1>19. 1 .. Len(ss) = {1, 2, 3} /\ ss[1] = x /\ ss[2] = y /\ ss[3] = z
  OBVIOUS
<1> HIDE DEF ss
<1>20. Cuts(d, i, ss)
  BY <1>18, <1>19 DEF Cuts
<1> QED  BY <1>20 DEF ss, d, i

-----------------------------------------------------------------------------
(* From one end to the other *)

SentMessage(m, config, n) ==
    [type |-> m.type, id |-> OnWire(m, n), ref |-> 0, ok |-> FALSE,
     author |-> NamePart(m.type, Fields(m, config)), text |-> TextPart(m.type, Fields(m, config))]

\* No string has a zero of its own.
AllPlain(ss) == \A k \in 1 .. Len(ss) : Plain(ss[k])

LEMMA StringsCut ==
    ASSUME NEW a \in Seq(Int), NEW ss, Some(ss), AllPlain(ss)
    PROVE  Cuts(a \o Strings(ss), Len(a) + 1, ss)
<1>1. CASE ss = <<>>
  BY <1>1 DEF Cuts
<1>2. ASSUME NEW x \in Seq(Int), ss = <<x>> PROVE Cuts(a \o Strings(ss), Len(a) + 1, ss)
  <2>1. Strings(ss) = Append(x, NUL) \o (<<>> \o <<>>)
    BY <1>2, Strings1
  <2>2. <<>> \o <<>> \in Seq(Int)
    OBVIOUS
  <2>3. Plain(x)
    BY <1>2 DEF AllPlain
  <2>4. Cuts(a \o (Append(x, NUL) \o (<<>> \o <<>>)), Len(a) + 1, <<x>>)
    BY <2>2, <2>3, Cuts1
  <2> QED  BY <1>2, <2>1, <2>4
<1>3. ASSUME NEW x \in Seq(Int), NEW y \in Seq(Int), ss = <<x, y>>
      PROVE  Cuts(a \o Strings(ss), Len(a) + 1, ss)
  <2>1. Strings(ss) = Append(x, NUL) \o (Append(y, NUL) \o <<>>)
    BY <1>3, Strings2
  <2>2. <<>> \in Seq(Int)
    OBVIOUS
  <2>3. Plain(x) /\ Plain(y)
    <3>1. Len(ss) = 2 /\ ss[1] = x /\ ss[2] = y
      BY <1>3
    <3>2. 1 \in 1 .. 2 /\ 2 \in 1 .. 2
      OBVIOUS
    <3> QED  BY <3>1, <3>2 DEF AllPlain
  <2>4. Cuts(a \o (Append(x, NUL) \o (Append(y, NUL) \o <<>>)), Len(a) + 1, <<x, y>>)
    BY <2>2, <2>3, Cuts2
  <2> QED  BY <1>3, <2>1, <2>4
<1>4. ASSUME NEW x \in Seq(Int), NEW y \in Seq(Int), NEW z \in Seq(Int), ss = <<x, y, z>>
      PROVE  Cuts(a \o Strings(ss), Len(a) + 1, ss)
  <2>1. Strings(ss) = Append(x, NUL) \o (Append(y, NUL) \o Append(z, NUL))
    BY <1>4, Strings3
  <2>2. Plain(x) /\ Plain(y) /\ Plain(z)
    <3>1. Len(ss) = 3 /\ ss[1] = x /\ ss[2] = y /\ ss[3] = z
      BY <1>4
    <3>2. 1 \in 1 .. 3 /\ 2 \in 1 .. 3 /\ 3 \in 1 .. 3
      OBVIOUS
    <3> QED  BY <3>1, <3>2 DEF AllPlain
  <2>3. Cuts(a \o (Append(x, NUL) \o (Append(y, NUL) \o Append(z, NUL))), Len(a) + 1, <<x, y, z>>)
    BY <2>2, Cuts3
  <2> QED  BY <1>4, <2>1, <2>3
<1> QED  BY <1>1, <1>2, <1>3, <1>4 DEF Some

LEMMA LayoutCuts ==
    ASSUME NEW m \in Messages, NEW config \in Configs, NEW n \in 0 .. NoId, m.type \in Sendable,
           AllPlain(Fields(m, config))
    PROVE  Cuts(Layout(m, config, n), 4, Fields(m, config))
<1> DEFINE a == Lead(m, n)
           ss == Fields(m, config)
<1>1. a \in Seq(Int) /\ Len(a) = 3
  BY LeadIs
<1>2. Some(ss)
  BY FieldsType
<1>3. Layout(m, config, n) = a \o Strings(ss)
  BY DEF Layout, Lead
<1> HIDE DEF a
<1>4. Cuts(a \o Strings(ss), Len(a) + 1, ss)
  BY <1>1, <1>2, StringsCut
<1>5. Len(a) + 1 = 4
  BY <1>1
<1> QED  BY <1>3, <1>4, <1>5

\* How many strings a type has.
Count(t) == IF t \in {"CONFIRM", "PING"} THEN 0 ELSE IF t = "BYE" THEN 1
            ELSE IF t = "AUTH" THEN 3 ELSE 2

LEMMA CountIs ==
    ASSUME NEW m, NEW config, m.type \in Sendable
    PROVE  /\ Len(Fields(m, config)) = Count(m.type)
           /\ DOMAIN Fields(m, config) = 1 .. Count(m.type)
           /\ Len(FieldChars(m.type)) = Count(m.type) /\ m.type \in Types
<1> DEFINE t == m.type
           ss == Fields(m, config)
<1>1. t \in Types /\ t # "REPLY"
  BY DEF Sendable, Types
<1>2. CASE t \in {"CONFIRM", "PING"}
  <2>1. ss = <<>> /\ FieldChars(t) = <<>> /\ Count(t) = 0
    BY <1>1, <1>2, FieldsOf, FieldCharsAre DEF Count
  <2>2. Len(<<>>) = 0 /\ DOMAIN <<>> = 1 .. 0
    OBVIOUS
  <2> QED  BY <1>1, <2>1, <2>2
<1>3. CASE t = "BYE"
  <2>1. ss = <<m.author>> /\ FieldChars(t) = <<CharsOf("saveDispName")>> /\ Count(t) = 1
    BY <1>1, <1>3, FieldsOf, FieldCharsAre DEF Count
  <2>2. \A x : Len(<<x>>) = 1 /\ DOMAIN <<x>> = 1 .. 1
    OBVIOUS
  <2> QED  BY <1>1, <2>1, <2>2
<1>4. ASSUME t \in {"MSG", "ERR", "JOIN"}
      PROVE  Len(ss) = 2 /\ DOMAIN ss = 1 .. 2 /\ Len(FieldChars(t)) = 2 /\ Count(t) = 2
  <2>1. /\ ss \in {<<m.author, m.text>>, <<config.channel, m.author>>}
        /\ FieldChars(t) \in {<<CharsOf("saveDispName"), CharsOf("saveContent")>>,
                              <<CharsOf("saveChannel"), CharsOf("saveDispName")>>}
        /\ Count(t) = 2
    BY <1>1, <1>4, FieldsOf, FieldCharsAre DEF Count
  <2>2. \A x, y : Len(<<x, y>>) = 2 /\ DOMAIN <<x, y>> = 1 .. 2
    OBVIOUS
  <2> QED  BY <2>1, <2>2
<1>5. CASE t = "AUTH"
  <2>1. /\ ss = <<config.username, m.author, config.secret>> /\ Count(t) = 3
        /\ FieldChars(t) = <<CharsOf("saveUsername"), CharsOf("saveDispName"),
                             CharsOf("saveSecret")>>
    BY <1>1, <1>5, FieldsOf, FieldCharsAre DEF Count
  <2>2. \A x, y, z : Len(<<x, y, z>>) = 3 /\ DOMAIN <<x, y, z>> = 1 .. 3
    OBVIOUS
  <2> QED  BY <1>1, <2>1, <2>2
<1> QED  BY <1>1, <1>2, <1>3, <1>4, <1>5 DEF Sendable

\* Every string has the characters of its field.
AllAllowed(m, config) ==
    \A k \in DOMAIN Fields(m, config) : Allowed(Fields(m, config)[k], FieldChars(m.type)[k])

LEMMA LayoutHolds ==
    ASSUME NEW m \in Messages, NEW config \in Configs, NEW n \in 0 .. NoId, m.type \in Sendable,
           AllPlain(Fields(m, config))
    PROVE  Holds(Layout(m, config, n), m.type) <=> AllAllowed(m, config)
<1> DEFINE d == Layout(m, config, n)
           t == m.type
           ss == Fields(m, config)
           chars == FieldChars(t)
           c == Count(t)
<1>1. d \in Seq(Int) /\ Len(d) >= 3 /\ d[1] = Codes[t]
  BY LayoutIs
<1>2. Cuts(d, 4, ss)
  BY LayoutCuts
<1>3. Len(ss) = c /\ DOMAIN ss = 1 .. c /\ Len(chars) = c
  BY CountIs
<1>4. t # "REPLY"
  BY DEF Sendable
<1>5. Header(t) + 1 = 4
  BY <1>4 DEF Header
<1> HIDE DEF d, ss, chars, c
<1>6. Headed(t, d)
  BY <1>1, <1>4 DEF Headed, Header
<1>7. Holds(d, t) <=> \A k \in 1 .. c : Part(d, 4, k, chars[k])
  BY <1>1, <1>3, <1>5, <1>6, HoldsIs DEF chars
<1>8. \A k \in 1 .. c : Part(d, 4, k, chars[k]) <=> Allowed(ss[k], chars[k])
  BY <1>2, <1>3 DEF Cuts, Part
<1>9. AllAllowed(m, config) <=> \A k \in 1 .. c : Allowed(ss[k], chars[k])
  BY <1>3 DEF AllAllowed, ss, chars
<1>10. Holds(d, t) <=> AllAllowed(m, config)
  BY <1>7, <1>8, <1>9
<1> QED  BY <1>10 DEF d

LEMMA LayoutRead ==
    ASSUME NEW m \in Messages, NEW config \in Configs, NEW n \in 0 .. NoId, m.type \in Sendable,
           AllPlain(Fields(m, config))
    PROVE  Read(Layout(m, config, n), m.type) = SentMessage(m, config, n)
<1> DEFINE d == Layout(m, config, n)
           t == m.type
           ss == Fields(m, config)
           f == Cut(d, 4)
           id == 256 * d[2] + d[3]
           w == OnWire(m, n)
<1>1. id = w
  BY LayoutIs
<1>2. \A k \in 1 .. Count(t) : f[k] = ss[k]
  BY LayoutCuts, CountIs DEF Cuts
<1>3. t # "REPLY" /\ t \in Types
  BY DEF Sendable, Types
<1>4. Header(t) + 1 = 4
  BY <1>3 DEF Header
<1> HIDE DEF ss, f
<1>5. NamePart(t, f) = NamePart(t, ss) /\ TextPart(t, f) = TextPart(t, ss)
  <2>1. CASE t \in {"CONFIRM", "PING"}
    BY <1>3, <2>1, PartsAre
  <2>2. CASE t = "BYE"
    <3>1. f[1] = ss[1]
      BY <1>2, <2>2 DEF Count
    <3> QED  BY <1>3, <2>2, <3>1, PartsAre
  <2>3. CASE t \in {"MSG", "ERR", "JOIN"}
    <3>1. Count(t) = 2 /\ 1 \in 1 .. 2 /\ 2 \in 1 .. 2
      BY <2>3 DEF Count
    <3>2. f[1] = ss[1] /\ f[2] = ss[2]
      BY <1>2, <3>1
    <3> QED  BY <1>3, <2>3, <3>2, PartsAre
  <2>4. CASE t = "AUTH"
    <3>1. Count(t) = 3 /\ 1 \in 1 .. 3 /\ 2 \in 1 .. 3 /\ 3 \in 1 .. 3
      BY <2>4 DEF Count
    <3>2. f[3] = ss[3]
      BY <1>2, <3>1
    <3> QED  BY <1>3, <2>4, <3>2, PartsAre
  <2> QED  BY <2>1, <2>2, <2>3, <2>4 DEF Sendable
<1> DEFINE reply == t = "REPLY"
           ok == reply /\ d[4] = 1
           ref == IF reply THEN 256 * d[5] + d[6] ELSE 0
<1>6. ref = 0 /\ (ok <=> FALSE)
  BY <1>3
<1>7. Read(d, t) = [type |-> t, id |-> id, ref |-> ref, ok |-> ok,
                    author |-> NamePart(t, f), text |-> TextPart(t, f)]
  BY <1>4, Zenon DEF Read, f
<1>8. ok = FALSE
  BY <1>6
<1> HIDE DEF d, id, ok, ref, w
<1>9. Read(d, t) = [type |-> t, id |-> w, ref |-> 0, ok |-> FALSE,
                    author |-> NamePart(t, ss), text |-> TextPart(t, ss)]
  BY <1>1, <1>5, <1>6, <1>7, <1>8, Zenon
<1> QED  BY <1>9, Zenon DEF SentMessage, ss, w, d

\* No field takes a zero.
LEMMA NoZeroAllowed ==
    ASSUME NEW t \in Types, NEW k \in 1 .. Len(FieldChars(t)), NEW s \in Seq(Int), ~ Plain(s)
    PROVE  ~ Allowed(s, FieldChars(t)[k])
<1> DEFINE chars == FieldChars(t)[k]
           All == {CharsOf("saveDispName"), CharsOf("saveContent"), CharsOf("saveChannel"),
                   CharsOf("saveUsername"), CharsOf("saveSecret")}
<1>0. chars \in All
  <2> DEFINE fs == FieldChars(t)
  <2>1. \/ fs = <<>>
        \/ \E a \in All : fs = <<a>>
        \/ \E a, b \in All : fs = <<a, b>>
        \/ \E a, b, c \in All : fs = <<a, b, c>>
    <3>1. t \in {"CONFIRM", "PING"} => fs = <<>>
      BY FieldCharsAre
    <3>2. t \in {"BYE", "REPLY"} => \E a \in All : fs = <<a>>
      BY FieldCharsAre
    <3>3. t \in {"MSG", "ERR", "JOIN"} => \E a, b \in All : fs = <<a, b>>
      BY FieldCharsAre
    <3>4. t = "AUTH" => \E a, b, c \in All : fs = <<a, b, c>>
      BY FieldCharsAre
    <3> QED  BY <3>1, <3>2, <3>3, <3>4 DEF Types
  <2>2. k \in 1 .. Len(fs)
    OBVIOUS
  <2> HIDE DEF fs, All
  <2>3. fs[k] \in All
    BY <2>1, <2>2
  <2> QED  BY <2>3 DEF fs
<1>1. chars \in {<<Printable, Printable>>, <<Printable, NameChars>>, <<NameChars, NameChars>>}
  <2> HIDE DEF chars
  <2> QED  BY <1>0, CharsAre
<1> HIDE DEF chars
<1>2. NUL \notin chars[1] /\ NUL \notin chars[2]
  BY <1>1, LoopsAre
<1>3. PICK j \in 1 .. Len(s) : s[j] = NUL
  BY DEF Plain
<1>4. j = 1 \/ j \in 2 .. Len(s)
  BY SeqType
<1>5. ~ Allowed(s, chars)
  BY <1>2, <1>3, <1>4 DEF Allowed
<1> QED  BY <1>5 DEF chars

\* What RoundTrip says of one message, for every message.
LEMMA Arrives ==
    ASSUME NEW ctl, Kept(ctl), NEW m \in Messages, NEW config \in Configs, NEW n \in 0 .. NoId,
           m.type \in Sendable, AllPlain(Fields(m, config)),
           NEW d, d = Layout(m, config, n), NEW r, r = Translated(Automaton(ctl, d))
    PROVE  IF AllAllowed(m, config) /\ Fits(SentMessage(m, config, n))
           THEN r = SentMessage(m, config, n) ELSE r.type = "ERR_INTERNAL"
<1> DEFINE t == m.type
           s == SentMessage(m, config, n)
<1>1. d \in Seq(Int) /\ d[1] = Codes[t] /\ Len(d) >= 3
  BY LayoutIs
<1>2. t \in Types
  BY DEF Sendable, Types
<1>3. Read(d, t) = s
  BY LayoutRead
<1>4. Holds(d, t) <=> AllAllowed(m, config)
  BY LayoutHolds
<1> HIDE DEF s
<1>5. CASE AllAllowed(m, config)
  <2>1. IF Fits(Read(d, t)) THEN r = Read(d, t) ELSE r.type = "ERR_INTERNAL"
    BY <1>1, <1>2, <1>4, <1>5, Decodes
  <2> QED  BY <1>3, <1>5, <2>1 DEF s
<1>6. CASE ~ AllAllowed(m, config)
  <2>1. ASSUME NEW u \in Types PROVE ~ Holds(d, u)
    <3>1. CASE u = t
      BY <1>4, <1>6, <3>1
    <3>2. CASE u # t
      <4>1. Codes[u] # Codes[t]
        BY <1>2, <3>2, CodesDiffer
      <4> QED  BY <1>1, <4>1, HoldsHead
    <3> QED  BY <3>1, <3>2
  <2>2. r.type = "ERR_INTERNAL"
    BY <1>1, <2>1, DecodesNothing
  <2> QED  BY <1>6, <2>2
<1> QED  BY <1>5, <1>6

\* An answer that is not sent is not read either.
LEMMA NothingArrives ==
    ASSUME NEW ctl, Kept(ctl)
    PROVE  Translated(Automaton(ctl, <<>>)).type = "ERR_INTERNAL"
<1>1. <<>> \in Seq(Int) /\ Len(<<>>) = 0
  OBVIOUS
<1>2. ASSUME NEW t \in Types PROVE ~ Holds(<<>>, t)
  <2> SUFFICES ASSUME Holds(<<>>, t) PROVE FALSE
    OBVIOUS
  <2>1. Len(<<>>) >= Header(t)
    BY HoldsHead
  <2>2. Header(t) = 3 \/ Header(t) = 6
    BY DEF Header
  <2> QED  BY <1>1, <2>1, <2>2
<1> QED  BY <1>1, <1>2, DecodesNothing

Arrived(m, config, n, bytes, r) ==
    IF /\ bytes # <<>> /\ AllAllowed(m, config) /\ Fits(SentMessage(m, config, n))
    THEN r = SentMessage(m, config, n)
    ELSE \/ r.type = "ERR_INTERNAL"
         \/ \E k \in DOMAIN Fields(m, config) : NUL \in Range(Fields(m, config)[k])

LEMMA ArrivesAll ==
    ASSUME NEW ctl, Kept(ctl), NEW m \in Messages, NEW config \in Configs, NEW n \in 0 .. NoId,
           NEW d, d = EncodeBinary(m, config, n), NEW r, r = Translated(Automaton(ctl, d))
    PROVE  Arrived(m, config, n, d, r)
<1> DEFINE ss == Fields(m, config)
<1>0. n \in Int
  OBVIOUS
<1>1. CASE m.type \in {"REPLY", "NONE"}
  <2>1. d = <<>>
    BY <1>0, <1>1, Encoded
  <2>2. r.type = "ERR_INTERNAL"
    BY <2>1, NothingArrives
  <2> QED  BY <2>1, <2>2 DEF Arrived
<1>2. CASE m.type \in Sendable /\ AllPlain(ss)
  <2>1. d = Layout(m, config, n)
    <3>1. m.type \notin {"REPLY", "NONE"}
      BY <1>2 DEF Sendable
    <3> QED  BY <1>0, <3>1, Encoded
  <2>2. d # <<>>
    <3> DEFINE e == Layout(m, config, n)
    <3>1. e \in Seq(Int) /\ Len(e) >= 3
      BY <1>2, LayoutIs
    <3> HIDE DEF e
    <3>2. e # <<>>
      BY <3>1
    <3> QED  BY <2>1, <3>2 DEF e
  <2>3. IF AllAllowed(m, config) /\ Fits(SentMessage(m, config, n))
        THEN r = SentMessage(m, config, n) ELSE r.type = "ERR_INTERNAL"
    BY <1>2, <2>1, Arrives
  <2> QED  BY <2>2, <2>3 DEF Arrived
<1>3. CASE m.type \in Sendable /\ ~ AllPlain(ss)
  <2> DEFINE t == m.type
  <2>1. Len(ss) = Count(t) /\ DOMAIN ss = 1 .. Count(t) /\ Len(FieldChars(t)) = Count(t)
        /\ t \in Types
    BY <1>3, CountIs
  <2>2. Some(ss)
    BY <1>3, FieldsType
  <2> HIDE DEF ss
  <2>3. PICK k \in 1 .. Len(ss) : ~ Plain(ss[k])
    BY <1>3 DEF AllPlain
  <2>4. ss[k] \in Seq(Int)
    BY <2>2, <2>3 DEF Some
  <2>5. ~ Allowed(ss[k], FieldChars(t)[k])
    BY <2>1, <2>3, <2>4, NoZeroAllowed
  <2>6. ~ AllAllowed(m, config)
    BY <2>1, <2>3, <2>5 DEF AllAllowed, ss
  <2>7. NUL \in Range(ss[k])
    <3>1. PICK j \in 1 .. Len(ss[k]) : ss[k][j] = NUL
      BY <2>3 DEF Plain
    <3>2. DOMAIN ss[k] = 1 .. Len(ss[k])
      BY <2>4, SeqType
    <3> QED  BY <3>1, <3>2 DEF Range
  <2>8. k \in DOMAIN ss
    BY <2>1, <2>3
  <2> QED  BY <2>6, <2>7, <2>8 DEF Arrived, ss
<1> QED  BY <1>1, <1>2, <1>3, MessageType

-----------------------------------------------------------------------------
(* What the decoder answers *)

\* A result is that of a run which began with controls that may be left over.
Answered(answer, d) ==
    \E ctl \in ControlsType : /\ answer.message = Translated(Automaton(ctl, d))
                              /\ answer.output = output(Automaton(ctl, d))

\* The inductive invariant: besides Sent, what the decoder has kept has its type,
\* and the last call is remembered with what it answered.
Known ==
    /\ Sent
    /\ controls \in ControlsType
    /\ last.op = "decode" => last.datagram \in Datagrams /\ Answered(last, last.datagram)
    /\ last.op = "deliver" => Answered(last, last.of.bytes)

LEMMA DatagramNumeric ==
    ASSUME NEW d \in Datagrams
    PROVE  Numeric(d)
<1>1. d \in Seq(0 .. 255)
  BY DatagramsAssumption
<1>2. Len(d) \in Nat /\ \A i \in 1 .. Len(d) : d[i] \in 0 .. 255
  BY <1>1, SeqType
<1>3. d \in Seq(Int)
  <2> DEFINE B == 0 .. 255
  <2>1. B \subseteq Int
    OBVIOUS
  <2>2. d \in Seq(B)
    BY <1>1
  <2> HIDE DEF B
  <2>3. d \in [1 .. Len(d) -> B]
    BY <2>2, LenProperties
  <2>4. d \in [1 .. Len(d) -> Int]
    BY <2>1, <2>3
  <2> QED  BY <1>2, <2>4, IsASeq
<1> QED  BY <1>2, <1>3 DEF Numeric

LEMMA KeptAfter ==
    ASSUME NEW ctl \in ControlsType, NEW d, Numeric(d)
    PROVE  ControlsAfter(Automaton(ctl, d)) \in ControlsType
<1> DEFINE run == Automaton(ctl, d)
<1>1. run.controls \in ControlsType
  BY RunKept
<1>2. NoControls \in ControlsType
  <2>1. 0 \in Ids
    <3>1. NoId \in Nat
      BY DEF NoId
    <3> QED  BY <3>1 DEF Ids
  <2>2. <<>> \in Legible
    BY DEF Legible
  <2> QED  BY <2>1, <2>2 DEF NoControls, ControlsType
<1> HIDE DEF run
<1>3. ControlsAfter(run) \in {run.controls, NoControls}
  BY DEF ControlsAfter
<1>4. ControlsAfter(run) \in ControlsType
  BY <1>1, <1>2, <1>3
<1> QED  BY <1>4 DEF run

LEMMA KnownHolds == Spec => []Known
<1>1. Init /\ Sent => Known
  <2> SUFFICES ASSUME Init, Sent PROVE Known
    OBVIOUS
  <2>1. controls = NoControls /\ last.op = "none"
    BY DEF Init
  <2>2. NoControls \in ControlsType
    <3>1. 0 \in Ids
      <4>1. NoId \in Nat
        BY DEF NoId
      <4> QED  BY <4>1 DEF Ids
    <3>2. <<>> \in Legible
      BY DEF Legible
    <3> QED  BY <3>1, <3>2 DEF NoControls, ControlsType
  <2> QED  BY <2>1, <2>2 DEF Known
<1>2. Known /\ Sent' /\ [Next]_vars => Known'
  <2> SUFFICES ASSUME Known, Sent', [Next]_vars PROVE Known'
    OBVIOUS
  <2>1. ASSUME NEW s \in Sendings, Encode(s.message, s.config) PROVE Known'
    <3>1. controls' = controls /\ last'.op = "encode"
      BY <2>1 DEF Encode
    <3> QED  BY <3>1 DEF Known
  <2>2. ASSUME NEW d \in Datagrams, Decode(d) PROVE Known'
    <3> DEFINE run == Automaton(controls, d)
    <3>1. /\ last'.op = "decode" /\ last'.datagram = d /\ last'.output = output(run)
          /\ last'.message = Translated(run) /\ controls' = ControlsAfter(run)
      BY <2>2 DEF Decode
    <3>2. controls \in ControlsType
      BY DEF Known
    <3>3. controls' \in ControlsType
      BY <3>1, <3>2, DatagramNumeric, KeptAfter
    <3>4. Answered(last', d)
      BY <3>1, <3>2 DEF Answered
    <3> HIDE DEF run
    <3> QED  BY <3>1, <3>3, <3>4 DEF Known
  <2>3. CASE Deliver
    <3> DEFINE run == Automaton(controls, last.bytes)
    <3>1. /\ last.op = "encode" /\ last'.op = "deliver" /\ last'.of = last
          /\ last'.output = output(run) /\ last'.message = Translated(run)
          /\ controls' = ControlsAfter(run)
      BY <2>3 DEF Deliver
    <3>2. controls \in ControlsType
      BY DEF Known
    <3>3. Numeric(last.bytes)
      <4>1. Remembered(last)
        BY <3>1 DEF Known, Sent
      <4>2. /\ last.message \in Messages /\ last.config \in Configs /\ last.counter \in 0 .. NoId
            /\ last.bytes = EncodeBinary(last.message, last.config, last.counter)
        BY <4>1 DEF Remembered
      <4> QED  BY <4>2, EncodedNumeric
    <3>4. controls' \in ControlsType
      BY <3>1, <3>2, <3>3, KeptAfter
    <3>5. Answered(last', last.bytes)
      BY <3>1, <3>2 DEF Answered
    <3> HIDE DEF run
    <3> QED  BY <3>1, <3>4, <3>5 DEF Known
  <2>4. CASE UNCHANGED vars
    <3>1. last' = last /\ controls' = controls
      BY <2>4 DEF vars
    <3> QED  BY <3>1 DEF Known
  <2> QED  BY <2>1, <2>2, <2>3, <2>4 DEF Next
<1> QED  BY <1>1, <1>2, SentHolds, PTL DEF Spec

\* Type correctness for every message that is sent and every datagram that comes:
\* the automaton never leaves its states, and whatever broken datagrams leave
\* behind in the controls are two-byte IDs, a status and strings that begin with
\* a printable character.
THEOREM TypeOKHolds == Spec => []TypeOK
<1>1. Known => TypeOK
  <2> SUFFICES ASSUME Known PROVE TypeOK
    OBVIOUS
  <2>1. counter \in 0 .. MaxCounter
    BY DEF Known, Sent
  <2>2. /\ controls.messageID \in Ids /\ controls.replyID \in Ids /\ controls.status \in {0, 1}
        /\ controls.channelID = <<>> /\ controls.username = <<>>
        /\ controls.dispName \in Legible /\ controls.content \in Legible
        /\ controls.secret \in Legible
    BY DEF Known, ControlsType
  <2>3. \A s \in {controls.dispName, controls.content, controls.secret} :
            s # <<>> => Head(s) \in Printable
    BY <2>2 DEF Legible
  <2>4. last.op = "decode" => last.output \in states
    <3> SUFFICES ASSUME last.op = "decode" PROVE last.output \in states
      OBVIOUS
    <3>1. Numeric(last.datagram) /\ Answered(last, last.datagram)
      BY DatagramNumeric DEF Known
    <3>2. PICK ctl \in ControlsType : last.output = output(Automaton(ctl, last.datagram))
      BY <3>1 DEF Answered
    <3> QED  BY <3>1, <3>2, RunKept
  <2>5. last.op = "deliver" => last.output \in states
    <3> SUFFICES ASSUME last.op = "deliver" PROVE last.output \in states
      OBVIOUS
    <3> DEFINE e == last.of
    <3>1. Remembered(e) /\ Answered(last, e.bytes)
      BY DEF Known, Sent
    <3>2. PICK ctl \in ControlsType : last.output = output(Automaton(ctl, e.bytes))
      BY <3>1 DEF Answered
    <3>3. Numeric(e.bytes)
      <4>1. /\ e.message \in Messages /\ e.config \in Configs /\ e.counter \in 0 .. NoId
            /\ e.bytes = EncodeBinary(e.message, e.config, e.counter)
        BY <3>1 DEF Remembered
      <4> QED  BY <4>1, EncodedNumeric
    <3> QED  BY <3>2, <3>3, RunKept
  <2> QED  BY <2>1, <2>2, <2>3, <2>4, <2>5 DEF TypeOK, Ids
<1> QED  BY <1>1, KnownHolds, PTL

\* Whatever datagrams came before, a datagram is read as the message that the
\* documented layout finds in it, and as malformed exactly when there is none or
\* when one of its strings is too long: nothing that a broken datagram left in
\* the controls of the decoder is ever seen in a later message.
THEOREM DecodesLayoutHolds == Spec => []DecodesLayout
<1>1. Known => DecodesLayout
  <2> SUFFICES ASSUME Known, last.op = "decode" PROVE DecodesLayout
    BY DEF DecodesLayout
  <2> DEFINE d == last.datagram
             r == last.message
  <2>1. d \in Datagrams /\ Answered(last, d)
    BY DEF Known
  <2>2. d \in Seq(Int)
    BY <2>1, DatagramNumeric DEF Numeric
  <2>3. PICK ctl \in ControlsType : r = Translated(Automaton(ctl, d))
    BY <2>1 DEF Answered
  <2>4. Kept(ctl)
    BY RecordShape
  <2> HIDE DEF d, r
  <2>5. LET types == {t \in DOMAIN Paths : Holds(d, t)}
        IN  IF \E t \in types : Fits(Read(d, t))
            THEN \E t \in types : r = Read(d, t)
            ELSE r.type = "ERR_INTERNAL"
    BY <2>2, <2>3, <2>4, DecodesAll
  <2> QED  BY <2>5 DEF DecodesLayout, d, r
<1> QED  BY <1>1, KnownHolds, PTL

\* What encodeBinary sends, decode reads again, for every message, config and
\* state of the counter: the same type, texts and ID, unless a text is empty, too
\* long or has a character that the automaton does not take.
THEOREM RoundTripHolds == Spec => []RoundTrip
<1>1. Known => RoundTrip
  <2> SUFFICES ASSUME Known, last.op = "deliver" PROVE RoundTrip
    BY DEF RoundTrip
  <2> DEFINE e == last.of
             m == e.message
             c == e.config
             n == e.counter
             r == last.message
  <2>1. Remembered(e) /\ Answered(last, e.bytes)
    BY DEF Known, Sent
  <2>2. m \in Messages /\ c \in Configs /\ n \in 0 .. NoId /\ e.bytes = EncodeBinary(m, c, n)
    BY <2>1 DEF Remembered
  <2>3. PICK ctl \in ControlsType : r = Translated(Automaton(ctl, e.bytes))
    BY <2>1 DEF Answered
  <2>4. Kept(ctl)
    BY RecordShape
  <2>5. Arrived(m, c, n, e.bytes, r)
    <3> HIDE DEF m, c, n, r, e
    <3> QED  BY <2>2, <2>3, <2>4, ArrivesAll
  <2> QED  BY <2>5 DEF Arrived, RoundTrip, SentMessage, AllAllowed
<1> QED  BY <1>1, KnownHolds, PTL

=============================================================================
