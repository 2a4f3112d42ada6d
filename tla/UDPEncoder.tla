----------------------------- MODULE UDPEncoder -----------------------------
(***************************************************************************)
(* UDPEncoder::encodeBinary: a small language of formats, read by an       *)
(* automaton of its own, in which "{%h:messageID}" stands for two bytes of *)
(* a value, "{%s:DisplayName}" for a text and "\x00" for a byte.  The      *)
(* format is rewritten in place, group by group.                           *)
(*                                                                         *)
(* A character is its code; a whole identifier of the language is one      *)
(* symbol beyond the bytes (Words), a letter wherever the code asks.       *)
(***************************************************************************)
EXTENDS Integers, Sequences, FiniteSetsExt

NUL == 0
Percent == 37
Minus == 45
Dot == 46
Zero == 48
Colon == 58
Backslash == 92
Underscore == 95
Bee == 98
Aitch == 104
Eye == 105
Ess == 115
Ex == 120
LBrace == 123
RBrace == 125

\* The identifiers that formats use.
DisplayName == 256
MessageContent == 257
Username == 258
Secret == 259
ChannelID == 260
Type == 261
messageID == 262
rMessageID == 263
Result == 264
Words == 256 .. 264

Chars == (0 .. 255) \cup Words
Digits == 48 .. 57
IdStart == (65 .. 90) \cup (97 .. 122) \cup {Underscore} \cup Words
IdContinue == IdStart \cup Digits \cup {Minus}
HexDigits == Digits \cup (65 .. 70) \cup (97 .. 102)

Codes == [CONFIRM |-> 0, REPLY |-> 1, AUTH |-> 2, JOIN |-> 3, MSG |-> 4,
          NONE |-> 42, PING |-> 253, ERR |-> 254, BYE |-> 255]

NoId == 65535
htons(n) == (n % 256) * 256 + n \div 256

----------------------------------------------------------------------------
(* The formats. *)

Sub(spec, name) == <<LBrace, Percent, spec, Colon, name, RBrace>>
X00 == <<Backslash, Ex, Zero, Zero>>
Numbered == Sub(Bee, Type) \o Sub(Aitch, messageID)

udpMessageFormats ==
    [CONFIRM |-> Sub(Bee, Type) \o Sub(Aitch, rMessageID),
     ERR |-> Numbered \o Sub(Ess, DisplayName) \o X00
               \o Sub(Ess, MessageContent) \o X00,
     REPLY |-> Numbered \o Sub(Bee, Result) \o Sub(Aitch, rMessageID)
               \o Sub(Ess, MessageContent) \o X00,
     AUTH |-> Numbered \o Sub(Ess, Username) \o X00 \o Sub(Ess, DisplayName)
               \o X00 \o Sub(Ess, Secret) \o X00,
     JOIN |-> Numbered \o Sub(Ess, ChannelID) \o X00 \o Sub(Ess, DisplayName)
               \o X00,
     MSG |-> Numbered \o Sub(Ess, DisplayName) \o X00
               \o Sub(Ess, MessageContent) \o X00,
     BYE |-> Numbered \o Sub(Ess, DisplayName) \o X00,
     PING |-> Numbered]

----------------------------------------------------------------------------
(* The automaton that finds the next group.  The four kinds of             *)
(* substitution have the same states, told apart by their specifier, which *)
(* is 0 in all other states.                                               *)

Edge(from, on, to) == [from |-> from, on |-> on, to |-> to]

PlainEdges ==
    {Edge(<<"INIT", 0>>, Chars \ {Backslash, LBrace, RBrace}, <<"ORDINARY", 0>>),
     Edge(<<"INIT", 0>>, {LBrace}, <<"SUB_START", 0>>),
     Edge(<<"INIT", 0>>, {Backslash}, <<"SPEC_START", 0>>),
     Edge(<<"SUB_START", 0>>, {Percent}, <<"SUB_TYPE", 0>>),
     Edge(<<"SUB_START", 0>>, IdStart, <<"SUB_UNDEFINED", 0>>),
     Edge(<<"SUB_UNDEFINED", 0>>, IdContinue, <<"SUB_UNDEFINED", 0>>),
     Edge(<<"SUB_UNDEFINED", 0>>, {RBrace}, <<"SUB_U_EXEC", 0>>),
     Edge(<<"SPEC_START", 0>>, {Ex}, <<"HEX", 0>>),
     Edge(<<"SPEC_START", 0>>, Chars \ {Ex, Backslash}, <<"BACKSLASH", 0>>),
     Edge(<<"HEX", 0>>, HexDigits, <<"HEX_NIBBLE", 0>>),
     Edge(<<"HEX_NIBBLE", 0>>, HexDigits, <<"HEX_BYTE", 0>>)}
Specifiers == {Bee, Aitch, Eye, Ess}
SubstitutionEdges(k) ==
    {Edge(<<"SUB_TYPE", 0>>, {k}, <<"SUB", k>>),
     Edge(<<"SUB", k>>, {Colon}, <<"COL", k>>),
     Edge(<<"COL", k>>, IdStart, <<"ID", k>>),
     Edge(<<"ID", k>>, IdContinue, <<"ID", k>>),
     Edge(<<"ID", k>>, {RBrace}, <<"EXEC", k>>)}
Edges == PlainEdges \cup UNION {SubstitutionEdges(k) : k \in Specifiers}

Successors(state, c) ==
    {e.to : e \in {e \in Edges : e.from = state /\ c \in e.on}}

\* One character of a walk through the automaton.
Walked(w, c, j) ==
    LET next == IF w.live THEN Successors(w.state, c) ELSE {}
    IN  IF next = {} THEN [w EXCEPT !.live = FALSE]
        ELSE [last |-> j, state |-> CHOOSE s \in next : TRUE, live |-> TRUE]

\* The longest walk from position i: where it ends, and in which state.
Group(format, i) ==
    LET walk[j \in i - 1 .. Len(format)] ==
            IF j = i - 1 THEN [last |-> j, state |-> <<"INIT", 0>>, live |-> TRUE]
            ELSE Walked(walk[j - 1], format[j], j)
    IN  walk[Len(format)]

----------------------------------------------------------------------------
(* The translation of a group. *)

\* The values of encodeBinary.  "Result" is not among them.
Numbers(m, counter) ==
    [w \in {Type, messageID, rMessageID} |->
        CASE w = Type -> Codes[m.type]
          [] w = messageID -> htons(IF m.id # NoId THEN m.id ELSE counter)
          [] w = rMessageID -> m.ref]
Texts(m, config) ==
    [w \in {DisplayName, MessageContent, Username, Secret, ChannelID} |->
        CASE w = DisplayName -> m.author
          [] w = MessageContent -> m.text
          [] w = Username -> config.username
          [] w = Secret -> config.secret
          [] w = ChannelID -> config.channel]

HexValue(c) == IF c \in Digits THEN c - 48 ELSE IF c < 97 THEN c - 55 ELSE c - 87

NumberBytes(spec, n) ==
    CASE spec = Bee -> <<n % 256>>
      [] spec = Aitch -> <<n \div 256, n % 256>>
      [] spec = Eye -> <<n % 256, n \div 256, 0, 0>>  \* as it lies in memory

\* The set of results of a group: none stands for std::out_of_range.
Translation(g, group, m, config, counter) ==
    LET word == group[Len(group) - 1]
        digits == SubSeq(group, 3, Len(group))
    IN  CASE g = <<"ORDINARY", 0>> -> {group}
          [] g = <<"BACKSLASH", 0>> -> {[i \in 1 .. Backslash |-> NUL]}
          [] g = <<"HEX_NIBBLE", 0>> -> {<<HexValue(digits[1])>>}
          [] g = <<"HEX_BYTE", 0>> -> {<<16 * HexValue(digits[1]) + HexValue(digits[2])>>}
          [] g = <<"EXEC", Ess>> ->
                {Texts(m, config)[w] : w \in {word} \cap DOMAIN Texts(m, config)}
          [] g \in {<<"EXEC", Bee>>, <<"EXEC", Aitch>>, <<"EXEC", Eye>>} ->
                {NumberBytes(g[2], Numbers(m, counter)[w]) :
                    w \in {word} \cap DOMAIN Numbers(m, counter)}
          [] OTHER -> {}

----------------------------------------------------------------------------
(* The loop: one group of the format is replaced in place, and the         *)
(* iterator moves behind what replaced it.                                 *)

\* A plausible fault: what has been substituted is scanned as well.
BehindNothing(at, result) == at

Behind(at, result) == at + Len(result)

\* One round on the partly rewritten format f; a round that fails has no f.
Rewrite(f, m, config, counter) ==
    LET g == Group(f.text, f.at)
        results == Translation(g.state, SubSeq(f.text, f.at, g.last),
                               m, config, counter)
    IN  {[text |-> SubSeq(f.text, 1, f.at - 1) \o r
                     \o SubSeq(f.text, g.last + 1, Len(f.text)),
          at |-> Behind(f.at, r)] : r \in results}

Rewritten(fs, m, config, counter) ==
    UNION {IF f.at > Len(f.text) THEN {f} ELSE Rewrite(f, m, config, counter) : f \in fs}

\* What is sent: nothing (nullptr, 0) if a group or the type has no
\* translation.  No format has more groups than characters.
EncodeBinary(m, config, counter) ==
    IF m.type \notin DOMAIN udpMessageFormats THEN <<>>
    ELSE LET format == udpMessageFormats[m.type]
             round[n \in 0 .. Len(format)] ==
                 IF n = 0 THEN {[text |-> format, at |-> 1]}
                 ELSE Rewritten(round[n - 1], m, config, counter)
             ends == {f.text : f \in {f \in round[Len(format)] : f.at > Len(f.text)}}
         IN  IF ends = {} THEN <<>> ELSE CHOOSE t \in ends : TRUE

\* A plausible fault: a message that has an ID consumes another one.
CounterAfterEach(m, counter) == (counter + 1) % 65536

\* messageID is consumed when values is built, whatever becomes of the rest.
CounterAfter(m, counter) ==
    IF m.id = NoId THEN (counter + 1) % 65536 ELSE counter

=============================================================================
