------------------------------ MODULE TCPWire ------------------------------
(***************************************************************************)
(* The texts of the TCP variant: TCPEncoder::encode, which rewrites a      *)
(* format placeholder by placeholder, the byte stream of the server, which *)
(* TCPReceiver::receive cuts where it happens to, and TCPDecoder::decode,  *)
(* which matches each piece against one regular expression per type.       *)
(*                                                                         *)
(* A text is a sequence of symbols: words, the space, CR, LF and the       *)
(* braces, LB and RB.  The decoder does not tell upper from lower case, so *)
(* a word stands for all its spellings.  The server passes a MSG of        *)
(* another client on to this one as it came, and writes messages of its    *)
(* own.                                                                    *)
(***************************************************************************)
EXTENDS Integers, SequencesExt

CONSTANTS
    Symbols,     \* what texts are made of
    Typed,       \* what a client encodes: records [message, config]
    Announced,   \* the server's own messages
    NameLimit,   \* longest author that Message::setAuthor takes: 20
    TextLimit,   \* longest text that Message::setText takes: 60000
    MaxMessages  \* bound: messages in the life of the stream

Text == Seq(Symbols)
MessagesOf(types) == [type : types, author : Text, text : Text, ok : BOOLEAN]

\* The symbols of the formats, and of their placeholders.
Fixed == {"ERR", "REPLY", "AUTH", "JOIN", "MSG", "BYE", "FROM", "IS", "AS", "USING",
          "OK", "NOK", "SP", "CR", "LF", "LB", "RB", "UNKNOWN", "DisplayName", "Reply",
          "MessageContent", "Username", "Secret", "ChannelID", "dl"}

ASSUME SymbolsAssumption == Fixed \subseteq Symbols
ASSUME WireAssumption == {NameLimit, TextLimit, MaxMessages} \subseteq Nat

\* A client never answers with a REPLY; the server sends no AUTH and no JOIN.
\* What a type has no use for is empty.
ASSUME TypedAssumption ==
    \A of \in Typed :
        /\ of.message \in MessagesOf({"ERR", "AUTH", "JOIN", "MSG", "BYE"})
        /\ ~of.message.ok
        /\ of.config \in [username : Text, secret : Text, channel : Text]
ASSUME AnnouncedAssumption ==
    \A m \in Announced :
        /\ m \in MessagesOf({"ERR", "REPLY", "MSG", "BYE"})
        /\ m.ok => m.type = "REPLY"
        /\ m.type = "REPLY" => m.author = <<>>
        /\ m.type = "BYE" => m.text = <<>>

VARIABLES
    job,        \* what the other client encodes, and the text so far
    stream,     \* symbols on their way to recv
    sent,       \* ghost: the messages put into the stream
    delivered,  \* the messages that decode returned, without NONE
    crashed     \* an exception of decode has left run

vars == <<job, stream, sent, delivered, crashed>>

Idle == [phase |-> "idle", of |-> "none", text |-> <<>>]

----------------------------------------------------------------------------
(* TCPEncoder::encode *)

NotWords == {"SP", "CR", "LF", "LB", "RB", "UNKNOWN"}
Delimiter == <<"CR", "LF">>

\* The words that begin a line and divide it, for both directions.
Header == [ERR |-> <<"ERR", "SP", "FROM", "SP">>, REPLY |-> <<"REPLY", "SP">>,
           AUTH |-> <<"AUTH", "SP">>, JOIN |-> <<"JOIN", "SP">>,
           MSG |-> <<"MSG", "SP", "FROM", "SP">>, BYE |-> <<"BYE", "SP", "FROM", "SP">>]
Divider(word) == <<"SP", word, "SP">>
Key(name) == <<"LB", name, "RB">>

tcpMessageFormats ==
    [ERR |-> Header.ERR \o Key("DisplayName") \o Divider("IS") \o Key("MessageContent")
               \o Key("dl"),
     REPLY |-> Header.REPLY \o Key("Reply") \o Divider("IS") \o Key("MessageContent")
                 \o Key("dl"),
     AUTH |-> Header.AUTH \o Key("Username") \o Divider("AS") \o Key("DisplayName")
                \o Divider("USING") \o Key("Secret") \o Key("dl"),
     JOIN |-> Header.JOIN \o Key("ChannelID") \o Divider("AS") \o Key("DisplayName")
                \o Key("dl"),
     MSG |-> Header.MSG \o Key("DisplayName") \o Divider("IS") \o Key("MessageContent")
               \o Key("dl"),
     BYE |-> Header.BYE \o Key("DisplayName") \o Key("dl")]

values(of) ==
    [DisplayName |-> of.message.author, MessageContent |-> of.message.text,
     dl |-> Delimiter, Username |-> of.config.username,
     Secret |-> of.config.secret, ChannelID |-> of.config.channel]

\* A plausible fault: a placeholder at the end of the text is overlooked.
InnerPlaceholders(text) ==
    {i \in 1 .. Len(text) - 3 :
        text[i] = "LB" /\ text[i + 1] \notin NotWords /\ text[i + 2] = "RB"}

\* Where regex_search may find "{word}".
Placeholders(text) ==
    {i \in 1 .. Len(text) - 2 :
        text[i] = "LB" /\ text[i + 1] \notin NotWords /\ text[i + 2] = "RB"}

ValueIfKnown(key, of) ==  \* fault: what has no value is left out
    IF key \in DOMAIN values(of) THEN values(of)[key] ELSE <<>>
Value(key, of) ==
    IF key \in DOMAIN values(of) THEN values(of)[key] ELSE <<"UNKNOWN">>

\* A plausible fault: where there is nothing to insert, nothing is done.
ReplacedUnlessEmpty(text, of) ==
    LET i == Min(Placeholders(text))
        value == Value(text[i + 1], of)
    IN  IF value = <<>> THEN text
        ELSE SubSeq(text, 1, i - 1) \o value \o SubSeq(text, i + 3, Len(text))

\* A round of the loop: the leftmost placeholder, three symbols, is replaced.
Replaced(text, of) ==
    LET i == Min(Placeholders(text))
    IN  SubSeq(text, 1, i - 1) \o Value(text[i + 1], of)
          \o SubSeq(text, i + 3, Len(text))

----------------------------------------------------------------------------
(* TCPDecoder::decode *)

\* Plausible faults: nothing may follow the CR LF; a line need not be ended.
LineOfWhole(piece) ==
    IF Len(piece) > 1 /\ SubSeq(piece, Len(piece) - 1, Len(piece)) = Delimiter
         /\ \A j \in 1 .. Len(piece) - 2 : piece[j] \notin {"CR", "LF"}
    THEN {SubSeq(piece, 1, Len(piece) - 2)} ELSE {}
LineOfUnended(piece) ==
    {SubSeq(piece, 1, Len(piece) - 2)}

\* Every expression ends in "\r\n.*", and no "." is a CR or an LF: a piece
\* matches only if it has one CR LF and no other CR or LF.  The line of such a
\* piece is what precedes them.
LineOf(piece) ==
    {SubSeq(piece, 1, i - 1) :
        i \in {i \in 1 .. Len(piece) - 1 :
                SubSeq(piece, i, i + 1) = Delimiter
                  /\ \A j \in DOMAIN piece \ {i, i + 1} : piece[j] \notin {"CR", "LF"}}}

\* "(.+) word (.+)" over a text: every way to match its two groups, and the one
\* that a greedy first group takes among those the expression allows.
Splits(text, word) ==
    {<<SubSeq(text, 1, i - 1), SubSeq(text, i + 3, Len(text))>> :
        i \in {i \in 2 .. Len(text) - 3 : SubSeq(text, i, i + 2) = <<"SP", word, "SP">>}}
Greedy(splits) == {s \in splits : \A t \in splits : Len(t[1]) <= Len(s[1])}

\* The groups of a line behind its header; none if the expression of the type
\* does not match.
Groups(type, text) ==
    CASE type \in {"ERR", "MSG"} -> Greedy(Splits(text, "IS"))
      [] type = "REPLY" -> Greedy({s \in Splits(text, "IS") : s[1] \in {<<"OK">>, <<"NOK">>}})
      [] type = "AUTH" -> Greedy({s \in Splits(text, "AS") : Splits(s[2], "USING") # {}})
      [] type = "JOIN" -> Greedy(Splits(text, "AS"))
      [] type = "BYE" -> IF text = <<>> THEN {} ELSE {<<text>>}

\* What the extractor of a type stores: of an AUTH the user name, of a JOIN
\* the display name.
Extracted(type, g) ==
    [type |-> type,
     author |-> CASE type \in {"ERR", "MSG", "AUTH", "BYE"} -> g[1]
                  [] type = "JOIN" -> g[2]
                  [] type = "REPLY" -> <<>>,
     text |-> IF type \in {"ERR", "MSG", "REPLY"} THEN g[2] ELSE <<>>,
     ok |-> type = "REPLY" /\ g[1] = <<"OK">>]

\* The message in a piece, if there is one; a NONE otherwise.
Decoded(piece) ==
    UNION {UNION {{Extracted(type, g) :
                     g \in Groups(type, SubSeq(line, Len(Header[type]) + 1, Len(line)))} :
                  type \in {t \in DOMAIN Header : IsPrefix(Header[t], line)}} :
           line \in LineOf(piece)}

\* Plausible faults: off by one, either way.
TooLongAtLimit(m) == Len(m.author) >= NameLimit \/ Len(m.text) > TextLimit
TooLongBeyondLimit(m) == Len(m.author) > NameLimit + 1 \/ Len(m.text) > TextLimit

\* setAuthor or setText throws, and nothing in run catches it.
TooLong(m) == Len(m.author) > NameLimit \/ Len(m.text) > TextLimit

----------------------------------------------------------------------------
(* The steps of the other client, the server and this client. *)

Init ==
    /\ job = Idle
    /\ stream = <<>> /\ sent = <<>>
    /\ delivered = <<>> /\ crashed = FALSE

\* encode starts from the format of the type.
Encode(of) ==
    /\ job.phase # "encoding"
    /\ job' = [phase |-> "encoding", of |-> of,
               text |-> tcpMessageFormats[of.message.type]]
    /\ UNCHANGED <<stream, sent, delivered, crashed>>

\* Nothing bounds the length of the text: a content that names itself is put
\* into itself again and again (in an instance, without becoming longer).
Substitute ==
    /\ job.phase = "encoding"
    /\ Placeholders(job.text) # {}
    /\ job' = [job EXCEPT !.text = Replaced(@, job.of)]
    /\ UNCHANGED <<stream, sent, delivered, crashed>>

\* The text is sent; the server passes a MSG on.
SendOff ==
    /\ job.phase = "encoding"
    /\ Placeholders(job.text) = {}
    /\ job' = [job EXCEPT !.phase = "done"]
    /\ IF job.of.message.type = "MSG" /\ Len(sent) < MaxMessages
       THEN stream' = stream \o job.text /\ sent' = Append(sent, job.of.message)
       ELSE UNCHANGED <<stream, sent>>
    /\ UNCHANGED <<delivered, crashed>>

\* The lines that the formats describe.
Layout(m, config) ==
    CASE m.type = "AUTH" ->
            Header.AUTH \o config.username \o Divider("AS") \o m.author
              \o Divider("USING") \o config.secret \o Delimiter
      [] m.type = "JOIN" ->
            Header.JOIN \o config.channel \o Divider("AS") \o m.author \o Delimiter
      [] m.type = "BYE" -> Header.BYE \o m.author \o Delimiter
      [] m.type = "REPLY" ->
            Header.REPLY \o (IF m.ok THEN <<"OK">> ELSE <<"NOK">>) \o Divider("IS")
              \o m.text \o Delimiter
      [] OTHER -> Header[m.type] \o m.author \o Divider("IS") \o m.text \o Delimiter

NoConfig == [username |-> <<>>, secret |-> <<>>, channel |-> <<>>]

Announce(m) ==
    /\ Len(sent) < MaxMessages
    /\ stream' = stream \o Layout(m, NoConfig)
    /\ sent' = Append(sent, m)
    /\ UNCHANGED <<job, delivered, crashed>>

\* recv returns what has arrived so far, and decode looks at that alone.  The
\* buffer is larger than the streams of an instance.
Receive(n) ==
    LET found == Decoded(SubSeq(stream, 1, n))
    IN  /\ ~crashed /\ n <= Len(stream)
        /\ stream' = SubSeq(stream, n + 1, Len(stream))
        /\ \/ found = {} /\ UNCHANGED <<delivered, crashed>>
           \/ \E m \in found :
                IF TooLong(m) THEN crashed' = TRUE /\ UNCHANGED delivered
                ELSE delivered' = Append(delivered, m) /\ UNCHANGED crashed
        /\ UNCHANGED <<job, sent>>

Next ==
    \/ \E of \in Typed : Encode(of)
    \/ Substitute
    \/ SendOff
    \/ \E m \in Announced : Announce(m)
    \/ \E n \in 1 .. Len(stream) : Receive(n)

\* encode is a loop of the program: nothing but the loop itself delays it.
Spec == Init /\ [][Next]_vars /\ WF_vars(Substitute) /\ WF_vars(SendOff)

----------------------------------------------------------------------------
(* Properties. *)

HasWord(text, words) == \E i \in DOMAIN text : text[i] \in words
Headers == {"ERR", "REPLY", "AUTH", "JOIN", "MSG", "BYE"}

Short(m) == Len(m.author) <= NameLimit /\ Len(m.text) <= TextLimit

\* No value of the message has a placeholder in it.
Plain(of) == \A k \in DOMAIN values(of) : Placeholders(values(of)[k]) = {}

\* The line has no " IS " and no line end but those of the format, and no value
\* that the encoder would take for a placeholder.
OneReading(m) ==
    /\ Short(m)
    /\ m.type = "REPLY" \/ m.author # <<>>
    /\ m.type = "BYE" \/ m.text # <<>>
    /\ ~HasWord(m.author \o m.text, {"CR", "LF", "LB"})
    /\ m.type = "REPLY" \/ ~HasWord(m.author \o m.text, {"IS"})

\* Type invariant, with the limit that Message keeps to.
TypeOK ==
    /\ job.phase \in {"idle", "encoding", "done"}
    /\ Len(sent) <= MaxMessages /\ crashed \in BOOLEAN
    /\ \A i \in DOMAIN delivered :
         /\ delivered[i].type \in Headers
         /\ Len(delivered[i].author) <= NameLimit /\ Len(delivered[i].text) <= TextLimit

\* encode returns the line that the format describes, as long as no value has
\* a placeholder of its own (the loop of TCP_encoder.cpp:43).
EncodesLine ==
    job.phase = "done" /\ Plain(job.of) => job.text = Layout(job.of.message, job.of.config)

\* Every brace of a value opens a placeholder, so that none comes about where
\* values meet; and no value leads through its placeholders back to itself.
Braced(of) ==
    \A text \in Range(values(of)) :
        Placeholders(text) = {i \in DOMAIN text : text[i] = "LB"}
Circular(of) ==
    LET v == values(of)
        Nested == {k \in DOMAIN v : Placeholders(v[k]) # {}}
    IN  \E K \in (SUBSET Nested) \ {{}} :
            \A k \in K : \E i \in Placeholders(v[k]) : v[k][i + 1] \in K

\* A braced text with all its placeholders filled at once, and what the values
\* are when that is done as often as there are values.
Filled(text, with) ==
    FlattenSeq([i \in DOMAIN text |->
        IF i \in Placeholders(text)
        THEN IF text[i + 1] \in DOMAIN with THEN with[text[i + 1]] ELSE <<"UNKNOWN">>
        ELSE IF {i - 1, i - 2} \cap Placeholders(text) # {} THEN <<>> ELSE <<text[i]>>])
Expansion(of) ==
    LET e[n \in 0 .. Cardinality(DOMAIN values(of))] ==
            IF n = 0 THEN values(of)
            ELSE [k \in DOMAIN values(of) |-> Filled(values(of)[k], e[n - 1])]
    IN  e[Cardinality(DOMAIN values(of))]

\* A placeholder in a value, as a user may type it, is replaced like one of the
\* format, and those in its value in turn: replaced one at a time, each time the
\* leftmost, they come to the same as all at once (TCP_encoder.cpp:44-53).
EncodesExpanded ==
    job.phase = "done" /\ Braced(job.of)
    => \/ job.text = Filled(tcpMessageFormats[job.of.message.type], Expansion(job.of))
       \/ Circular(job.of)

\* And encode returns, also where a value is empty, or has placeholders, as long
\* as they lead nowhere back (TCP_encoder.cpp:44-53).
EncodeEnds ==
    (job.phase = "encoding" /\ Braced(job.of) /\ ~Circular(job.of))
    ~> job.phase = "done"

\* A recv that returns a whole line, and perhaps the beginning of the next
\* one, delivers its message as it was sent, whatever pieces came before: the
\* decoder keeps nothing from one piece to the next (TCP_decoder.cpp:123).
WholeLineDelivered ==
    [][\A m \in Range(sent) :
        LET line == Layout(m, NoConfig)
            piece == SubSeq(stream, 1, Len(stream) - Len(stream'))
        IN  (/\ IsPrefix(line, piece) /\ OneReading(m)
             /\ ~HasWord(SubSeq(piece, Len(line) + 1, Len(piece)), {"CR", "LF"}))
            => delivered' = Append(delivered, m)]_vars

\* However the stream is cut, only what was sent is delivered, in its order
\* and at most once, if no text repeats the words that begin or divide a line
\* (a piece that begins inside a text is read like any other,
\* TCP_receiver.cpp:68).
DeliveredWasSent ==
    (\A i \in DOMAIN sent : OneReading(sent[i])
                              /\ ~HasWord(sent[i].author \o sent[i].text, Headers))
    => \E at \in [DOMAIN delivered -> DOMAIN sent] :
          /\ \A i, j \in DOMAIN at : i < j => at[i] < at[j]
          /\ \A i \in DOMAIN at : delivered[i] = sent[at[i]]

\* No message within the limits of Message ends the program, however the
\* stream is cut, if no text repeats those words (setAuthor throws out of
\* decode, TCP_decoder.cpp:93, and out of run).
ShortNamesSurvive ==
    crashed => \E i \in DOMAIN sent :
                  ~Short(sent[i]) \/ HasWord(sent[i].author \o sent[i].text,
                                               Headers \cup {"IS", "CR", "LF", "LB"})

=============================================================================
